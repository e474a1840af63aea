-------------------------------- MODULE Io --------------------------------
(***************************************************************************)
(* The server's side of the network (src/io.c, src/net.c), the functions a *)
(* task calls on it (src/ioop.c and part of src/adminop.c) and the main    *)
(* loop that drives it (main_loop() of src/main.c).                        *)
(*                                                                         *)
(* One process walks the three lists `connections', `servers' and          *)
(* `pendings'.  From inside those walks it runs tasks, and a task calls    *)
(* back: it writes to connections, marks connections and servers dead, and *)
(* adds to the heads of the lists.  Records leave a list in flush_defunct()*)
(* only, so that a walk is the part of the list, fixed when it begins,     *)
(* that is still to visit (`todo').                                        *)
(*                                                                         *)
(* The kernel and the peers are the nondeterminism: which descriptors      *)
(* select() reports, what read(), write(), accept(), bind() and connect()  *)
(* return.  Descriptors are the kernel's: open() gives the lowest free one *)
(* (`open' is the set in use), so that they are used again.  Output is     *)
(* counted in units of at most MaxOutput a connection.                     *)
(*                                                                         *)
(* Mutants are marked as in ObjectStore.                                   *)
(***************************************************************************)
EXTENDS Naturals, Sequences, SequencesExt, FiniteSetsExt

CONSTANTS
  MaxFd,      \* RLIMIT_NOFILE: descriptors are 1 .. MaxFd
  Port,       \* ports of this host
  Dbref,      \* handlers and receivers
  MaxOutput,  \* bound on the unsent output of a connection
  MaxCalls,   \* bound on the functions a task calls
  NoFd        \* the -1 in client_socket and the NULL in cur_conn

ASSUME MaxFdAssumption == MaxFd \in Nat
ASSUME PortAssumption == Port # {}
ASSUME DbrefAssumption == Dbref # {}
ASSUME MaxOutputAssumption == MaxOutput \in Nat
ASSUME MaxCallsAssumption == MaxCalls \in Nat
ASSUME NoFdAssumption == NoFd \notin 1 .. MaxFd

VARIABLES
  connections, \* the list of client connections, by descriptor
  conn,        \* struct connection, for each descriptor
  servers,     \* the list of server sockets, by descriptor
  server,      \* struct server
  pendings,    \* the list of pending connections, by record
  pend,        \* struct pending
  open,        \* descriptors in use in this process
  running,     \* the global of main.c; 0 once shutdown() was called
  heartbeat_freq, \* TRUE iff it is not -1
  pc,          \* where the loop is
  todo,        \* what the walk has still to visit
  task,        \* calls: what the task may still call; ret: where to go then
  cur_conn,    \* the connection the task was started for
  owed         \* history: output accepted for a connection and not written

lists == <<connections, servers, pendings, open>>
recs == <<conn, server, pend>>
vars == <<connections, conn, servers, server, pendings, pend, open, running,
          heartbeat_freq, pc, todo, task, cur_conn, owed>>

Fd == 1 .. MaxFd
Pc == {"top", "flush", "close", "wait", "conns", "write", "servers", "pends",
       "beat", "task", "exited"}

Conn == [dbref : Dbref, output : 0 .. MaxOutput, readable : BOOLEAN,
         writable : BOOLEAN, dead : BOOLEAN]
Server == [port : Port, dbref : Dbref, dead : BOOLEAN,
           client_socket : Fd \cup {NoFd}]
\* `failed' is pend->error # NOT_AN_IDENT.  The last two are history: connect()
\* itself had failed; handle_io_events() has passed the descriptor on or closed
\* it; the receiver was sent its message.
Pending == [fd : Fd, dbref : Dbref, failed : BOOLEAN, finished : BOOLEAN,
            atonce : BOOLEAN, handled : BOOLEAN, answered : BOOLEAN]

\* The type of everything, and that a list has no record twice.
TypeOK ==
  /\ connections \in Seq(Fd) /\ IsInjective(connections)
  /\ servers \in Seq(Fd) /\ IsInjective(servers)
  /\ pendings \in Seq(Fd) /\ IsInjective(pendings)
  /\ conn \in [Fd -> Conn] /\ server \in [Fd -> Server]
  /\ pend \in [Fd -> Pending]
  /\ open \subseteq Fd
  /\ running \in BOOLEAN /\ heartbeat_freq \in BOOLEAN
  /\ pc \in Pc
  /\ todo \in Seq(Fd)
  /\ task \in [calls : 0 .. MaxCalls, ret : Pc]
  /\ cur_conn \in Fd \cup {NoFd}
  /\ owed \in [Fd -> 0 .. MaxOutput]

Connected(d) == {c \in ToSet(connections) : conn[c].dbref = d}
\* A list without the records that are not in X
Kept(list, X) ==
  LET kept[n \in 0 .. Len(list)] ==
        IF n = 0 THEN <<>>
        ELSE IF list[n] \in X THEN Append(kept[n - 1], list[n]) ELSE kept[n - 1]
  IN  kept[Len(list)]
WithoutFd(list, fd) == Kept(list, Fd \ {fd})

\* The kernel gives the lowest descriptor that is not in use.
FdLeft == open # Fd
NewFd == Min(Fd \ open)

\* A struct pending can outlive its descriptor; the bound on them is MaxFd.
RecordLeft == ToSet(pendings) # Fd
NewRecord == Min(Fd \ ToSet(pendings))

NewConn(d) == [dbref |-> d, output |-> 0, readable |-> FALSE,
               writable |-> FALSE, dead |-> FALSE]

NewServer(p, d) ==
  [port |-> p, dbref |-> d, dead |-> FALSE, client_socket |-> NoFd]
NewPending(f, d, failed) ==
  [fd |-> f, dbref |-> d, failed |-> failed, finished |-> FALSE,
   atonce |-> failed, handled |-> FALSE, answered |-> FALSE]

\* What freed memory holds is not read: one value stands for all of them.
SomeDbref == CHOOSE d \in Dbref : TRUE
FreeConn == NewConn(SomeDbref)
FreeServer == NewServer(CHOOSE p \in Port : TRUE, SomeDbref)
FreePending == NewPending(1, SomeDbref, FALSE)

Init ==
  /\ connections = <<>> /\ servers = <<>> /\ pendings = <<>>
  /\ conn = [f \in Fd |-> FreeConn]
  /\ server = [f \in Fd |-> FreeServer]
  /\ pend = [f \in Fd |-> FreePending]
  /\ open = {}
  /\ running = TRUE
  /\ heartbeat_freq = FALSE
  \* initialize() ends with the startup task; the loop begins after it.
  /\ pc = "task" /\ todo = <<>>
  /\ task = [calls |-> MaxCalls, ret |-> "top"]
  /\ cur_conn = NoFd
  /\ owed = [f \in Fd |-> 0]

---------------------------------------------------------------------------
(* Tasks.  A task runs to its end before the loop goes on (ticks bound     *)
(* it); what it calls is anyone's choice, at most MaxCalls functions.      *)

GoTo(next, walk) ==
  /\ pc' = next
  /\ todo' = walk
  /\ UNCHANGED <<task, cur_conn>>

\* task(conn, ...), going on at `ret' with `rest' of the walk.  After a
\* shutdown() no task is started.
StartTask(c, ret, rest) ==
  \/ /\ running
     /\ cur_conn' = c
     /\ task' = [calls |-> MaxCalls, ret |-> ret]
     /\ pc' = "task"
     /\ todo' = rest
  \/ ~running /\ GoTo(ret, rest)

Called ==
  /\ pc = "task"
  /\ task.calls > 0
  /\ task' = [task EXCEPT !.calls = @ - 1]
  /\ UNCHANGED <<pc, todo>>

\* tell() appends to each live connection.
Tell(d) ==
  LET hearers == {c \in Connected(d) : ~conn[c].dead} IN
    /\ \A c \in hearers : conn[c].output < MaxOutput
    /\ conn' = [c \in Fd |-> IF c \in hearers
                             THEN [conn[c] EXCEPT !.output = @ + 1]
                             ELSE conn[c]]
    /\ owed' = [c \in Fd |-> IF c \in hearers THEN owed[c] + 1 ELSE owed[c]]

\* echo() and echo_file()
Echo ==
  /\ Called
  /\ \E d \in Dbref : Tell(d)
  /\ UNCHANGED <<lists, server, pend, running, heartbeat_freq, cur_conn>>

\* Mutant: boot() takes a connection without output out of the list at once.
BootRemoves(d) ==
  /\ conn' = [c \in Fd |-> [conn[c] EXCEPT !.dead = @ \/ c \in Connected(d)]]
  /\ connections' = Kept(connections,
                          {c \in Fd : c \notin Connected(d) \/ conn[c].output > 0})

\* boot() marks the connections, dead ones again.
Boot(d) ==
  /\ conn' = [c \in Fd |-> [conn[c] EXCEPT !.dead = @ \/ c \in Connected(d)]]
  /\ UNCHANGED connections

Disconnect ==
  /\ Called
  /\ \E d \in Dbref : Boot(d)
  /\ UNCHANGED <<servers, pendings, open, server, pend, running,
                 heartbeat_freq, cur_conn, owed>>

ConnAssign ==
  /\ Called
  /\ cur_conn # NoFd
  /\ \E d \in Dbref : conn' = [conn EXCEPT ![cur_conn].dbref = d]
  /\ UNCHANGED <<lists, server, pend, running, heartbeat_freq, cur_conn, owed>>

\* socket() gives the lowest descriptor; it is not closed when bind() fails.
GetServerSocket == FdLeft /\ open' = open \cup {NewFd}

\* Mutant: a dead server does not count.
AddServerBesideDead(p, d) ==
  /\ \A s \in ToSet(servers) : server[s].port = p => server[s].dead
  /\ GetServerSocket
  /\ server' = [server EXCEPT ![NewFd] = NewServer(p, d)]
  /\ servers' = <<NewFd>> \o servers

\* A server on the port is taken over, also a dead one.  Otherwise there is a
\* new one, or bind() fails.
AddServer(p, d) ==
  \/ /\ \E s \in ToSet(servers) :
          /\ server[s].port = p
          /\ server' = [server EXCEPT ![s].dbref = d, ![s].dead = FALSE]
     /\ UNCHANGED <<servers, open>>
  \/ /\ \A s \in ToSet(servers) : server[s].port # p
     /\ GetServerSocket
     /\ \/ /\ server' = [server EXCEPT ![NewFd] = NewServer(p, d)]
           /\ servers' = <<NewFd>> \o servers
        \/ UNCHANGED <<server, servers>>

Bind ==
  /\ Called
  /\ \E p \in Port, d \in Dbref : AddServer(p, d)
  /\ UNCHANGED <<connections, conn, pendings, pend, running, heartbeat_freq,
                 cur_conn, owed>>

RemoveServer(p) ==
  \E s \in ToSet(servers) :
    server[s].port = p /\ server' = [server EXCEPT ![s].dead = TRUE]

Unbind ==
  /\ Called
  /\ \E p \in Port : RemoveServer(p)
  /\ UNCHANGED <<lists, conn, pend, running, heartbeat_freq, cur_conn, owed>>

\* The address is valid and there is a socket; connect() is under way, or has
\* failed at once.
NonBlockingConnect(failed) ==
  /\ FdLeft
  /\ failed \in BOOLEAN
  /\ open' = open \cup {NewFd}

MakeConnection(d) ==
  /\ RecordLeft
  /\ \E failed \in BOOLEAN :
       /\ NonBlockingConnect(failed)
       /\ pend' = [pend EXCEPT ![NewRecord] = NewPending(NewFd, d, failed)]
  /\ pendings' = <<NewRecord>> \o pendings

Connect ==
  /\ Called
  /\ \E d \in Dbref : MakeConnection(d)
  /\ UNCHANGED <<connections, conn, servers, server, running, heartbeat_freq,
                 cur_conn, owed>>

SetHeartbeatFreq ==
  /\ Called
  /\ heartbeat_freq' \in BOOLEAN
  /\ UNCHANGED <<lists, recs, running, cur_conn, owed>>

Shutdown ==
  /\ Called
  /\ running' = FALSE
  /\ UNCHANGED <<lists, recs, heartbeat_freq, cur_conn, owed>>

\* The task ends, and the walk it was started from goes on.  The next task sets
\* cur_conn before anything reads it.
TaskEnds ==
  /\ pc = "task"
  /\ pc' = task.ret
  /\ task' = [calls |-> 0, ret |-> "top"]
  /\ cur_conn' = NoFd
  /\ UNCHANGED <<lists, recs, running, heartbeat_freq, todo, owed>>

Task == Echo \/ Disconnect \/ ConnAssign \/ Bind \/ Unbind \/ Connect
          \/ SetHeartbeatFreq \/ Shutdown \/ TaskEnds

---------------------------------------------------------------------------
(* main_loop() and flush_defunct()                                         *)

\* Mutant: shutdown waits for the connections to go.
LoopTopWaits ==
  /\ pc = "top"
  /\ \/ (running \/ connections # <<>>) /\ GoTo("flush", connections)
     \/ ~running /\ connections = <<>> /\ GoTo("exited", <<>>)
  /\ UNCHANGED owed
  /\ UNCHANGED <<lists, recs, running, heartbeat_freq>>

\* flush_output() writes to each connection until that fails.
FlushOutput ==
  /\ owed' \in [Fd -> 0 .. MaxOutput]
  /\ \A f \in Fd : owed'[f] <= owed[f]

\* while (running): the walk over the connections begins, or the loop ends.
LoopTop ==
  /\ pc = "top"
  /\ \/ running /\ GoTo("flush", connections) /\ UNCHANGED owed
     \/ ~running /\ GoTo("exited", <<>>) /\ FlushOutput
  /\ UNCHANGED <<lists, recs, running, heartbeat_freq>>

\* Mutant: output left is not waited for.
DefunctAtOnce(c) == conn[c].dead

Defunct(c) == conn[c].dead /\ conn[c].output = 0

\* Mutant: the connection is freed before its disconnect task.
FlushConnectionFirst ==
  /\ pc = "flush" /\ todo # <<>>
  /\ LET c == Head(todo) IN
     \/ /\ Defunct(c)
        /\ connections' = WithoutFd(connections, c)
        /\ open' = open \ {c}
        /\ StartTask(c, "flush", Tail(todo))
     \/ /\ ~Defunct(c)
        /\ GoTo("flush", Tail(todo))
        /\ UNCHANGED <<connections, open>>
  /\ UNCHANGED <<servers, pendings, recs, running, heartbeat_freq, owed>>

\* The record is out of the list before the handler hears of it ...
FlushConnection ==
  /\ pc = "flush" /\ todo # <<>>
  /\ LET c == Head(todo) IN
     \/ /\ Defunct(c)
        /\ connections' = WithoutFd(connections, c)
        /\ StartTask(c, "close", todo)
     \/ /\ ~Defunct(c)
        /\ GoTo("flush", Tail(todo))
        /\ UNCHANGED connections
  /\ UNCHANGED <<servers, pendings, open, recs, running, heartbeat_freq, owed>>

\* ... and closed and freed after that: the end of connection_discard()
CloseConnection ==
  /\ pc = "close"
  /\ open' = open \ {Head(todo)}
  /\ conn' = [conn EXCEPT ![Head(todo)] = FreeConn]
  /\ owed' = [owed EXCEPT ![Head(todo)] = 0]
  /\ GoTo("flush", Tail(todo))
  /\ UNCHANGED <<connections, servers, server, pendings, pend, running,
                 heartbeat_freq>>

\* Mutant: pend_discard() closes the descriptor.
FlushSocketsCloses ==
  /\ pc = "flush" /\ todo = <<>>
  /\ servers' = Kept(servers, {s \in Fd : ~server[s].dead})
  /\ open' = open \ ({s \in ToSet(servers) : server[s].dead} \cup
                     {pend[p].fd : p \in {q \in Fd : pend[q].finished}})
  /\ server' = [s \in Fd |-> IF server[s].dead THEN FreeServer ELSE server[s]]
  /\ pendings' = Kept(pendings, {p \in Fd : ~pend[p].finished})
  /\ pend' = [p \in Fd |-> IF pend[p].finished THEN FreePending ELSE pend[p]]
  /\ GoTo("wait", <<>>)
  /\ UNCHANGED <<connections, conn, running, heartbeat_freq, owed>>

\* Dead servers are closed and finished pending connections freed.
FlushSockets ==
  /\ pc = "flush" /\ todo = <<>>
  /\ servers' = Kept(servers, {s \in Fd : ~server[s].dead})
  /\ open' = open \ {s \in ToSet(servers) : server[s].dead}
  /\ server' = [s \in Fd |-> IF server[s].dead THEN FreeServer ELSE server[s]]
  /\ pendings' = Kept(pendings, {p \in Fd : ~pend[p].finished})
  /\ pend' = [p \in Fd |-> IF pend[p].finished THEN FreePending ELSE pend[p]]
  /\ GoTo("wait", <<>>)
  /\ UNCHANGED <<connections, conn, running, heartbeat_freq, owed>>

---------------------------------------------------------------------------
(* io_event_wait()                                                         *)

InProgress == {p \in ToSet(pendings) : ~pend[p].failed}

\* Before select(): a connect() that has failed is finished.
FailedMarked ==
  [p \in Fd |-> IF p \in ToSet(pendings) /\ pend[p].failed
                THEN [pend[p] EXCEPT !.finished = TRUE] ELSE pend[p]]

\* select() reports nothing: a signal interrupted it, or the time to the next
\* heartbeat has passed.
NoEvent ==
  /\ pc = "wait"
  /\ pend' = FailedMarked
  /\ GoTo("beat", <<>>)
  /\ UNCHANGED <<lists, conn, server, running, heartbeat_freq, owed>>

Timeout == heartbeat_freq /\ NoEvent

\* accept() for the servers S, in the order of the list
Clients(S) ==
  {client \in [S -> Fd \ open] :
     /\ \A i, j \in DOMAIN servers :
          servers[i] \in S /\ servers[j] \in S /\ i < j
            => client[servers[i]] < client[servers[j]]
     /\ \A s \in S, f \in Fd \ open :
          f < client[s] => \E t \in S : client[t] = f}

\* select() reports connections that can be read (R) or written (W), servers
\* with a client (A; accept() succeeds for S) and attempts to connect that are
\* over (P; they failed for F).
Events(R, W, A, P) ==
  /\ pc = "wait"
  /\ R \cup W \cup A \cup P # {}
  /\ conn' = [c \in Fd |-> [conn[c] EXCEPT !.readable = @ \/ c \in R,
                                           !.writable = @ \/ c \in W]]
  /\ \E S \in SUBSET A : \E client \in Clients(S) :
       /\ server' = [s \in Fd |->
            IF s \in S
            THEN [server[s] EXCEPT !.client_socket = client[s]] ELSE server[s]]
       /\ open' = open \cup {client[s] : s \in S}
  /\ \E F \in SUBSET P :
       pend' = [p \in Fd |->
                  IF p \in F
                  THEN [pend[p] EXCEPT !.finished = TRUE, !.failed = TRUE]
                  ELSE IF p \in P THEN [pend[p] EXCEPT !.finished = TRUE]
                  ELSE FailedMarked[p]]
  /\ GoTo("conns", connections)
  /\ UNCHANGED <<connections, servers, pendings, running, heartbeat_freq, owed>>

SomeEvents ==
  \E R \in SUBSET {c \in ToSet(connections) : ~conn[c].dead},
     W \in SUBSET {c \in ToSet(connections) : conn[c].output > 0},
     A \in SUBSET ToSet(servers), P \in SUBSET InProgress :
       Events(R, W, A, P)

---------------------------------------------------------------------------
(* handle_io_events()                                                      *)

\* connection_read(), which runs the parse task when there was data
Read ==
  /\ pc = "conns" /\ todo # <<>>
  /\ LET c == Head(todo) IN
     \/ /\ ~conn[c].readable \/ conn[c].dead
        /\ GoTo("write", todo)
        /\ UNCHANGED conn
     \/ /\ conn[c].readable /\ ~conn[c].dead
        /\ \/ GoTo("write", todo) /\ UNCHANGED conn    \* EINTR: next time
           \/ GoTo("write", todo)                      \* end of file or error
              /\ conn' = [conn EXCEPT ![c].readable = FALSE, ![c].dead = TRUE]
           \/ StartTask(c, "write", todo)
              /\ conn' = [conn EXCEPT ![c].readable = FALSE]
  /\ UNCHANGED <<lists, server, pend, running, heartbeat_freq, owed>>

\* Mutant: the output of a lost connection stays.
WriteKeeps ==
  /\ pc = "write"
  /\ LET c == Head(todo) IN
     \/ ~conn[c].writable /\ UNCHANGED <<conn, owed>>
     \/ /\ conn[c].writable
        /\ \E r \in 1 .. conn[c].output :
             /\ conn' = [conn EXCEPT ![c].output = @ - r, ![c].writable = FALSE]
             /\ owed' = [owed EXCEPT ![c] = @ - r]
     \/ /\ conn[c].writable
        /\ conn' = [conn EXCEPT ![c].writable = FALSE, ![c].dead = TRUE]
        /\ UNCHANGED owed
  /\ GoTo("conns", Tail(todo))
  /\ UNCHANGED <<lists, server, pend, running, heartbeat_freq>>

\* connection_write(): some of the output is written, or the peer is lost.
Write ==
  /\ pc = "write"
  /\ LET c == Head(todo) IN
     \/ ~conn[c].writable /\ UNCHANGED <<conn, owed>>
     \/ /\ conn[c].writable
        /\ \E r \in 1 .. conn[c].output :
             /\ conn' = [conn EXCEPT ![c].output = @ - r, ![c].writable = FALSE]
             /\ owed' = [owed EXCEPT ![c] = @ - r]
     \/ /\ conn[c].writable
        /\ conn' = [conn EXCEPT ![c].output = 0, ![c].writable = FALSE,
                                ![c].dead = TRUE]
        /\ owed' = [owed EXCEPT ![c] = 0]
  /\ GoTo("conns", Tail(todo))
  /\ UNCHANGED <<lists, server, pend, running, heartbeat_freq>>

ConnectionsDone ==
  /\ pc = "conns" /\ todo = <<>>
  /\ GoTo("servers", servers)
  /\ UNCHANGED <<lists, recs, running, heartbeat_freq, owed>>

\* connection_add()
Add(f, d) ==
  /\ connections' = <<f>> \o connections
  /\ conn' = [conn EXCEPT ![f] = NewConn(d)]
  /\ owed' = [owed EXCEPT ![f] = 0]

\* Mutant: the client stays noted in the server.
AcceptKeeps ==
  /\ pc = "servers" /\ todo # <<>>
  /\ LET s == Head(todo)  f == server[s].client_socket IN
     \/ /\ f = NoFd
        /\ GoTo("servers", Tail(todo))
        /\ UNCHANGED <<connections, conn, owed>>
     \/ /\ f # NoFd
        /\ Add(f, server[s].dbref)
        /\ StartTask(f, "servers", Tail(todo))
  /\ UNCHANGED <<servers, pendings, open, server, pend, running, heartbeat_freq>>

\* A client on a server socket: its connect task
Accept ==
  /\ pc = "servers" /\ todo # <<>>
  /\ LET s == Head(todo)  f == server[s].client_socket IN
     \/ /\ f = NoFd
        /\ GoTo("servers", Tail(todo))
        /\ UNCHANGED <<connections, conn, server, owed>>
     \/ /\ f # NoFd
        /\ Add(f, server[s].dbref)
        /\ server' = [server EXCEPT ![s].client_socket = NoFd]
        /\ StartTask(f, "servers", Tail(todo))
  /\ UNCHANGED <<servers, pendings, open, pend, running, heartbeat_freq>>

ServersDone ==
  /\ pc = "servers" /\ todo = <<>>
  /\ GoTo("pends", pendings)
  /\ UNCHANGED <<lists, recs, running, heartbeat_freq, owed>>

\* Mutant: only a connection is answered.
AnswerSuccess ==
  /\ pc = "pends" /\ todo # <<>>
  /\ LET p == Head(todo) IN
     \/ /\ ~pend[p].finished \/ pend[p].failed
        /\ GoTo("pends", Tail(todo))
        /\ UNCHANGED <<connections, conn, pend, owed>>
     \/ /\ pend[p].finished /\ ~pend[p].failed
        /\ Add(pend[p].fd, pend[p].dbref)
        /\ pend' = [pend EXCEPT ![p].handled = TRUE,
                                ![p].answered = running]
        /\ StartTask(pend[p].fd, "pends", Tail(todo))
  /\ UNCHANGED <<servers, pendings, open, server, running, heartbeat_freq>>

\* An attempt to connect that is over: the connect or the failed task
Answer ==
  /\ pc = "pends" /\ todo # <<>>
  /\ LET p == Head(todo) IN
     \/ /\ ~pend[p].finished
        /\ GoTo("pends", Tail(todo))
        /\ UNCHANGED <<connections, conn, pend, open, owed>>
     \/ /\ pend[p].finished /\ ~pend[p].failed
        /\ Add(pend[p].fd, pend[p].dbref)
        /\ pend' = [pend EXCEPT ![p].handled = TRUE,
                                ![p].answered = running]
        /\ StartTask(pend[p].fd, "pends", Tail(todo))
        /\ UNCHANGED open
     \/ /\ pend[p].finished /\ pend[p].failed
        /\ open' = open \ {pend[p].fd}
        /\ pend' = [pend EXCEPT ![p].handled = TRUE,
                                ![p].answered = running]
        /\ StartTask(NoFd, "pends", Tail(todo))
        /\ UNCHANGED <<connections, conn, owed>>
  /\ UNCHANGED <<servers, pendings, server, running, heartbeat_freq>>

PendingsDone ==
  /\ pc = "pends" /\ todo = <<>>
  /\ GoTo("beat", <<>>)
  /\ UNCHANGED <<lists, recs, running, heartbeat_freq, owed>>

\* The time of the heartbeat has come, or not.
Heartbeat ==
  /\ pc = "beat"
  /\ \/ heartbeat_freq /\ StartTask(NoFd, "top", <<>>)
     \/ GoTo("top", <<>>)
  /\ UNCHANGED <<lists, recs, running, heartbeat_freq, owed>>

---------------------------------------------------------------------------
\* What the process does by itself; a task ends because its ticks do.
Loop == TaskEnds \/ LoopTop \/ FlushConnection \/ CloseConnection
          \/ FlushSockets \/ Timeout \/ Read \/ Write \/ ConnectionsDone
          \/ Accept \/ ServersDone \/ Answer \/ PendingsDone \/ Heartbeat

Next == Task \/ Loop \/ NoEvent \/ SomeEvents

Spec == Init /\ [][Next]_vars

\* A peer goes on reading what it is sent, or goes away ...
Writable(f) == SomeEvents /\ conn'[f].writable
\* ... and an attempt to connect succeeds or fails in the end.
AttemptOver(p) == SomeEvents /\ pend'[p].finished /\ ~pend[p].finished

FairSpec == /\ Spec
            /\ WF_vars(Loop)
            /\ \A f \in Fd : SF_vars(Writable(f)) /\ SF_vars(AttemptOver(f))

---------------------------------------------------------------------------
(* Properties                                                              *)

\* A walk over a list, interrupted by the tasks it runs
Walks(where) == pc \in where \/ (pc = "task" /\ task.ret \in where)
Closing == IF Walks({"close"}) THEN {Head(todo)} ELSE {}
Noted == {s \in ToSet(servers) : server[s].client_socket # NoFd}
Unhandled == {p \in ToSet(pendings) : ~pend[p].handled}

\* Every descriptor a record holds is open and no other record holds it: a
\* close() in one list never takes the socket of a record in another, whatever
\* the tasks between two steps of a walk opened.
DescriptorsOwned ==
  LET C == ToSet(connections)
      S == ToSet(servers)
      N == {server[s].client_socket : s \in Noted}
      U == {pend[p].fd : p \in Unhandled}
  IN  /\ C \cup S \cup N \cup U \cup Closing \subseteq open
      /\ C \cap S = {} /\ C \cap N = {} /\ C \cap U = {}
      /\ S \cap N = {} /\ S \cap U = {} /\ N \cap U = {}
      /\ Closing \cap (C \cup S \cup N \cup U) = {}
      /\ \A s, t \in Noted :
           server[s].client_socket = server[t].client_socket => s = t
      /\ \A p, q \in Unhandled : pend[p].fd = pend[q].fd => p = q

\* No walk comes to a record that was freed behind its back: what is left to
\* visit is still in the list, although tasks run between the visits
\* (handle_io_events(), flush_defunct()).
WalkedRecordsLive ==
  /\ Walks({"conns", "write"}) => ToSet(todo) \subseteq ToSet(connections)
  /\ Walks({"servers"}) => ToSet(todo) \subseteq ToSet(servers)
  /\ Walks({"pends"}) => ToSet(todo) \subseteq ToSet(pendings)
  /\ Walks({"flush"}) => ToSet(todo) \subseteq ToSet(connections)

\* conn_assign() in a running task writes to a connection that is not freed:
\* cur_conn is in the list, or being discarded at the end of its own
\* disconnect task.
CurConnLives ==
  pc = "task" /\ cur_conn # NoFd =>
    cur_conn \in ToSet(connections) \cup Closing

\* bind() never leaves two servers on one port, also when unbind() and bind()
\* are called before flush_defunct() comes by.
PortServedOnce ==
  \A s, t \in ToSet(servers) : server[s].port = server[t].port => s = t

\* What echo() accepted for a connection was written before the connection
\* leaves the list, unless write() said that the peer is lost; after it is
\* marked dead nothing more is accepted.
ClosedOwesNothing ==
  [][\A c \in ToSet(connections) \ ToSet(connections') : owed[c] = 0]_vars

\* Each connect() that was under way when it returned gets its connect or its
\* failed message before the record is freed.  One that failed at once may not:
\* it is finished without an event, and handle_io_events() returns before it
\* looks at it when select() reports nothing else.
ConnectAnswered ==
  [][\A p \in ToSet(pendings) \ ToSet(pendings') :
       pend[p].answered \/ pend[p].atonce]_vars

\* With a heartbeat, a dead connection is closed and reported in the end; without
\* one the loop may wait for ever on a connection a disconnect task booted.
DeadReported ==
  \A c \in Fd :
    c \in ToSet(connections) /\ conn[c].dead ~>
      c \notin ToSet(connections) \/ ~heartbeat_freq \/ ~running

\* An attempt to connect ends with a message, while the server runs.
AttemptsEnd ==
  \A p \in Fd : p \in InProgress ~> pend[p].answered \/ ~running

\* With a heartbeat, shutdown() ends the process.
ShutdownEnds == ~running ~> pc = "exited" \/ ~heartbeat_freq
=============================================================================
