------------------------------- MODULE Server -------------------------------
(***************************************************************************)
(* A TCP server of the daemon, from the first connection to the end of the *)
(* process: src/lib/net/server.{hpp,cpp}, src/lib/net/client.{hpp,cpp}     *)
(* and the threads src/src/main.cpp runs on them.  The accept thread polls *)
(* the listening socket; each client has a thread that reads lines and     *)
(* runs them as commands; these threads, and those of the player, write    *)
(* events to all clients; the main thread waits for a signal, saves the    *)
(* player, disconnects and returns.                                        *)
(*                                                                         *)
(* Descriptors are what the kernel hands out, the lowest free one first,   *)
(* so that one that is closed soon designates something else.              *)
(*                                                                         *)
(* The daemon has two servers, which share no state: this is one of them.  *)
(***************************************************************************)
EXTENDS Naturals, FiniteSets, SequencesExt

CONSTANTS
  Peers,      \* programs that connect to the server, once each
  Players,    \* other threads that send events: playlist and mpv threads
  Fd,         \* descriptors the process may have
  Script,     \* what each peer sends: a sequence of characters
  NL,         \* the delimiter of readUntil
  SocketSize, \* bound of the model: messages a socket buffers for its peer
  MaxEvents,  \* bound of the model: events
  File,       \* what other parts of the process open: an archive's stream
  Acceptor,   \* the accept thread and
  Main,       \* the main thread, as owners of _clientListMutex
  None

Threads == Peers \cup Players  \* the thread of a client goes by its peer

ASSUME ServerAssumption ==
  /\ Fd \subseteq Nat \ {0}
  /\ Script \in [Peers -> Seq(Nat)]
  /\ NL \in Nat
  /\ SocketSize \in Nat \ {0}
  /\ MaxEvents \in Nat
  /\ Peers \cap Players = {}
  /\ {File, Acceptor, Main, None} \cap Threads = {}
  /\ Acceptor # Main /\ Acceptor # None /\ Main # None /\ File # None

VARIABLES
  peer,      \* each peer: "away", "open", "closed" or "reset" by it
  tosend,    \* what it still has to send
  inbox,     \* what has arrived from it and was not read
  unread,    \* the number of messages in the buffer towards it
  got,       \* history: the events written to it, while it is there
  backlog,   \* the connections to accept
  table,     \* what each descriptor designates
  clients,   \* _clients, by peer
  fd,        \* Client::_fd
  data,      \* Client::_data
  done,      \* history: the commands run for each client
  pc,        \* the statement each thread is at
  event,     \* the event each thread sends
  at,        \* the descriptor it wrote to last in writeAll
  events,    \* events so far
  acc,       \* the statement the accept thread is at
  fresh,     \* the peer it has accepted
  owner,     \* the owner of _clientListMutex
  quit,      \* signalReceived
  main,      \* the statement the main thread is at
  saved,     \* the save file: "old", "written" or "empty"
  proc       \* "running", or how the process ended

network == <<peer, tosend, inbox, backlog>>
written == <<unread, got>>
session == <<data, done>>
sending == <<event, at, events>>
accepting == <<acc, fresh>>
ending == <<quit, main, saved>>
set == <<clients, fd>>

vars == <<network, written, table, set, session, pc, sending,
          accepting, owner, ending, proc>>

NetworkTypes ==
  /\ peer \in [Peers -> {"away", "open", "closed", "reset"}]
  /\ {tosend, inbox, data, got} \subseteq [Peers -> Seq(Nat)]
  /\ done \in [Peers -> Seq(Seq(Nat))]
  /\ unread \in [Peers -> 0 .. SocketSize]
  /\ backlog \subseteq Peers

DescriptorTypes ==
  /\ table \in [Fd -> Peers \cup {File, None}]
  /\ clients \subseteq Peers
  /\ fd \in [Peers -> Fd \cup {0}] /\ \A p \in clients : fd[p] # 0

WriterTypes ==
  /\ pc \in [Threads -> {"none", "idle", "find", "lock", "write", "reply",
                         "erase", "erasing", "end"}]
  /\ events \in 0 .. MaxEvents /\ event \in [Threads -> 0 .. MaxEvents]
  /\ at \in [Threads -> Fd \cup {0}]

ProcessTypes ==
  /\ acc \in {"test", "accept", "lock", "insert", "run", "end"}
  /\ fresh \in Peers \cup {None}
  /\ owner \in Threads \cup {Acceptor, Main, None}
  /\ quit \in BOOLEAN /\ saved \in {"old", "written", "empty"}
  /\ main \in {"wait", "save", "unwind", "disconnect", "close", "closefd",
               "clear", "join", "end"}
  /\ proc \in {"running", "returned", "badAccept", "noDescriptor",
               "insertion", "readError", "dangling"}

TypeOK == NetworkTypes /\ DescriptorTypes /\ WriterTypes /\ ProcessTypes

Goto(t, label) == pc' = [pc EXCEPT ![t] = label]

\* connect() and the two asyncAcceptLoop() are behind us.
Init ==
  /\ peer = [p \in Peers |-> "away"]
  /\ tosend = Script
  /\ inbox = [p \in Peers |-> <<>>] /\ data = inbox /\ done = inbox /\ got = inbox
  /\ unread = [p \in Peers |-> 0] /\ fd = unread
  /\ backlog = {} /\ clients = {}
  /\ table = [n \in Fd |-> None]
  /\ pc = [t \in Threads |-> IF t \in Players THEN "idle" ELSE "none"]
  /\ events = 0 /\ event = [t \in Threads |-> 0] /\ at = event
  /\ acc = "test" /\ fresh = None
  /\ owner = None
  /\ quit = FALSE /\ main = "wait" /\ saved = "old"
  /\ proc = "running"

Exit(how) ==
  /\ proc' = how
  /\ UNCHANGED <<network, written, table, set, session, pc, sending,
                 accepting, owner, ending>>

\* What the steps of each part of the system leave alone.
PeersOnly ==
  UNCHANGED <<set, session, pc, sending, accepting, owner, ending, proc>>
AcceptOnly ==
  UNCHANGED <<peer, tosend, inbox, written, session, sending, ending, proc>>
ClientOnly ==
  UNCHANGED <<peer, tosend, backlog, got, fd, accepting, owner, ending, proc>>
WriterOnly ==
  UNCHANGED <<network, table, set, session, accepting, ending, proc>>
MainOnly ==
  UNCHANGED <<network, written, session, pc, sending, accepting, proc>>

\* _fd is open until CloseListening.
Listening == main \notin {"clear", "join", "end"}

\* POSIX hands out the lowest descriptor.
Free == {n \in Fd : table[n] = None}
Open(what) == table' = [table EXCEPT ![Min(Free)] = what]

-----------------------------------------------------------------------------
(* The peers and the kernel; the other parts of the process.               *)

Connect(p) ==
  /\ peer[p] = "away" /\ Listening
  /\ peer' = [peer EXCEPT ![p] = "open"]
  /\ backlog' = backlog \cup {p}
  /\ PeersOnly /\ UNCHANGED <<tosend, inbox, written, table>>

Send(p) ==
  /\ peer[p] = "open" /\ tosend[p] # <<>>
  /\ inbox' = [inbox EXCEPT ![p] = Append(@, Head(tosend[p]))]
  /\ tosend' = [tosend EXCEPT ![p] = Tail(@)]
  /\ PeersOnly /\ UNCHANGED <<peer, backlog, written, table>>

Receive(p) ==
  /\ unread[p] > 0
  /\ unread' = [unread EXCEPT ![p] = 0]
  /\ PeersOnly /\ UNCHANGED <<network, got, table>>

\* The peer closes; what it sent is still to be read, unless it resets, as a
\* closed one does when something is written to it.
HangUp(p, how) ==
  /\ peer[p] = "open" \/ (peer[p] = "closed" /\ how = "reset")
  /\ peer' = [peer EXCEPT ![p] = how]
  /\ inbox' = IF how = "reset" THEN [inbox EXCEPT ![p] = <<>>] ELSE inbox
  /\ unread' = [unread EXCEPT ![p] = 0]
  /\ got' = [got EXCEPT ![p] = <<>>]
  /\ PeersOnly /\ UNCHANGED <<tosend, backlog, table>>

\* An archive opens its file to write it, and closes it.
UseFile ==
  /\ \/ /\ Free # {} /\ \A n \in Fd : table[n] # File
        /\ Open(File)
     \/ \E n \in Fd : table[n] = File /\ table' = [table EXCEPT ![n] = None]
  /\ PeersOnly /\ UNCHANGED <<network, written>>

-----------------------------------------------------------------------------
(* The accept thread: asyncAcceptLoop, accept.                             *)

AccTest ==
  /\ acc = "test"
  /\ acc' = IF quit THEN "end" ELSE "accept"
  /\ AcceptOnly /\ UNCHANGED <<backlog, table, set, pc, fresh, owner>>

\* ::accept() takes a descriptor first, and fails without one.
AccAccept(p) ==
  /\ acc = "accept" /\ Listening /\ Free # {}
  /\ p \in backlog
  /\ backlog' = backlog \ {p}
  /\ Open(p)
  /\ fd' = [fd EXCEPT ![p] = Min(Free)]
  /\ fresh' = p
  /\ acc' = "lock"
  /\ AcceptOnly /\ UNCHANGED <<clients, pc, owner>>

\* Variant: the result of ::accept() is not tested.
AccUntested ==
  /\ acc = "accept" /\ Listening /\ Free # {}
  /\ backlog = {}
  /\ acc' = "lock"
  /\ AcceptOnly /\ UNCHANGED <<backlog, table, set, pc, fresh, owner>>

\* EAGAIN becomes a runtime_error, and a pause of 50 ms.
AccWouldBlock ==
  /\ acc = "accept" /\ Listening /\ Free # {}
  /\ backlog = {}
  /\ acc' = "test"
  /\ AcceptOnly /\ UNCHANGED <<backlog, table, set, pc, fresh, owner>>

\* Any other error of ::accept() ends the process.
AccFails ==
  /\ acc = "accept"
  /\ \/ ~Listening /\ Exit("badAccept")
     \/ Listening /\ Free = {} /\ Exit("noDescriptor")

AccLock ==
  /\ acc = "lock" /\ owner = None
  /\ owner' = Acceptor
  /\ acc' = "insert"
  /\ AcceptOnly /\ UNCHANGED <<backlog, table, set, pc, fresh>>

\* Variant: the mutex is not unlocked.
AccInsertKeepsLock ==
  /\ acc = "insert"
  /\ clients' = clients \cup {fresh}
  /\ acc' = "run"
  /\ AcceptOnly /\ UNCHANGED <<backlog, table, fd, pc, fresh, owner>>

\* The set is ordered by descriptor: one that is there already is an error.
AccInsert ==
  /\ acc = "insert"
  /\ IF \E q \in clients : fd[q] = fd[fresh]
     THEN Exit("insertion")
     ELSE /\ clients' = clients \cup {fresh}
          /\ owner' = None
          /\ acc' = "run"
          /\ AcceptOnly /\ UNCHANGED <<backlog, table, fd, pc, fresh>>

\* asyncRun(): the thread of the client, with a reference to its Client.
AccRun ==
  /\ acc = "run" /\ fresh \in clients
  /\ Goto(fresh, "find")
  /\ acc' = "test"
  /\ fresh' = None
  /\ AcceptOnly /\ UNCHANGED <<backlog, table, set, owner>>

\* disconnect() has destroyed the Client in between.
AccRunDestroyed ==
  /\ acc = "run" /\ fresh \notin clients
  /\ Exit("dangling")

-----------------------------------------------------------------------------
(* The thread of a client: readUntil, applyFunction, clientFn.             *)

\* What the descriptor of client p designates by now.
Source(p) == table[fd[p]]

HasLine(p) == \E i \in DOMAIN data[p] : data[p][i] = NL
LineEnd(p) == Min({i \in DOMAIN data[p] : data[p][i] = NL})

\* read(), in the loop of readUntil, takes what has arrived.
Read(p) ==
  LET q == Source(p) IN
  /\ pc[p] = "find" /\ p \in clients /\ ~HasLine(p)
  /\ q \in Peers /\ inbox[q] # <<>>
  /\ data' = [data EXCEPT ![p] = @ \o inbox[q]]
  /\ inbox' = [inbox EXCEPT ![q] = <<>>]
  /\ ClientOnly /\ UNCHANGED <<unread, table, clients, done, pc, sending>>

\* Variant: the loop goes on when read() returns 0.
ReadEndGoesOn(p) ==
  /\ pc[p] = "find" /\ p \in clients /\ ~HasLine(p)
  /\ UNCHANGED vars

\* read() returns 0: the loop of applyFunction ends.
ReadEnd(p) ==
  /\ pc[p] = "find" /\ p \in clients /\ ~HasLine(p)
  /\ Source(p) \in Peers
  /\ peer[Source(p)] = "closed" /\ inbox[Source(p)] = <<>>
  /\ Goto(p, "erase")
  /\ ClientOnly /\ UNCHANGED <<inbox, unread, table, clients, session, sending>>

\* read() returns -1, which becomes the largest size_t: buf[nbRead] is out of
\* bounds.
ReadError(p) ==
  /\ pc[p] = "find" /\ p \in clients /\ ~HasLine(p)
  /\ Source(p) \in Peers
  /\ peer[Source(p)] = "reset"
  /\ Exit("readError")

\* So it does when this thread takes the signal while its read() waits: its
\* handler has no SA_RESTART.
ReadInterrupted(p) ==
  /\ quit
  /\ pc[p] = "find" /\ p \in clients /\ ~HasLine(p)
  /\ Source(p) \in Peers /\ inbox[Source(p)] = <<>>
  /\ Exit("readError")

\* So it does when the descriptor is closed, or a file's; a read() that was
\* waiting goes on waiting.
ReadClosed(p) ==
  /\ pc[p] = "find" /\ p \in clients /\ ~HasLine(p)
  /\ Source(p) \notin Peers
  /\ Exit("readError")

\* Variant: the whole of _data is erased.
CommandDropsRest(p) ==
  /\ pc[p] = "find" /\ p \in clients /\ HasLine(p)
  /\ done' = [done EXCEPT ![p] = Append(@, SubSeq(data[p], 1, LineEnd(p) - 1))]
  /\ data' = [data EXCEPT ![p] = <<>>]
  /\ Goto(p, "reply")
  /\ ClientOnly /\ UNCHANGED <<inbox, unread, table, clients, sending>>

\* A line is there: it is taken and run as a command, which may send an event.
Command(p) ==
  /\ pc[p] = "find" /\ p \in clients /\ HasLine(p)
  /\ done' = [done EXCEPT ![p] = Append(@, SubSeq(data[p], 1, LineEnd(p) - 1))]
  /\ data' = [data EXCEPT ![p] = SubSeq(@, LineEnd(p) + 1, Len(@))]
  /\ \/ /\ Goto(p, "reply")
        /\ UNCHANGED <<event, events>>
     \/ /\ events < MaxEvents
        /\ events' = events + 1
        /\ event' = [event EXCEPT ![p] = events + 1]
        /\ Goto(p, "lock")
  /\ ClientOnly /\ UNCHANGED <<inbox, unread, table, clients, at>>

\* write() blocks while the buffer towards its peer is full, and fails once the
\* peer is gone.
Writable(n) ==
  table[n] \in Peers /\ peer[table[n]] = "open" => unread[table[n]] < SocketSize
Written(n) ==
  {q \in Peers : q = table[n] /\ peer[q] = "open"}

\* The answer, unless it is empty.
Reply(p) ==
  /\ pc[p] = "reply" /\ p \in clients
  /\ \/ /\ Writable(fd[p])
        /\ unread' = [q \in Peers |->
                        IF q \in Written(fd[p]) THEN unread[q] + 1 ELSE unread[q]]
     \/ UNCHANGED unread
  /\ Goto(p, "find")
  /\ ClientOnly /\ UNCHANGED <<inbox, table, clients, session, sending>>

\* Variant: the descriptor is closed before the client is erased.
EraseClosesFirst(p) ==
  /\ pc[p] = "erase" /\ p \in clients
  /\ Goto(p, "erasing")
  /\ table' = [table EXCEPT ![fd[p]] = None]
  /\ ClientOnly /\ UNCHANGED <<inbox, unread, clients, session, sending>>

\* _clients.erase(c), which takes no lock ...
Erase(p) ==
  /\ pc[p] = "erase" /\ p \in clients
  /\ Goto(p, "erasing")
  /\ ClientOnly /\ UNCHANGED <<inbox, unread, table, clients, session, sending>>

\* ... and destroys the Client, which closes the descriptor.
Erased(p) ==
  /\ pc[p] = "erasing"
  /\ clients' = clients \ {p}
  /\ table' = [table EXCEPT ![fd[p]] = None]
  /\ Goto(p, "end")
  /\ ClientOnly /\ UNCHANGED <<inbox, unread, session, sending>>

\* A thread that uses its Client after disconnect() destroyed it.
UseDestroyed(p) ==
  /\ pc[p] \in {"find", "reply", "erase"} /\ p \notin clients
  /\ Exit("dangling")

-----------------------------------------------------------------------------
(* Events: writeAll, by the thread of a client or of the player.           *)

Announce(t) ==
  /\ pc[t] = "idle" /\ events < MaxEvents
  /\ events' = events + 1
  /\ event' = [event EXCEPT ![t] = events + 1]
  /\ Goto(t, "lock")
  /\ WriterOnly /\ UNCHANGED <<written, at, owner>>

\* Variant: writeAll does not lock.
WriteUnlocked(t) ==
  /\ pc[t] = "lock"
  /\ Goto(t, "write")
  /\ WriterOnly /\ UNCHANGED <<written, sending, owner>>

WriteLock(t) ==
  /\ pc[t] = "lock" /\ owner = None
  /\ owner' = t
  /\ Goto(t, "write")
  /\ WriterOnly /\ UNCHANGED <<written, sending>>

Rest(t) == {fd[q] : q \in clients} \ 0 .. at[t]

\* The next client of the loop, in the order of the set.
WriteNext(t) ==
  LET n == Min(Rest(t)) IN
  /\ pc[t] = "write" /\ Rest(t) # {}
  /\ Writable(n)
  /\ at' = [at EXCEPT ![t] = n]
  /\ unread' = [q \in Peers |->
                  IF q \in Written(n) THEN unread[q] + 1 ELSE unread[q]]
  /\ got' = [q \in Peers |->
               IF q \in Written(n) THEN Append(got[q], event[t]) ELSE got[q]]
  /\ WriterOnly /\ UNCHANGED <<pc, event, events, owner>>

\* A write() that waits for room fails when its thread takes the signal; the
\* loop goes on.
WriteInterrupted(t) ==
  /\ quit
  /\ pc[t] = "write" /\ Rest(t) # {} /\ ~Writable(Min(Rest(t)))
  /\ at' = [at EXCEPT ![t] = Min(Rest(t))]
  /\ WriterOnly /\ UNCHANGED <<written, pc, event, events, owner>>

WriteEnd(t) ==
  /\ pc[t] = "write" /\ Rest(t) = {}
  /\ owner' = None
  /\ Goto(t, IF t \in Peers THEN "reply" ELSE "idle")
  /\ event' = [event EXCEPT ![t] = 0]
  /\ at' = [at EXCEPT ![t] = 0]
  /\ WriterOnly /\ UNCHANGED <<written, events>>

-----------------------------------------------------------------------------
(* The main thread, after it started everything.                           *)

MainGoto(from, to) == main = from /\ main' = to

\* The handler of SIGINT and SIGTERM.
Signal ==
  /\ quit' = TRUE
  /\ MainOnly /\ UNCHANGED <<table, set, owner, main, saved>>

\* Variant: the player is saved once the server is disconnected.
WakeDisconnects ==
  /\ MainGoto("wait", "disconnect")
  /\ quit
  /\ MainOnly /\ UNCHANGED <<table, set, owner, quit, saved>>

\* cv.wait; its wakeup is lost when the signal comes between the predicate and
\* the wait, so that nothing is assumed of this step.
Wake ==
  /\ MainGoto("wait", "save")
  /\ quit
  /\ MainOnly /\ UNCHANGED <<table, set, owner, quit, saved>>

\* The stream empties the file when it opens it; operator<< fills it.
Save ==
  /\ MainGoto("save", "disconnect")
  /\ saved' = "written"
  /\ MainOnly /\ UNCHANGED <<table, set, owner, quit>>

\* It asks mpv for the volume first, which throws when mpv has quit: nothing is
\* written, and main leaves its block without disconnecting anything.
SaveThrows ==
  /\ MainGoto("save", "unwind")
  /\ saved' = "empty"
  /\ MainOnly /\ UNCHANGED <<table, set, owner, quit>>

\* Server::disconnect, under _clientListMutex.
Disconnect ==
  /\ MainGoto("disconnect", "close")
  /\ owner = None /\ owner' = Main
  /\ MainOnly /\ UNCHANGED <<table, set, quit, saved>>

\* close() of every client.
CloseAll == table' = [n \in Fd |-> IF \E p \in clients : fd[p] = n THEN None
                                                                ELSE table[n]]

CloseClients ==
  /\ MainGoto("close", "closefd")
  /\ CloseAll
  /\ MainOnly /\ UNCHANGED <<set, owner, quit, saved>>

CloseListening ==
  /\ MainGoto("closefd", "clear")
  /\ MainOnly /\ UNCHANGED <<table, set, owner, quit, saved>>

\* clear() destroys each Client, which closes its descriptor again.
Clear ==
  /\ MainGoto("clear", "join")
  /\ CloseAll
  /\ clients' = {}
  /\ owner' = None
  /\ MainOnly /\ UNCHANGED <<fd, quit, saved>>

\* ~Server waits for the accept thread; then main returns, its catch clause
\* included.
Return(from) ==
  /\ MainGoto(from, "end")
  /\ acc = "end"
  /\ proc' = "returned"
  /\ UNCHANGED <<network, written, table, set, session, pc, sending,
                 accepting, owner, quit, saved>>

Join == Return("join")
Unwind == Return("unwind")

-----------------------------------------------------------------------------

\* The set is changed without its mutex while another thread uses it: undefined.
Overlap ==
  \E p \in Peers :
    /\ pc[p] = "erasing"
    /\ owner # None \/ \E q \in Peers \ {p} : pc[q] = "erasing"

Goes == proc = "running" /\ ~Overlap

AcceptStep ==
  AccTest \/ (\E p \in Peers : AccAccept(p)) \/ AccWouldBlock
    \/ AccFails \/ AccInsert \/ AccRun \/ AccRunDestroyed

ClientStep(p) ==
  Read(p) \/ ReadEnd(p) \/ ReadError(p) \/ Command(p) \/ Reply(p)
    \/ Erase(p) \/ Erased(p)

WriteStep(t) == WriteNext(t) \/ WriteEnd(t)

MainStep ==
  Save \/ SaveThrows \/ CloseClients \/ CloseListening \/ Clear
    \/ Join \/ Unwind

Interrupted ==
  \/ \E p \in Peers : ReadInterrupted(p)
  \/ \E t \in Threads : WriteInterrupted(t)

External(p) ==
  Connect(p) \/ Send(p) \/ Receive(p) \/ HangUp(p, "closed") \/ HangUp(p, "reset")

Next ==
  /\ Goes
  /\ \/ \E p \in Peers : External(p) \/ ClientStep(p) \/ ReadClosed(p) \/ UseDestroyed(p)
     \/ \E t \in Threads : Announce(t) \/ WriteLock(t) \/ WriteStep(t)
     \/ AcceptStep \/ AccLock \/ UseFile \/ Interrupted
     \/ Signal \/ Wake \/ MainStep \/ Disconnect

Spec == Init /\ [][Next]_vars

(* Fairness.  A thread that can go on again and again does: critical sections *)
(* are short, and one that waits for _clientListMutex gets it although others *)
(* take it.  A peer reads what it is sent.  Nothing is assumed of             *)
(* connections, events, signals and what they interrupt, wakeups and uses of  *)
(* a destroyed Client.                                                        *)
Fairness ==
  /\ SF_vars(Goes /\ (AcceptStep \/ AccLock))
  /\ \A p \in Peers : WF_vars(Goes /\ Receive(p))
  /\ \A t \in Threads :
       SF_vars(Goes /\ (WriteLock(t) \/ WriteStep(t) \/ (t \in Peers /\ ClientStep(t))))
  /\ SF_vars(Goes /\ (MainStep \/ Disconnect))

FairSpec == Spec /\ Fairness

-----------------------------------------------------------------------------
(* Safety.                                                                 *)

\* Before disconnect() closes anything.
Early == main \in {"wait", "save", "unwind", "disconnect"}

\* A client the server can write to.
Hears(p) == p \in clients /\ peer[p] = "open" /\ Source(p) = p

\* All clients hear the same events in the same order, whichever threads send
\* them: one that came later only lacks the first ones, until a signal comes,
\* which may interrupt a write (server.hpp: writeAll holds the mutex over its
\* whole loop; server.cpp: accept).
EventsAgree ==
  owner = None /\ ~quit =>
    \A p, q \in Peers :
      Hears(p) /\ Hears(q) => IsSuffix(got[p], got[q]) \/ IsSuffix(got[q], got[p])

\* The commands that were run are the lines the peer sent, in order and whole,
\* however read() cuts the stream, as long as the server is not disconnected
\* (client.cpp: readUntil; main.cpp: applyFunction).
CommandsAsSent ==
  Early =>
    \A p \in Peers :
      /\ \A i \in DOMAIN done[p], j \in 1 .. Len(Script[p]) :
           j \in DOMAIN done[p][i] => done[p][i][j] # NL
      /\ peer[p] # "reset" =>
           FlattenSeq([i \in DOMAIN done[p] |-> Append(done[p][i], NL)])
             \o data[p] \o inbox[p] \o tosend[p] = Script[p]

\* Until the server is disconnected, the descriptor of a client designates its
\* own connection, and the client of every thread is in the set; an insertion
\* never meets a client with the same descriptor (server.cpp: accept and its
\* error message; client.hpp: ~Client; server.hpp: clientFn).
DescriptorsOwned ==
  /\ proc # "insertion"
  /\ Early =>
       /\ \A p \in clients : Source(p) = p
       /\ \A p \in Peers : pc[p] \notin {"none", "end"} => p \in clients

\* The accept thread, which exits because its socket is closed, never cuts the
\* save short: the file is whole by then.  And main does not return before it
\* has tried to save, which fails only when mpv has quit (main.cpp; server.cpp:
\* accept, disconnect).
EndsSaved ==
  /\ proc = "badAccept" => saved = "written"
  /\ proc = "returned" => saved # "old"

-----------------------------------------------------------------------------
(* Liveness, under FairSpec.                                               *)

\* Once the player is saved, or could not be, the process ends: no writer keeps
\* the mutex, and the accept thread sees the signal or the closed socket
\* (main.cpp; server.cpp: disconnect, ~Server).
ShutdownEnds == main \in {"disconnect", "unwind"} ~> ~Goes

\* A client that closed its connection is taken out of the set
\* (server.hpp: clientFn).
GoneIsRemoved ==
  \A p \in Peers : peer[p] = "closed" /\ p \in clients ~> p \notin clients \/ ~Goes

=============================================================================
