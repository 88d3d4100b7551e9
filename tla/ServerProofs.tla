---------------------------- MODULE ServerProofs ----------------------------
(* Proofs about Server, for any peers, threads, descriptors and bounds.    *)
EXTENDS Server, SequenceLemmas

\* What the main thread has done to the file when it is at a statement.
SavedInv ==
  /\ main \in {"disconnect", "close", "closefd", "clear", "join"} => saved = "written"
  /\ main \notin {"wait", "save"} => saved # "old"
  /\ proc = "running" /\ main = "end" => FALSE
  /\ EndsSaved

\* Nothing is saved, and nothing has ended, when the server starts.
LEMMA SavedInit == Init => SavedInv
  BY DEF Init, SavedInv, EndsSaved

\* Steps that are not the main thread's leave its variables alone, and end the
\* process because of the closed socket only after it is closed.
Bystander ==
  /\ UNCHANGED <<main, saved>>
  /\ proc' # proc => proc' # "returned"
  /\ proc' = "badAccept" /\ proc' # proc => ~Listening

\* Clients and the network do not touch the main thread.
LEMMA PeerSteps == ASSUME NEW p \in Peers, External(p) PROVE Bystander
  BY DEF External, Connect, Send, Receive, HangUp, PeersOnly, ending, Bystander

\* Neither do the other users of descriptors.
LEMMA FileSteps == UseFile => Bystander
  BY DEF UseFile, PeersOnly, ending, Bystander

\* Nor do the ends of the process that have nothing to do with the shutdown.
LEMMA ExitSteps ==
  ASSUME NEW how \in {"noDescriptor", "insertion", "readError", "dangling"},
         Exit(how)
  PROVE  Bystander
  BY DEF Exit, ending, Bystander

\* The accept thread exits because of the socket only when it is closed.
LEMMA AcceptSteps == AcceptStep \/ AccLock => Bystander
<1>1. AccTest \/ AccWouldBlock \/ AccRun \/ AccLock => Bystander
  BY DEF AccTest, AccWouldBlock, AccRun, AccLock, AcceptOnly, ending, Bystander
<1>2. ASSUME NEW p \in Peers, AccAccept(p) PROVE Bystander
  BY <1>2 DEF AccAccept, AcceptOnly, ending, Bystander
<1>3. AccFails => Bystander
  <2>1. Listening /\ Exit("noDescriptor") => Bystander
    BY ExitSteps
  <2>2. ~Listening /\ Exit("badAccept") => Bystander
    BY DEF Exit, ending, Bystander
  <2> QED BY <2>1, <2>2 DEF AccFails
<1>4. AccInsert => Bystander
  <2>1. Exit("insertion") => Bystander
    BY ExitSteps
  <2>2. AcceptOnly => Bystander
    BY DEF AcceptOnly, ending, Bystander
  <2> QED BY <2>1, <2>2 DEF AccInsert
<1>5. AccRunDestroyed => Bystander
  BY ExitSteps DEF AccRunDestroyed
<1> QED BY <1>1, <1>2, <1>3, <1>4, <1>5 DEF AcceptStep

\* The threads of the clients do not touch the main thread.
LEMMA ClientSteps ==
  ASSUME NEW p \in Peers, ClientStep(p) \/ ReadClosed(p) \/ UseDestroyed(p)
  PROVE  Bystander
<1>1. ClientOnly => Bystander
  BY DEF ClientOnly, ending, Bystander
<1>2. Exit("readError") \/ Exit("dangling") => Bystander
  BY ExitSteps
<1>3. Command(p) => Bystander
  BY DEF Command, ending, Bystander, ClientOnly
<1> QED
  BY <1>1, <1>2, <1>3 DEF ClientStep, Read, ReadEnd, ReadError, ReadClosed, Reply,
     Erase, Erased, UseDestroyed

\* Nor does a signal they take.
LEMMA InterruptedSteps == Interrupted => Bystander
<1>1. ASSUME NEW p \in Peers, ReadInterrupted(p) PROVE Bystander
  BY <1>1, ExitSteps DEF ReadInterrupted
<1>2. ASSUME NEW t \in Threads, WriteInterrupted(t) PROVE Bystander
  BY <1>2 DEF WriteInterrupted, WriterOnly, ending, Bystander
<1> QED
  BY <1>1, <1>2 DEF Interrupted

\* Neither does writing an event.
LEMMA WriterSteps ==
  ASSUME NEW t \in Threads, Announce(t) \/ WriteLock(t) \/ WriteStep(t)
  PROVE  Bystander
<1>1. WriterOnly => Bystander
  BY DEF WriterOnly, ending, Bystander
<1> QED
  BY <1>1 DEF Announce, WriteLock, WriteStep, WriteNext, WriteEnd

\* The order of the main thread: save, disconnect, close, join, return; or a
\* save that throws, join, return.
LEMMA SavedNext == TypeOK /\ SavedInv /\ [Next]_vars => SavedInv'
<1> SUFFICES ASSUME TypeOK, SavedInv, [Next]_vars PROVE SavedInv'
  OBVIOUS
<1> USE DEF SavedInv, EndsSaved
<1>1. ASSUME Bystander, proc = "running" \/ UNCHANGED proc PROVE SavedInv'
  <2>1. main \notin {"wait", "save", "unwind", "disconnect"} /\ main # "end"
          => main \in {"close", "closefd", "clear", "join"}
    BY DEF TypeOK, ProcessTypes
  <2>. QED
    BY <1>1, <2>1 DEF Bystander, Listening
<1>2. CASE Signal
  BY <1>2 DEF Signal, MainOnly
<1>3. CASE Wake
  BY <1>3 DEF Wake, MainGoto, MainOnly
<1>4. CASE Disconnect
  BY <1>4 DEF Disconnect, MainGoto, MainOnly
<1>5. ASSUME MainStep, proc = "running" PROVE SavedInv'
  <2>1. CASE Save \/ SaveThrows
    BY <1>5, <2>1 DEF Save, SaveThrows, MainGoto, MainOnly
  <2>2. CASE CloseClients \/ CloseListening \/ Clear
    BY <2>2 DEF CloseClients, CloseListening, Clear, MainGoto, MainOnly
  <2>3. CASE Join \/ Unwind
    BY <2>3 DEF Join, Unwind, Return, MainGoto
  <2>. QED
    BY <1>5, <2>1, <2>2, <2>3 DEF MainStep
<1>6. CASE UNCHANGED vars
  BY <1>6 DEF vars, ending
<1>7. Next => proc = "running"
  BY DEF Next, Goes
<1> QED
  BY <1>1, <1>2, <1>3, <1>4, <1>5, <1>6, <1>7, PeerSteps, FileSteps, AcceptSteps,
     ClientSteps, WriterSteps, InterruptedSteps DEF Next

-----------------------------------------------------------------------------
(* The inductive invariant.                                                *)

\* The accept thread has a client in its hands.
Accepted == acc \in {"lock", "insert", "run"}

\* A peer the server does not know as a client yet.
New(p) ==
  \/ peer[p] = "away" \/ p \in backlog
  \/ acc \in {"lock", "insert"} /\ p = fresh

\* Such a peer has no thread and has heard nothing; a peer connects once, and
\* what accept() returned has a descriptor (server.cpp: accept).
NewInv ==
  /\ \A p \in Peers :
       /\ peer[p] = "away" => p \notin backlog
       /\ New(p) => p \notin clients /\ pc[p] = "none" /\ got[p] = <<>>
  /\ Accepted => /\ fresh \in Peers /\ fresh \notin backlog
                 /\ fd[fresh] # 0 /\ peer[fresh] # "away" /\ pc[fresh] = "none"

\* _clientListMutex is held where the code says so, and by one thread.
MutexInv ==
  /\ acc = "insert" <=> owner = Acceptor
  /\ main \in {"close", "closefd", "clear"} <=> owner = Main
  /\ \A t \in Threads : /\ pc[t] = "write" <=> owner = t
                        /\ pc[t] # "write" => at[t] = 0

\* A connection has one descriptor, which is that of its Client.
TableInv ==
  \A n \in Fd : table[n] \in Peers =>
    /\ fd[table[n]] = n
    /\ table[n] \notin backlog /\ peer[table[n]] # "away"

\* Early, clients own their descriptors and threads their clients; afterwards
\* at most one more is inserted, in an empty set (server.cpp: disconnect).
OwnedInv ==
  /\ Early => /\ \A p \in clients : table[fd[p]] = p
              /\ Accepted => table[fd[fresh]] = fresh
              /\ \A p \in Peers : pc[p] \notin {"none", "end"} => p \in clients
  /\ main \in {"join", "end"} /\ acc \in {"lock", "insert"} => clients = {}

\* The invariant all the others are proved with.
SInv == TypeOK /\ NewInv /\ MutexInv /\ TableInv /\ OwnedInv

-----------------------------------------------------------------------------
(* What the operators of the model yield.                                  *)

\* The lowest free descriptor is one, and is free.
LEMMA LowestFree ==
  ASSUME Free # {}
  PROVE  Min(Free) \in Fd /\ Min(Free) # 0 /\ table[Min(Free)] = None
<1>1. Free \subseteq Nat /\ Free \subseteq Fd /\ 0 \notin Free
  BY ServerAssumption DEF Free
<1>2. Min(Free) \in Free
  BY <1>1, MinIsLeast
<1>. QED
  BY <1>1, <1>2 DEF Free

\* The next client of writeAll is the first one that was not written to.
LEMMA NextClient ==
  ASSUME DescriptorTypes, NEW t \in Threads, Rest(t) # {}
  PROVE  /\ Min(Rest(t)) \in Fd /\ Min(Rest(t)) \in Rest(t)
         /\ \A q \in clients : fd[q] \in Rest(t) => Min(Rest(t)) <= fd[q]
<1>1. Rest(t) \subseteq Nat /\ Rest(t) \subseteq Fd
  BY ServerAssumption DEF Rest, DescriptorTypes
<1>. QED
  BY <1>1, MinIsLeast

\* The end of a line is its first delimiter.
LEMMA FirstLine ==
  ASSUME NetworkTypes, NEW p \in Peers, HasLine(p)
  PROVE  /\ LineEnd(p) \in 1..Len(data[p]) /\ data[p][LineEnd(p)] = NL
         /\ \A j \in 1..Len(data[p]) : j < LineEnd(p) => data[p][j] # NL
<1>. DEFINE d == data[p]
            ends == {i \in DOMAIN d : d[i] = NL}
<1>1. d \in Seq(Nat)
  BY DEF NetworkTypes
<1>. HIDE DEF d
<1>2. DOMAIN d = 1..Len(d) /\ Len(d) \in Nat
  BY <1>1
<1>3. ends \subseteq Nat /\ ends # {}
  BY <1>2 DEF HasLine, d
<1>4. Min(ends) \in ends /\ \A i \in ends : Min(ends) <= i
  <2>. HIDE DEF ends
  <2>. QED
    BY <1>3, MinIsLeast
<1>5. LineEnd(p) = Min(ends)
  BY DEF LineEnd, d
<1>. DEFINE n == Min(ends)
<1>. HIDE DEF n
<1>6. n \in 1..Len(d) /\ d[n] = NL /\ \A i \in 1..Len(d) : d[i] = NL => n <= i
  BY <1>2, <1>4 DEF n
<1>7. \A j \in 1..Len(d) : j < n => d[j] # NL
  BY <1>2, <1>6
<1>. QED
  BY <1>5, <1>6, <1>7 DEF n, d

\* A line that is taken is in front of its delimiter and of what stays.
LEMMA LineIsTaken ==
  ASSUME NetworkTypes, NEW p \in Peers, HasLine(p)
  PROVE  LET line == SubSeq(data[p], 1, LineEnd(p) - 1)
             rest == SubSeq(data[p], LineEnd(p) + 1, Len(data[p]))
         IN  /\ line \in Seq(Nat) /\ rest \in Seq(Nat)
             /\ data[p] = Append(line, NL) \o rest
             /\ \A j \in DOMAIN line : line[j] # NL
<1>. DEFINE d == data[p]
            n == LineEnd(p)
            line == SubSeq(d, 1, n - 1)
            rest == SubSeq(d, n + 1, Len(d))
<1>1. d \in Seq(Nat) /\ Len(d) \in Nat /\ NL \in Nat
  BY ServerAssumption DEF NetworkTypes
<1>2. /\ n \in 1..Len(d) /\ d[n] = NL
      /\ \A j \in 1..Len(d) : j < n => d[j] # NL
  BY FirstLine
<1>. HIDE DEF d, n
<1>3. \A i \in 1..Len(d) : d[i] \in Nat
  BY <1>1, ElementOfSeq
<1>. DEFINE a == n - 1
            b == n + 1
<1>4. a \in Int /\ b \in Int /\ a < n /\ a <= Len(d) /\ 0 <= a /\ b \in 1..Len(d)+1
  BY <1>1, <1>2
<1>5. (\A i \in 1..a : d[i] \in Nat) /\ (\A i \in b..Len(d) : d[i] \in Nat)
  BY <1>1, <1>3, <1>4
<1>6. /\ line \in Seq(Nat) /\ Len(line) = a
      /\ \A i \in 1..a : line[i] = d[i]
  <2>. HIDE DEF a
  <2>1. /\ SubSeq(d, 1, a) \in Seq(Nat)
        /\ Len(SubSeq(d, 1, a)) = IF 1 <= a THEN a-1+1 ELSE 0
        /\ \A i \in 1..a-1+1 : SubSeq(d, 1, a)[i] = d[1+i-1]
    BY <1>4, <1>5, SubSeqProperties
  <2>2. SubSeq(d, 1, a) = line
    BY DEF a
  <2>. HIDE DEF line
  <2>. QED
    BY <1>4, <2>1, <2>2
<1>7. rest \in Seq(Nat)
  <2>. HIDE DEF b
  <2>1. SubSeq(d, b, Len(d)) \in Seq(Nat)
    BY <1>1, <1>4, <1>5, SubSeqProperties
  <2>. QED
    BY <2>1 DEF b
<1>8. d = Append(line, NL) \o rest
  <2>1. /\ SubSeq(d, 1, a) \o SubSeq(d, a + 1, n) = SubSeq(d, 1, n)
        /\ SubSeq(d, 1, n) \o SubSeq(d, n + 1, Len(d)) = SubSeq(d, 1, Len(d))
    <3>1. /\ 1 \in 1..Len(d)+1 /\ a \in (1-1)..Len(d) /\ n \in a..Len(d)
          /\ n \in (1-1)..Len(d) /\ Len(d) \in n..Len(d)
      BY <1>1, <1>2, <1>4
    <3>. HIDE DEF a
    <3>. QED
      BY <1>1, <3>1, ConcatAdjacentSubSeq
  <2>2. SubSeq(d, 1, Len(d)) = d
    BY <1>1, SubSeqFull
  <2>3. SubSeq(d, a + 1, n) = <<NL>>
    <3>1. a + 1 = n
      BY <1>2
    <3>2. \A i \in n..n : d[i] \in Nat
      BY <1>2, <1>3
    <3>3. /\ SubSeq(d, n, n) \in Seq(Nat) /\ Len(SubSeq(d, n, n)) = 1
          /\ SubSeq(d, n, n)[1] = d[n]
      BY <1>2, <3>2, SubSeqProperties
    <3>4. <<NL>> \in Seq(Nat) /\ Len(<<NL>>) = 1 /\ <<NL>>[1] = NL
      BY <1>1
    <3>5. SubSeq(d, n, n) = <<NL>>
      <4>. DEFINE u == SubSeq(d, n, n)
                  v == <<NL>>
      <4>1. /\ u \in Seq(Nat) /\ v \in Seq(Nat) /\ Len(u) = Len(v)
            /\ \A i \in 1..Len(u) : u[i] = v[i]
        BY <1>2, <3>3, <3>4
      <4>. HIDE DEF u, v
      <4>2. u = v
        BY <4>1, SeqEqual
      <4>. QED
        BY <4>2 DEF u, v
    <3>. QED
      BY <3>1, <3>5
  <2>4. line \o <<NL>> = Append(line, NL)
    BY <1>1, <1>6, AppendIsConcat
  <2>. QED
    BY <2>1, <2>2, <2>3, <2>4
<1>9. \A j \in DOMAIN line : line[j] # NL
  <2>1. DOMAIN line = 1..a
    BY <1>6, LenProperties
  <2>2. \A j \in 1..a : j \in 1..Len(d) /\ j < n
    BY <1>1, <1>2
  <2>. QED
    BY <1>2, <1>6, <2>1, <2>2
<1>. QED
  BY <1>6, <1>7, <1>8, <1>9 DEF d, n

-----------------------------------------------------------------------------
(* Types.                                                                  *)

\* The initial state has the types of the model.
LEMMA TypesInit == Init => TypeOK
<1>. SUFFICES ASSUME Init PROVE TypeOK
  OBVIOUS
<1>. USE ServerAssumption DEF Init
<1>1. NetworkTypes
  BY EmptySeq DEF NetworkTypes
<1>2. DescriptorTypes
  BY DEF DescriptorTypes
<1>3. WriterTypes
  BY DEF WriterTypes, Threads
<1>4. ProcessTypes
  BY DEF ProcessTypes
<1>. QED
  BY <1>1, <1>2, <1>3, <1>4 DEF TypeOK

\* The network and the sessions keep their types.
LEMMA NetworkTypesNext ==
  ASSUME SInv, [Next]_vars PROVE NetworkTypes'
<1>. USE DEF network, written, session, sending, accepting, ending, set
<1>1. NetworkTypes /\ DescriptorTypes /\ WriterTypes
  BY DEF SInv, TypeOK
<1>2. ASSUME UNCHANGED <<network, written, session>> PROVE NetworkTypes'
  BY <1>1, <1>2 DEF NetworkTypes
<1>3. ASSUME NEW how, Exit(how) PROVE NetworkTypes'
  BY <1>2, <1>3 DEF Exit
<1>4. ASSUME NEW p \in Peers, Connect(p) PROVE NetworkTypes'
  BY <1>1, <1>4 DEF Connect, PeersOnly, NetworkTypes
<1>5. ASSUME NEW p \in Peers, Send(p) PROVE NetworkTypes'
  <2>1. /\ Append(inbox[p], Head(tosend[p])) \in Seq(Nat)
        /\ Tail(tosend[p]) \in Seq(Nat)
    BY <1>1, <1>5 DEF Send, NetworkTypes
  <2>2. /\ inbox' = [inbox EXCEPT ![p] = Append(inbox[p], Head(tosend[p]))]
        /\ tosend' = [tosend EXCEPT ![p] = Tail(tosend[p])]
        /\ UNCHANGED <<peer, backlog, written, session>>
    BY <1>5 DEF Send, PeersOnly
  <2>. QED
    BY <1>1, <2>1, <2>2 DEF NetworkTypes
<1>6. ASSUME NEW p \in Peers, Receive(p) PROVE NetworkTypes'
  BY <1>1, <1>6, ServerAssumption DEF Receive, PeersOnly, NetworkTypes
<1>7. ASSUME NEW p \in Peers, NEW how \in {"closed", "reset"}, HangUp(p, how)
      PROVE  NetworkTypes'
  BY <1>1, <1>7, EmptySeq, ServerAssumption DEF HangUp, PeersOnly, NetworkTypes
<1>8. ASSUME NEW p \in Peers, Read(p) PROVE NetworkTypes'
  <2>. DEFINE q == Source(p)
  <2>1. /\ q \in Peers
        /\ data' = [data EXCEPT ![p] = data[p] \o inbox[q]]
        /\ inbox' = [inbox EXCEPT ![q] = <<>>]
        /\ UNCHANGED <<peer, tosend, backlog, written, done>>
    BY <1>8 DEF Read, ClientOnly
  <2>. HIDE DEF q
  <2>2. data[p] \o inbox[q] \in Seq(Nat) /\ <<>> \in Seq(Nat)
    BY <1>1, <2>1, ConcatProperties, EmptySeq DEF NetworkTypes
  <2>. QED
    BY <1>1, <2>1, <2>2 DEF NetworkTypes
<1>9. ASSUME NEW p \in Peers, Command(p) PROVE NetworkTypes'
  <2>. DEFINE line == SubSeq(data[p], 1, LineEnd(p) - 1)
              rest == SubSeq(data[p], LineEnd(p) + 1, Len(data[p]))
  <2>1. line \in Seq(Nat) /\ rest \in Seq(Nat)
    BY <1>1, <1>9, LineIsTaken DEF Command
  <2>2. /\ done' = [done EXCEPT ![p] = Append(done[p], line)]
        /\ data' = [data EXCEPT ![p] = rest]
        /\ UNCHANGED <<network, written>>
    BY <1>9 DEF Command, ClientOnly
  <2>. HIDE DEF line, rest
  <2>3. Append(done[p], line) \in Seq(Seq(Nat))
    BY <1>1, <2>1 DEF NetworkTypes
  <2>. QED
    BY <1>1, <2>1, <2>2, <2>3 DEF NetworkTypes
<1>10. ASSUME NEW n \in Fd, Writable(n)
       PROVE  [q \in Peers |-> IF q \in Written(n) THEN unread[q] + 1 ELSE unread[q]]
                \in [Peers -> 0 .. SocketSize]
  <2>1. \A q \in Written(n) : unread[q] < SocketSize
    BY <1>10 DEF Writable, Written
  <2>. QED
    BY <1>1, <2>1, ServerAssumption DEF NetworkTypes, Written
<1>11. ASSUME NEW p \in Peers, Reply(p) PROVE NetworkTypes'
  <2>1. fd[p] \in Fd
    BY <1>1, <1>11 DEF Reply, DescriptorTypes
  <2>2. unread' \in [Peers -> 0 .. SocketSize]
    BY <1>1, <1>10, <1>11, <2>1 DEF Reply, NetworkTypes
  <2>. QED
    BY <1>1, <1>11, <2>2 DEF Reply, ClientOnly, NetworkTypes
<1>12. ASSUME NEW t \in Threads, WriteNext(t) PROVE NetworkTypes'
  <2>. DEFINE n == Min(Rest(t))
  <2>1. n \in Fd /\ Writable(n)
    BY <1>1, <1>12, NextClient DEF WriteNext
  <2>2. /\ unread' = [q \in Peers |->
                        IF q \in Written(n) THEN unread[q] + 1 ELSE unread[q]]
        /\ got' = [q \in Peers |->
                     IF q \in Written(n) THEN Append(got[q], event[t]) ELSE got[q]]
        /\ UNCHANGED <<network, session>>
    BY <1>12 DEF WriteNext, WriterOnly
  <2>. HIDE DEF n
  <2>3. unread' \in [Peers -> 0 .. SocketSize]
    BY <1>10, <2>1, <2>2
  <2>4. event[t] \in Nat
    BY <1>1, ServerAssumption DEF WriterTypes
  <2>5. \A q \in Peers : got[q] \in Seq(Nat) /\ Append(got[q], event[t]) \in Seq(Nat)
    BY <1>1, <2>4 DEF NetworkTypes
  <2>6. got' \in [Peers -> Seq(Nat)]
    BY <2>2, <2>5
  <2>. QED
    BY <1>1, <2>2, <2>3, <2>6 DEF NetworkTypes
<1>13. ASSUME NEW p \in Peers, AccAccept(p) PROVE NetworkTypes'
  BY <1>1, <1>13 DEF AccAccept, AcceptOnly, NetworkTypes
<1>14. CASE AcceptStep \/ AccLock
  BY <1>2, <1>3, <1>13, <1>14
     DEF AcceptStep, AccLock, AccTest, AccWouldBlock, AccFails, AccInsert, AccRun,
         AccRunDestroyed, AcceptOnly
<1>15. ASSUME NEW p \in Peers,
              ClientStep(p) \/ ReadClosed(p) \/ UseDestroyed(p)
       PROVE  NetworkTypes'
  BY <1>2, <1>3, <1>8, <1>9, <1>11, <1>15
     DEF ClientStep, ReadEnd, ReadError, Erase, Erased, ReadClosed, UseDestroyed,
         ClientOnly
<1>16. ASSUME NEW t \in Threads, Announce(t) \/ WriteLock(t) \/ WriteStep(t)
       PROVE  NetworkTypes'
  BY <1>2, <1>12, <1>16 DEF Announce, WriteLock, WriteStep, WriteEnd, WriterOnly
<1>17. CASE UseFile
  BY <1>2, <1>17 DEF UseFile, PeersOnly
<1>18. CASE Signal \/ Wake \/ MainStep \/ Disconnect
  BY <1>2, <1>18 DEF Signal, Wake, MainStep, Disconnect, Save, SaveThrows,
     CloseClients,
     CloseListening, Clear, Join, Unwind, Return, MainOnly
<1>19. CASE UNCHANGED vars
  BY <1>2, <1>19 DEF vars
<1>20. CASE Interrupted
  BY <1>2, <1>3, <1>20
     DEF Interrupted, ReadInterrupted, WriteInterrupted, WriterOnly
<1>. QED
  BY <1>4, <1>5, <1>6, <1>7, <1>14, <1>15, <1>16, <1>17, <1>18, <1>19, <1>20
     DEF Next, External

\* Descriptors and clients do.
LEMMA DescriptorTypesNext ==
  ASSUME SInv, [Next]_vars PROVE DescriptorTypes'
<1>. USE DEF network, written, session, sending, accepting, ending, set
<1>1. DescriptorTypes /\ NetworkTypes /\ ProcessTypes
  BY DEF SInv, TypeOK
<1>2. ASSUME UNCHANGED <<table, set>> PROVE DescriptorTypes'
  BY <1>1, <1>2 DEF DescriptorTypes
<1>3. ASSUME NEW how, Exit(how) PROVE DescriptorTypes'
  BY <1>2, <1>3 DEF Exit
<1>4. ASSUME NEW n, NEW what \in Peers \cup {File, None},
             table' = [table EXCEPT ![n] = what], UNCHANGED set
      PROVE  DescriptorTypes'
  BY <1>1, <1>4 DEF DescriptorTypes
<1>5. CASE UseFile
  BY <1>4, <1>5 DEF UseFile, Open, PeersOnly
<1>6. ASSUME NEW p \in Peers, AccAccept(p) PROVE DescriptorTypes'
  <2>. DEFINE n == Min(Free)
  <2>1. n \in Fd /\ n # 0
    BY <1>6, LowestFree DEF AccAccept
  <2>2. /\ table' = [table EXCEPT ![n] = p] /\ fd' = [fd EXCEPT ![p] = n]
        /\ UNCHANGED clients
    BY <1>6 DEF AccAccept, Open
  <2>. HIDE DEF n
  <2>. QED
    BY <1>1, <2>1, <2>2 DEF DescriptorTypes
<1>7. CASE AccInsert
  <2>1. CASE \E q \in clients : fd[q] = fd[fresh]
    BY <1>3, <1>7, <2>1 DEF AccInsert
  <2>2. CASE ~\E q \in clients : fd[q] = fd[fresh]
    <3>1. fresh \in Peers /\ fd[fresh] # 0
      BY <1>7 DEF AccInsert, SInv, NewInv, Accepted
    <3>2. clients' = clients \cup {fresh} /\ UNCHANGED <<table, fd>>
      BY <1>7, <2>2 DEF AccInsert
    <3>. QED
      BY <1>1, <3>1, <3>2 DEF DescriptorTypes
  <2>. QED
    BY <2>1, <2>2
<1>8. ASSUME NEW p \in Peers, Erased(p) PROVE DescriptorTypes'
  BY <1>1, <1>8 DEF Erased, ClientOnly, DescriptorTypes
<1>9. CloseAll => table' \in [Fd -> Peers \cup {File, None}]
  BY <1>1 DEF CloseAll, DescriptorTypes
<1>10. CASE CloseClients
  BY <1>1, <1>9, <1>10 DEF CloseClients, DescriptorTypes
<1>11. CASE Clear
  BY <1>1, <1>9, <1>11 DEF Clear, DescriptorTypes
<1>12. CASE AcceptStep \/ AccLock
  BY <1>2, <1>3, <1>6, <1>7, <1>12
     DEF AcceptStep, AccLock, AccTest, AccWouldBlock, AccFails, AccRun,
         AccRunDestroyed
<1>13. ASSUME NEW p \in Peers,
              ClientStep(p) \/ ReadClosed(p) \/ UseDestroyed(p)
       PROVE  DescriptorTypes'
  BY <1>2, <1>3, <1>8, <1>13
     DEF ClientStep, Read, ReadEnd, ReadError, Command, Reply, Erase, ReadClosed,
         UseDestroyed, ClientOnly
<1>14. ASSUME NEW t \in Threads, Announce(t) \/ WriteLock(t) \/ WriteStep(t)
       PROVE  DescriptorTypes'
  BY <1>2, <1>14 DEF Announce, WriteLock, WriteStep, WriteNext, WriteEnd, WriterOnly
<1>15. ASSUME NEW p \in Peers, External(p) PROVE DescriptorTypes'
  BY <1>2, <1>15 DEF External, Connect, Send, Receive, HangUp, PeersOnly
<1>16. CASE Signal \/ Wake \/ MainStep \/ Disconnect
  BY <1>2, <1>10, <1>11, <1>16
     DEF Signal, Wake, MainStep, Disconnect, Save, SaveThrows, CloseListening,
         Join, Unwind, Return
<1>17. CASE UNCHANGED vars
  BY <1>2, <1>17 DEF vars
<1>18. CASE Interrupted
  BY <1>2, <1>3, <1>18
     DEF Interrupted, ReadInterrupted, WriteInterrupted, WriterOnly
<1>. QED
  BY <1>5, <1>12, <1>13, <1>14, <1>15, <1>16, <1>17, <1>18 DEF Next

\* The statements of the threads and what they send do.
LEMMA WriterTypesNext ==
  ASSUME SInv, [Next]_vars PROVE WriterTypes'
<1>. USE DEF network, written, session, sending, accepting, ending, set
<1>1. WriterTypes /\ DescriptorTypes
  BY DEF SInv, TypeOK
<1>2. ASSUME UNCHANGED <<pc, sending>> PROVE WriterTypes'
  BY <1>1, <1>2 DEF WriterTypes
<1>3. ASSUME NEW how, Exit(how) PROVE WriterTypes'
  BY <1>2, <1>3 DEF Exit
<1>. DEFINE Labels == {"none", "idle", "find", "lock", "write", "reply",
                       "erase", "erasing", "end"}
<1>4. ASSUME NEW t, NEW l \in Labels, Goto(t, l), UNCHANGED sending
      PROVE  WriterTypes'
  BY <1>1, <1>4 DEF WriterTypes, Goto
<1>5. ASSUME NEW t, Goto(t, "lock"), events < MaxEvents, events' = events + 1,
             event' = [event EXCEPT ![t] = events + 1], UNCHANGED at
      PROVE  WriterTypes'
  <2>1. events + 1 \in 0 .. MaxEvents
    BY <1>1, <1>5, ServerAssumption DEF WriterTypes
  <2>. QED
    BY <1>1, <1>5, <2>1 DEF WriterTypes, Goto
<1>6. CASE AccRun
  BY <1>4, <1>6 DEF AccRun, AcceptOnly
<1>7. ASSUME NEW p \in Peers, ReadEnd(p) \/ Reply(p) \/ Erase(p) \/ Erased(p)
      PROVE  WriterTypes'
  BY <1>4, <1>7 DEF ReadEnd, Reply, Erase, Erased, ClientOnly
<1>8. ASSUME NEW p \in Peers, Command(p) PROVE WriterTypes'
  BY <1>4, <1>5, <1>8 DEF Command, ClientOnly
<1>9. ASSUME NEW t \in Threads, Announce(t) \/ WriteLock(t) PROVE WriterTypes'
  BY <1>4, <1>5, <1>9 DEF Announce, WriteLock, WriterOnly
<1>10. ASSUME NEW t \in Threads, WriteNext(t) PROVE WriterTypes'
  <2>1. Min(Rest(t)) \in Fd
    BY <1>1, <1>10, NextClient DEF WriteNext
  <2>2. at' = [at EXCEPT ![t] = Min(Rest(t))] /\ UNCHANGED <<pc, event, events>>
    BY <1>10 DEF WriteNext
  <2>. QED
    BY <1>1, <2>1, <2>2 DEF WriterTypes
<1>11. ASSUME NEW t \in Threads, WriteEnd(t) PROVE WriterTypes'
  <2>1. 0 \in 0 .. MaxEvents
    BY ServerAssumption
  <2>. QED
    BY <1>1, <1>11, <2>1 DEF WriteEnd, WriterTypes, Goto
<1>12. CASE AcceptStep \/ AccLock
  BY <1>2, <1>3, <1>6, <1>12
     DEF AcceptStep, AccLock, AccTest, AccAccept, AccWouldBlock, AccFails, AccInsert,
         AccRunDestroyed, AcceptOnly
<1>13. ASSUME NEW p \in Peers,
              ClientStep(p) \/ ReadClosed(p) \/ UseDestroyed(p)
       PROVE  WriterTypes'
  BY <1>2, <1>3, <1>7, <1>8, <1>13
     DEF ClientStep, Read, ReadError, ReadClosed, UseDestroyed, ClientOnly
<1>14. ASSUME NEW t \in Threads, Announce(t) \/ WriteLock(t) \/ WriteStep(t)
       PROVE  WriterTypes'
  BY <1>9, <1>10, <1>11, <1>14 DEF WriteStep
<1>15. ASSUME NEW p \in Peers, External(p) PROVE WriterTypes'
  BY <1>2, <1>15 DEF External, Connect, Send, Receive, HangUp, PeersOnly
<1>16. CASE UseFile
  BY <1>2, <1>16 DEF UseFile, PeersOnly
<1>17. CASE Signal \/ Wake \/ MainStep \/ Disconnect
  BY <1>2, <1>17
     DEF Signal, Wake, MainStep, Disconnect, Save, SaveThrows, CloseClients,
         CloseListening,
         Clear, Join, Unwind, Return, MainOnly
<1>18. CASE UNCHANGED vars
  BY <1>2, <1>18 DEF vars
<1>19. ASSUME NEW t \in Threads, WriteInterrupted(t) PROVE WriterTypes'
  <2>1. Min(Rest(t)) \in Fd
    BY <1>1, <1>19, NextClient DEF WriteInterrupted
  <2>2. at' = [at EXCEPT ![t] = Min(Rest(t))] /\ UNCHANGED <<pc, event, events>>
    BY <1>19 DEF WriteInterrupted
  <2>. QED
    BY <1>1, <2>1, <2>2 DEF WriterTypes
<1>20. CASE Interrupted
  BY <1>3, <1>19, <1>20 DEF Interrupted, ReadInterrupted
<1>. QED
  BY <1>12, <1>13, <1>14, <1>15, <1>16, <1>17, <1>18, <1>20 DEF Next

\* The accept thread, the main thread and the mutex do.
LEMMA ProcessTypesNext ==
  ASSUME SInv, [Next]_vars PROVE ProcessTypes'
<1>. USE DEF network, written, session, sending, accepting, ending, set
<1>1. ProcessTypes
  BY DEF SInv, TypeOK
<1>2. ASSUME UNCHANGED <<accepting, owner, ending, proc>> PROVE ProcessTypes'
  BY <1>1, <1>2 DEF ProcessTypes
<1>3. ASSUME NEW how \in {"badAccept", "noDescriptor", "insertion", "readError",
                          "dangling"},
             Exit(how)
      PROVE  ProcessTypes'
  BY <1>1, <1>3 DEF Exit, ProcessTypes
<1>4. CASE AccTest \/ AccWouldBlock \/ AccLock \/ AccRun
  BY <1>1, <1>4 DEF AccTest, AccWouldBlock, AccLock, AccRun, AcceptOnly, ProcessTypes
<1>5. ASSUME NEW p \in Peers, AccAccept(p) PROVE ProcessTypes'
  BY <1>1, <1>5 DEF AccAccept, AcceptOnly, ProcessTypes
<1>6. CASE AccFails \/ AccRunDestroyed
  BY <1>3, <1>6 DEF AccFails, AccRunDestroyed
<1>7. CASE AccInsert
  <2>1. CASE \E q \in clients : fd[q] = fd[fresh]
    BY <1>3, <1>7, <2>1 DEF AccInsert
  <2>2. CASE ~\E q \in clients : fd[q] = fd[fresh]
    BY <1>1, <1>7, <2>2 DEF AccInsert, AcceptOnly, ProcessTypes
  <2>. QED
    BY <2>1, <2>2
<1>8. ASSUME NEW p \in Peers,
             ClientStep(p) \/ ReadClosed(p) \/ UseDestroyed(p)
      PROVE  ProcessTypes'
  BY <1>2, <1>3, <1>8
     DEF ClientStep, Read, ReadEnd, ReadError, Command, Reply, Erase, Erased,
         ReadClosed, UseDestroyed, ClientOnly
<1>9. ASSUME NEW t \in Threads, Announce(t) \/ WriteLock(t) \/ WriteStep(t)
      PROVE  ProcessTypes'
  BY <1>1, <1>9
     DEF Announce, WriteLock, WriteStep, WriteNext, WriteEnd, WriterOnly, ProcessTypes
<1>10. ASSUME NEW p \in Peers, External(p) PROVE ProcessTypes'
  BY <1>2, <1>10 DEF External, Connect, Send, Receive, HangUp, PeersOnly
<1>11. CASE UseFile
  BY <1>2, <1>11 DEF UseFile, PeersOnly
<1>12. CASE Signal \/ Wake \/ Disconnect
  BY <1>1, <1>12 DEF Signal, Wake, Disconnect, MainGoto, MainOnly, ProcessTypes
<1>13. CASE MainStep
  BY <1>1, <1>13 DEF MainStep, Save, SaveThrows, CloseClients, CloseListening,
     Clear, Join, Unwind, Return,
     MainGoto, MainOnly, ProcessTypes
<1>14. CASE UNCHANGED vars
  BY <1>2, <1>14 DEF vars
<1>15. CASE AcceptStep \/ AccLock
  BY <1>4, <1>5, <1>6, <1>7, <1>15 DEF AcceptStep
<1>16. CASE Interrupted
  BY <1>2, <1>3, <1>16
     DEF Interrupted, ReadInterrupted, WriteInterrupted, WriterOnly
<1>. QED
  BY <1>8, <1>9, <1>10, <1>11, <1>12, <1>13, <1>14, <1>15, <1>16 DEF Next

\* Every step keeps the types.
LEMMA TypesNext == SInv /\ [Next]_vars => TypeOK'
  BY NetworkTypesNext, DescriptorTypesNext, WriterTypesNext, ProcessTypesNext
     DEF TypeOK

-----------------------------------------------------------------------------
(* _clientListMutex.                                                       *)

\* Nobody holds the mutex when the server starts.
LEMMA MutexInit == Init => MutexInv
  BY ServerAssumption DEF Init, MutexInv, Threads

\* The mutex is taken when it is free, and left by the one who has it.
LEMMA MutexNext ==
  ASSUME SInv, [Next]_vars PROVE MutexInv'
<1>. USE DEF network, written, session, sending, accepting, ending, set
<1>1. /\ MutexInv
      /\ pc \in [Threads -> {"none", "idle", "find", "lock", "write", "reply",
                             "erase", "erasing", "end"}]
      /\ at \in [Threads -> Fd \cup {0}]
      /\ acc = "run" => fresh \in Threads /\ pc[fresh] = "none"
  BY DEF SInv, TypeOK, WriterTypes, NewInv, Accepted, Threads
<1>2. /\ Acceptor \notin Threads /\ Main \notin Threads /\ None \notin Threads
      /\ Acceptor # Main /\ Acceptor # None /\ Main # None
  BY ServerAssumption
<1>3. ASSUME UNCHANGED <<acc, owner, main, pc, at>> PROVE MutexInv'
  BY <1>1, <1>3 DEF MutexInv
<1>4. ASSUME NEW how, Exit(how) PROVE MutexInv'
  BY <1>3, <1>4 DEF Exit
<1>5. ASSUME NEW t \in Threads, pc[t] # "write",
             NEW l \in {"find", "lock", "reply", "erase", "erasing", "end"}, Goto(t, l),
             acc' = acc \/ (acc = "run" /\ acc' = "test"), UNCHANGED <<owner, main, at>>
      PROVE  MutexInv'
  BY <1>1, <1>5 DEF MutexInv, Goto
<1>6. CASE AccTest \/ AccWouldBlock
  BY <1>1, <1>6 DEF AccTest, AccWouldBlock, AcceptOnly, MutexInv
<1>7. ASSUME NEW p \in Peers, AccAccept(p) PROVE MutexInv'
  BY <1>1, <1>7 DEF AccAccept, AcceptOnly, MutexInv
<1>8. CASE AccLock
  BY <1>1, <1>2, <1>8 DEF AccLock, AcceptOnly, MutexInv
<1>9. CASE AccInsert
  <2>1. CASE \E q \in clients : fd[q] = fd[fresh]
    BY <1>4, <1>9, <2>1 DEF AccInsert
  <2>2. CASE ~\E q \in clients : fd[q] = fd[fresh]
    <3>1. /\ acc = "insert" /\ acc' = "run" /\ owner' = None
          /\ UNCHANGED <<main, pc, at>>
      BY <1>9, <2>2 DEF AccInsert, AcceptOnly
    <3>. QED
      BY <1>1, <1>2, <3>1 DEF MutexInv
  <2>. QED
    BY <2>1, <2>2
<1>10. CASE AccRun
  BY <1>1, <1>5, <1>10 DEF AccRun, AcceptOnly
<1>11. CASE AcceptStep \/ AccLock
  BY <1>4, <1>6, <1>7, <1>8, <1>9, <1>10, <1>11
     DEF AcceptStep, AccFails, AccRunDestroyed
<1>12. ASSUME NEW p \in Peers,
              ClientStep(p) \/ ReadClosed(p) \/ UseDestroyed(p)
       PROVE  MutexInv'
  <2>1. p \in Threads
    BY DEF Threads
  <2>2. CASE Command(p)
    BY <1>5, <2>1, <2>2 DEF Command, ClientOnly
  <2>3. CASE ReadEnd(p) \/ Reply(p) \/ Erase(p) \/ Erased(p)
    BY <1>5, <2>1, <2>3 DEF ReadEnd, Reply, Erase, Erased, ClientOnly
  <2>. QED
    BY <1>3, <1>4, <1>12, <2>2, <2>3
       DEF ClientStep, Read, ReadError, ReadClosed, UseDestroyed, ClientOnly
<1>13. ASSUME NEW t \in Threads, Announce(t) PROVE MutexInv'
  BY <1>5, <1>13 DEF Announce, WriterOnly
<1>14. ASSUME NEW t \in Threads, WriteLock(t) PROVE MutexInv'
  BY <1>1, <1>2, <1>14 DEF WriteLock, WriterOnly, Goto, MutexInv
<1>15. ASSUME NEW t \in Threads, WriteNext(t) PROVE MutexInv'
  BY <1>1, <1>2, <1>15 DEF WriteNext, WriterOnly, MutexInv
<1>16. ASSUME NEW t \in Threads, WriteEnd(t) PROVE MutexInv'
  <2>1. /\ pc[t] = "write" /\ owner = t /\ owner' = None
        /\ \E l \in {"reply", "idle"} : pc' = [pc EXCEPT ![t] = l]
        /\ at' = [at EXCEPT ![t] = 0] /\ UNCHANGED <<acc, main>>
    BY <1>1, <1>16 DEF WriteEnd, WriterOnly, Goto, MutexInv
  <2>. QED
    BY <1>1, <1>2, <2>1 DEF MutexInv
<1>17. ASSUME NEW p \in Peers, External(p) PROVE MutexInv'
  BY <1>3, <1>17 DEF External, Connect, Send, Receive, HangUp, PeersOnly
<1>18. CASE UseFile
  BY <1>3, <1>18 DEF UseFile, PeersOnly
<1>19. CASE Signal \/ Wake \/ Save \/ SaveThrows \/ CloseClients
          \/ CloseListening \/ Join \/ Unwind
  BY <1>1, <1>19 DEF Signal, Wake, Save, SaveThrows, CloseClients, CloseListening,
     Join, Unwind, Return, MainGoto,
     MainOnly, MutexInv
<1>20. CASE Disconnect
  BY <1>1, <1>2, <1>20 DEF Disconnect, MainGoto, MainOnly, MutexInv
<1>21. CASE Clear
  BY <1>1, <1>2, <1>21 DEF Clear, MainGoto, MainOnly, MutexInv
<1>22. CASE UNCHANGED vars
  BY <1>3, <1>22 DEF vars
<1>23. CASE Interrupted
  <2>1. ASSUME NEW t \in Threads, WriteInterrupted(t) PROVE MutexInv'
    BY <1>1, <1>2, <2>1 DEF WriteInterrupted, WriterOnly, MutexInv
  <2>. QED
    BY <1>4, <1>23, <2>1 DEF Interrupted, ReadInterrupted
<1>. QED
  BY <1>11, <1>12, <1>13, <1>14, <1>15, <1>16, <1>17, <1>18, <1>19, <1>20, <1>21,
     <1>22, <1>23
     DEF Next, WriteStep, MainStep

-----------------------------------------------------------------------------
(* Peers that are not clients yet.                                         *)

\* What writeAll writes to is a client, or a peer that has been one.
LEMMA WrittenIsKnown ==
  ASSUME SInv, NEW t \in Threads, WriteNext(t), NEW q \in Written(Min(Rest(t)))
  PROVE  q \in Peers /\ ~New(q) /\ fd[q] = Min(Rest(t))
<1>. DEFINE n == Min(Rest(t))
<1>1. DescriptorTypes /\ pc[t] = "write" /\ Rest(t) # {}
  BY DEF SInv, TypeOK, WriteNext
<1>2. n \in Fd /\ n \in Rest(t)
  BY <1>1, NextClient
<1>3. PICK c \in clients : fd[c] = n
  BY <1>2 DEF Rest
<1>4. q \in Peers /\ table[n] = q
  BY DEF Written
<1>. HIDE DEF n
<1>5. fd[q] = n /\ q \notin backlog /\ peer[q] # "away"
  BY <1>2, <1>4 DEF SInv, TableInv
<1>6. ASSUME acc \in {"lock", "insert"}, q = fresh PROVE FALSE
  <2>1. fresh \notin clients
    BY <1>4, <1>6 DEF SInv, NewInv, New
  <2>2. main \notin {"close", "closefd", "clear"}
    BY <1>1, ServerAssumption DEF SInv, MutexInv
  <2>3. main \in {"join", "end"} => clients = {}
    BY <1>6 DEF SInv, OwnedInv
  <2>4. Early => table[fd[c]] = c
    BY DEF SInv, OwnedInv
  <2>5. Early \/ main \in {"close", "closefd", "clear", "join", "end"}
    BY DEF SInv, TypeOK, ProcessTypes, Early
  <2>. QED
    BY <1>3, <1>4, <1>6, <2>1, <2>2, <2>3, <2>4, <2>5
<1>. QED
  BY <1>4, <1>5, <1>6 DEF New, n

\* Nobody has connected when the server starts.
LEMMA NewInit == Init => NewInv
  BY ServerAssumption DEF Init, NewInv, New, Accepted, Threads

\* Accepting takes a peer from the backlog, inserting makes it a client, and
\* only then it gets a thread and events.
LEMMA NewNext ==
  ASSUME SInv, [Next]_vars PROVE NewInv'
<1>. USE DEF network, written, session, sending, accepting, ending, set
<1>1. /\ NewInv /\ backlog \subseteq Peers /\ Peers \subseteq Threads
      /\ peer \in [Peers -> {"away", "open", "closed", "reset"}]
      /\ DOMAIN got = Peers /\ fd \in [Peers -> Fd \cup {0}]
      /\ DOMAIN pc = Threads
  BY DEF SInv, TypeOK, NetworkTypes, DescriptorTypes, WriterTypes, Threads
<1>2. ASSUME UNCHANGED <<peer, backlog, pc, got, acc, fresh, fd>>,
             clients' \subseteq clients
      PROVE  NewInv'
  BY <1>1, <1>2 DEF NewInv, New, Accepted
<1>3. ASSUME NEW how, Exit(how) PROVE NewInv'
  BY <1>2, <1>3 DEF Exit
<1>4. ASSUME NEW t, pc[t] # "none", NEW l, Goto(t, l),
             clients' \subseteq clients,
             UNCHANGED <<peer, backlog, got, acc, fresh, fd>>
      PROVE  NewInv'
  <2>1. \A p \in Peers : pc[p] = "none" => pc'[p] = "none"
    BY <1>1, <1>4 DEF Goto
  <2>. QED
    BY <1>1, <1>4, <2>1 DEF NewInv, New, Accepted
<1>5. ASSUME NEW p \in Peers, Connect(p) PROVE NewInv'
  BY <1>1, <1>5 DEF Connect, PeersOnly, NewInv, New, Accepted
<1>6. ASSUME NEW p \in Peers, Send(p) \/ Receive(p) PROVE NewInv'
  BY <1>2, <1>6 DEF Send, Receive, PeersOnly
<1>7. ASSUME NEW p \in Peers, NEW how \in {"closed", "reset"}, HangUp(p, how)
      PROVE  NewInv'
  BY <1>1, <1>7 DEF HangUp, PeersOnly, NewInv, New, Accepted
<1>8. CASE AccTest \/ AccWouldBlock \/ AccLock
  BY <1>1, <1>8 DEF AccTest, AccWouldBlock, AccLock, AcceptOnly, NewInv, New, Accepted
<1>9. ASSUME NEW p \in Peers, AccAccept(p) PROVE NewInv'
  <2>. DEFINE n == Min(Free)
  <2>1. /\ acc = "accept" /\ p \in backlog /\ backlog' = backlog \ {p}
        /\ fd' = [fd EXCEPT ![p] = n] /\ fresh' = p /\ acc' = "lock"
        /\ UNCHANGED <<peer, got, clients, pc>>
    BY <1>9 DEF AccAccept, AcceptOnly
  <2>2. n # 0
    BY <1>9, LowestFree DEF AccAccept
  <2>. HIDE DEF n
  <2>3. \A q \in Peers : New(q)' => New(q)
    BY <2>1 DEF New
  <2>4. New(p) /\ peer[p] # "away"
    BY <1>1, <2>1 DEF NewInv, New
  <2>. QED
    BY <1>1, <2>1, <2>2, <2>3, <2>4 DEF NewInv, Accepted
<1>10. CASE AccInsert
  <2>1. CASE \E q \in clients : fd[q] = fd[fresh]
    BY <1>3, <1>10, <2>1 DEF AccInsert
  <2>2. CASE ~\E q \in clients : fd[q] = fd[fresh]
    <3>1. /\ acc = "insert" /\ acc' = "run" /\ clients' = clients \cup {fresh}
          /\ UNCHANGED <<peer, backlog, pc, got, fresh, fd>>
      BY <1>10, <2>2 DEF AccInsert, AcceptOnly
    <3>. QED
      BY <1>1, <3>1 DEF NewInv, New, Accepted
  <2>. QED
    BY <2>1, <2>2
<1>11. CASE AccRun
  <2>1. /\ acc = "run" /\ acc' = "test" /\ pc' = [pc EXCEPT ![fresh] = "find"]
        /\ UNCHANGED <<peer, backlog, clients, got, fd>>
    BY <1>11 DEF AccRun, AcceptOnly, Goto
  <2>. QED
    BY <1>1, <2>1 DEF NewInv, New, Accepted
<1>12. CASE AcceptStep \/ AccLock
  BY <1>3, <1>8, <1>9, <1>10, <1>11, <1>12 DEF AcceptStep, AccFails, AccRunDestroyed
<1>13. ASSUME NEW p \in Peers,
              ClientStep(p) \/ ReadClosed(p) \/ UseDestroyed(p)
       PROVE  NewInv'
  <2>1. CASE Command(p)
    BY <1>4, <2>1 DEF Command, ClientOnly
  <2>2. CASE ReadEnd(p) \/ Reply(p) \/ Erase(p) \/ Erased(p)
    BY <1>4, <2>2 DEF ReadEnd, Reply, Erase, Erased, ClientOnly
  <2>. QED
    BY <1>2, <1>3, <1>13, <2>1, <2>2
       DEF ClientStep, Read, ReadError, ReadClosed, UseDestroyed, ClientOnly
<1>14. ASSUME NEW t \in Threads, WriteNext(t) PROVE NewInv'
  <2>1. \A q \in Written(Min(Rest(t))) : q \in Peers /\ ~New(q)
    BY <1>14, WrittenIsKnown
  <2>2. /\ got' = [q \in Peers |-> IF q \in Written(Min(Rest(t)))
                                   THEN Append(got[q], event[t]) ELSE got[q]]
        /\ UNCHANGED <<peer, backlog, clients, pc, acc, fresh, fd>>
    BY <1>14 DEF WriteNext, WriterOnly
  <2>3. \A q \in Peers : New(q)' <=> New(q)
    BY <2>2 DEF New
  <2>. QED
    BY <1>1, <2>1, <2>2, <2>3 DEF NewInv, Accepted
<1>15. ASSUME NEW t \in Threads, WriteEnd(t) PROVE NewInv'
  BY <1>4, <1>15 DEF WriteEnd, WriterOnly
<1>16. ASSUME NEW t \in Threads, Announce(t) \/ WriteLock(t) PROVE NewInv'
  BY <1>4, <1>16 DEF Announce, WriteLock, WriterOnly
<1>17. CASE UseFile
  BY <1>2, <1>17 DEF UseFile, PeersOnly
<1>18. CASE Signal \/ Wake \/ MainStep \/ Disconnect
  BY <1>2, <1>18
     DEF Signal, Wake, MainStep, Disconnect, Save, SaveThrows, CloseClients,
         CloseListening,
         Clear, Join, Unwind, Return, MainOnly
<1>19. CASE UNCHANGED vars
  BY <1>2, <1>19 DEF vars
<1>20. CASE Interrupted
  BY <1>2, <1>3, <1>20
     DEF Interrupted, ReadInterrupted, WriteInterrupted, WriterOnly
<1>. QED
  BY <1>5, <1>6, <1>7, <1>12, <1>13, <1>14, <1>15, <1>16, <1>17, <1>18, <1>19, <1>20
     DEF Next, External, WriteStep

-----------------------------------------------------------------------------
(* Descriptors.                                                            *)

\* The table is empty when the server starts.
LEMMA TableInit == Init => TableInv
  BY ServerAssumption DEF Init, TableInv, Threads

\* A connection gets the lowest free descriptor, which becomes its Client's.
LEMMA TableNext ==
  ASSUME SInv, [Next]_vars PROVE TableInv'
<1>. USE DEF network, written, session, sending, accepting, ending, set
<1>1. /\ TableInv /\ NewInv
      /\ peer \in [Peers -> {"away", "open", "closed", "reset"}]
      /\ table \in [Fd -> Peers \cup {File, None}]
      /\ fd \in [Peers -> Fd \cup {0}]
      /\ backlog \subseteq Peers
  BY DEF SInv, TypeOK, NetworkTypes, DescriptorTypes
<1>2. File \notin Peers /\ None \notin Peers
  BY ServerAssumption DEF Threads
<1>3. ASSUME UNCHANGED <<peer, backlog, fd>>,
             \A n \in Fd : table'[n] \in Peers => table'[n] = table[n]
      PROVE  TableInv'
  BY <1>1, <1>3 DEF TableInv
<1>4. ASSUME NEW how, Exit(how) PROVE TableInv'
  BY <1>3, <1>4 DEF Exit
<1>5. ASSUME NEW p \in Peers, Connect(p) PROVE TableInv'
  BY <1>1, <1>5 DEF Connect, PeersOnly, TableInv
<1>6. ASSUME NEW p \in Peers, Send(p) \/ Receive(p) PROVE TableInv'
  BY <1>3, <1>6 DEF Send, Receive, PeersOnly
<1>7. ASSUME NEW p \in Peers, NEW how \in {"closed", "reset"}, HangUp(p, how)
      PROVE  TableInv'
  BY <1>1, <1>7 DEF HangUp, PeersOnly, TableInv
<1>8. ASSUME NEW n, NEW what \in {File, None}, table' = [table EXCEPT ![n] = what]
      PROVE  \A m \in Fd : table'[m] \in Peers => table'[m] = table[m]
  BY <1>1, <1>2, <1>8
<1>9. CASE UseFile
  <2>1. UNCHANGED <<peer, backlog, fd>>
    BY <1>9 DEF UseFile, PeersOnly
  <2>2. \E n, what : what \in {File, None} /\ table' = [table EXCEPT ![n] = what]
    BY <1>9 DEF UseFile, Open
  <2>. QED
    BY <1>3, <1>8, <2>1, <2>2
<1>10. ASSUME NEW p \in Peers, AccAccept(p) PROVE TableInv'
  <2>. DEFINE n == Min(Free)
  <2>1. /\ p \in backlog /\ backlog' = backlog \ {p}
        /\ fd' = [fd EXCEPT ![p] = n] /\ table' = [table EXCEPT ![n] = p]
        /\ UNCHANGED peer
    BY <1>10 DEF AccAccept, Open, AcceptOnly
  <2>2. n \in Fd
    BY <1>10, LowestFree DEF AccAccept
  <2>. HIDE DEF n
  <2>3. peer[p] # "away"
    BY <1>1, <2>1 DEF NewInv
  <2>. QED
    BY <1>1, <2>1, <2>2, <2>3 DEF TableInv
<1>11. CASE AcceptStep \/ AccLock
  BY <1>3, <1>4, <1>10, <1>11
     DEF AcceptStep, AccLock, AccTest, AccWouldBlock, AccFails, AccInsert, AccRun,
         AccRunDestroyed, AcceptOnly
<1>12. ASSUME NEW p \in Peers, Erased(p) PROVE TableInv'
  BY <1>3, <1>8, <1>12 DEF Erased, ClientOnly
<1>13. ASSUME NEW p \in Peers,
              ClientStep(p) \/ ReadClosed(p) \/ UseDestroyed(p)
       PROVE  TableInv'
  BY <1>3, <1>4, <1>12, <1>13
     DEF ClientStep, Read, ReadEnd, ReadError, Command, Reply, Erase, ReadClosed,
         UseDestroyed, ClientOnly
<1>14. ASSUME NEW t \in Threads, Announce(t) \/ WriteLock(t) \/ WriteStep(t)
       PROVE  TableInv'
  BY <1>3, <1>14 DEF Announce, WriteLock, WriteStep, WriteNext, WriteEnd, WriterOnly
<1>15. CASE CloseClients \/ Clear
  <2>1. \A n \in Fd : table'[n] \in Peers => table'[n] = table[n]
    BY <1>2, <1>15 DEF CloseClients, Clear, CloseAll
  <2>. QED
    BY <1>3, <1>15, <2>1 DEF CloseClients, Clear, MainOnly
<1>16. CASE Signal \/ Wake \/ MainStep \/ Disconnect
  BY <1>3, <1>15, <1>16
     DEF Signal, Wake, MainStep, Disconnect, Save, SaveThrows, CloseListening,
         Join, Unwind, Return, MainOnly
<1>17. CASE UNCHANGED vars
  BY <1>3, <1>17 DEF vars
<1>18. CASE Interrupted
  BY <1>3, <1>4, <1>18
     DEF Interrupted, ReadInterrupted, WriteInterrupted, WriterOnly
<1>. QED
  BY <1>5, <1>6, <1>7, <1>9, <1>11, <1>13, <1>14, <1>16, <1>17, <1>18 DEF Next,
     External

\* There are no clients when the server starts.
LEMMA OwnedInit == Init => OwnedInv
<1>. SUFFICES ASSUME Init PROVE OwnedInv
  OBVIOUS
<1>1. \A p \in Peers : pc[p] = "none"
  BY ServerAssumption DEF Init, Threads
<1>. QED
  BY <1>1 DEF Init, OwnedInv, Accepted

\* A descriptor stays with its client until the client is erased, and the
\* client until its thread is at its end.
LEMMA OwnedNext ==
  ASSUME SInv, [Next]_vars PROVE OwnedInv'
<1>. USE DEF network, written, session, sending, accepting, ending, set
<1>1. /\ OwnedInv /\ NewInv /\ clients \subseteq Peers /\ Peers \subseteq Threads
      /\ table \in [Fd -> Peers \cup {File, None}]
      /\ fd \in [Peers -> Fd \cup {0}] /\ \A p \in clients : fd[p] \in Fd
      /\ DOMAIN pc = Threads
  BY DEF SInv, TypeOK, DescriptorTypes, WriterTypes, Threads
<1>2. File \notin Peers /\ None \notin Peers
  BY ServerAssumption DEF Threads
<1>3. Accepted => fresh \in Peers /\ fd[fresh] \in Fd /\ pc[fresh] = "none"
  BY <1>1 DEF NewInv
<1>4. ASSUME UNCHANGED <<clients, fd, acc, fresh, pc>>, main' = main,
             \A n \in Fd : table[n] \in Peers => table'[n] = table[n]
      PROVE  OwnedInv'
  BY <1>1, <1>3, <1>4 DEF OwnedInv, Early, Accepted
<1>5. ASSUME NEW how, Exit(how) PROVE OwnedInv'
  BY <1>4, <1>5 DEF Exit
<1>6. ASSUME NEW t, pc[t] \notin {"none", "end"} \/ t \in clients,
             NEW l, Goto(t, l), UNCHANGED <<clients, table, fd, acc, fresh, main>>
      PROVE  OwnedInv'
  <2>1. Early => \A p \in Peers : pc'[p] \notin {"none", "end"} => p \in clients
    BY <1>1, <1>6 DEF OwnedInv, Goto
  <2>. QED
    BY <1>1, <1>6, <2>1 DEF OwnedInv, Early, Accepted
<1>7. ASSUME NEW p \in Peers, External(p) PROVE OwnedInv'
  BY <1>4, <1>7 DEF External, Connect, Send, Receive, HangUp, PeersOnly
<1>8. CASE UseFile
  <2>1. UNCHANGED <<clients, fd, acc, fresh, pc, main>>
    BY <1>8 DEF UseFile, PeersOnly
  <2>2. CASE Free # {} /\ Open(File)
    <3>1. table[Min(Free)] = None
      BY <2>2, LowestFree
    <3>. QED
      BY <1>1, <1>2, <1>4, <2>1, <2>2, <3>1 DEF Open
  <2>3. CASE \E n \in Fd : table[n] = File /\ table' = [table EXCEPT ![n] = None]
    BY <1>1, <1>2, <1>4, <2>1, <2>3
  <2>. QED
    BY <1>8, <2>2, <2>3 DEF UseFile
<1>9. CASE AccTest \/ AccWouldBlock \/ AccLock
  BY <1>1, <1>9 DEF AccTest, AccWouldBlock, AccLock, AcceptOnly, OwnedInv, Early,
     Accepted
<1>10. ASSUME NEW p \in Peers, AccAccept(p) PROVE OwnedInv'
  <2>. DEFINE n == Min(Free)
  <2>1. /\ p \in backlog /\ Listening /\ acc' = "lock" /\ fresh' = p
        /\ fd' = [fd EXCEPT ![p] = n] /\ table' = [table EXCEPT ![n] = p]
        /\ UNCHANGED <<clients, pc, main>>
    BY <1>10 DEF AccAccept, Open, AcceptOnly
  <2>2. n \in Fd /\ table[n] = None
    BY <1>10, LowestFree DEF AccAccept
  <2>. HIDE DEF n
  <2>3. p \notin clients
    BY <1>1, <2>1 DEF NewInv, New
  <2>4. Early => \A q \in clients : table'[fd'[q]] = q
    BY <1>1, <1>2, <2>1, <2>2, <2>3 DEF OwnedInv
  <2>5. table'[fd'[fresh']] = fresh'
    BY <1>1, <2>1, <2>2
  <2>6. main \notin {"join", "end"}
    BY <2>1 DEF Listening
  <2>. QED
    BY <1>1, <2>1, <2>4, <2>5, <2>6 DEF OwnedInv, Early
<1>11. CASE AccInsert
  <2>1. CASE \E q \in clients : fd[q] = fd[fresh]
    BY <1>5, <1>11, <2>1 DEF AccInsert
  <2>2. CASE ~\E q \in clients : fd[q] = fd[fresh]
    <3>1. /\ acc = "insert" /\ acc' = "run" /\ clients' = clients \cup {fresh}
          /\ UNCHANGED <<table, fd, fresh, pc, main>>
      BY <1>11, <2>2 DEF AccInsert, AcceptOnly
    <3>. QED
      BY <1>1, <3>1 DEF OwnedInv, Early, Accepted
  <2>. QED
    BY <2>1, <2>2
<1>12. CASE AccRun
  <2>1. /\ acc = "run" /\ acc' = "test" /\ fresh \in clients
        /\ pc' = [pc EXCEPT ![fresh] = "find"]
        /\ UNCHANGED <<clients, table, fd, main>>
    BY <1>12 DEF AccRun, AcceptOnly, Goto
  <2>. QED
    BY <1>1, <2>1 DEF OwnedInv, Early, Accepted
<1>13. CASE AcceptStep \/ AccLock
  BY <1>5, <1>9, <1>10, <1>11, <1>12, <1>13 DEF AcceptStep, AccFails, AccRunDestroyed
<1>14. ASSUME NEW p \in Peers, Erased(p) PROVE OwnedInv'
  <2>1. /\ pc[p] = "erasing" /\ clients' = clients \ {p}
        /\ table' = [table EXCEPT ![fd[p]] = None] /\ pc' = [pc EXCEPT ![p] = "end"]
        /\ UNCHANGED <<fd, acc, fresh, main>>
    BY <1>14 DEF Erased, ClientOnly, Goto
  <2>2. Early => table[fd[p]] = p
    BY <1>1, <2>1 DEF OwnedInv
  <2>3. Early => \A q \in clients : q # p => fd[q] # fd[p] /\ table'[fd[q]] = q
    BY <1>1, <2>1, <2>2 DEF OwnedInv
  <2>4. Early /\ Accepted => fresh # p /\ fd[fresh] # fd[p] /\ table'[fd[fresh]] = fresh
    BY <1>1, <1>3, <2>1, <2>2 DEF OwnedInv
  <2>5. Early => \A q \in Peers : pc'[q] \notin {"none", "end"} => q \in clients'
    BY <1>1, <2>1 DEF OwnedInv
  <2>. QED
    BY <1>1, <2>1, <2>3, <2>4, <2>5 DEF OwnedInv, Early, Accepted
<1>15. ASSUME NEW p \in Peers,
              ClientStep(p) \/ ReadClosed(p) \/ UseDestroyed(p)
       PROVE  OwnedInv'
  <2>1. CASE Command(p)
    BY <1>6, <2>1 DEF Command, ClientOnly
  <2>2. CASE ReadEnd(p) \/ Reply(p) \/ Erase(p)
    BY <1>6, <2>2 DEF ReadEnd, Reply, Erase, ClientOnly
  <2>. QED
    BY <1>4, <1>5, <1>14, <1>15, <2>1, <2>2
       DEF ClientStep, Read, ReadError, ReadClosed, UseDestroyed, ClientOnly
<1>16. ASSUME NEW t \in Threads, Announce(t) \/ WriteLock(t) \/ WriteStep(t)
       PROVE  OwnedInv'
  <2>1. CASE WriteNext(t)
    BY <1>4, <2>1 DEF WriteNext, WriterOnly
  <2>2. CASE Announce(t) \/ WriteLock(t) \/ WriteEnd(t)
    BY <1>6, <2>2 DEF Announce, WriteLock, WriteEnd, WriterOnly
  <2>. QED
    BY <1>16, <2>1, <2>2 DEF WriteStep
<1>17. CASE Signal \/ Wake \/ Save \/ SaveThrows \/ CloseListening \/ Join \/ Unwind
  BY <1>1, <1>17 DEF Signal, Wake, Save, SaveThrows, CloseListening, Join, Unwind,
     Return, MainGoto, MainOnly,
     OwnedInv, Early, Accepted
<1>18. CASE Disconnect \/ CloseClients \/ Clear
  BY <1>18 DEF Disconnect, CloseClients, Clear, MainGoto, OwnedInv, Early
<1>19. CASE UNCHANGED vars
  BY <1>4, <1>19 DEF vars
<1>20. CASE Interrupted
  BY <1>4, <1>5, <1>20
     DEF Interrupted, ReadInterrupted, WriteInterrupted, WriterOnly
<1>. QED
  BY <1>7, <1>8, <1>13, <1>15, <1>16, <1>17, <1>18, <1>19, <1>20 DEF Next, MainStep

-----------------------------------------------------------------------------
(* The invariant, and what follows from it at once.                        *)

\* The invariant holds at the start.
LEMMA SInvInit == Init => SInv
  BY TypesInit, MutexInit, NewInit, TableInit, OwnedInit DEF SInv

\* Every step keeps it.
LEMMA SInvNext == SInv /\ [Next]_vars => SInv'
  BY TypesNext, MutexNext, NewNext, TableNext, OwnedNext DEF SInv

\* It always holds.
LEMMA SInvHolds == Spec => []SInv
  BY SInvInit, SInvNext, PTL DEF Spec

\* Every variable of the server keeps its type; what the accept thread has in
\* its hands is a connection with a descriptor (server.cpp: accept).
THEOREM ServerTypeCorrect == Spec => []TypeOK
<1>1. SInv => TypeOK
  BY DEF SInv
<1>. QED
  BY <1>1, SInvHolds, PTL

\* The accept thread, which exits because its socket is closed, never cuts the
\* save short; main does not return before it has tried to save (main.cpp;
\* server.cpp: accept, disconnect).
THEOREM EndsAfterTheSave == Spec => []EndsSaved
<1>1. SavedInv => EndsSaved
  BY DEF SavedInv
<1>2. TypeOK /\ SavedInv /\ [Next]_vars => SavedInv'
  BY SavedNext
<1> QED
  BY <1>1, <1>2, SavedInit, ServerTypeCorrect, PTL DEF Spec

\* A client that is inserted has a descriptor no client of the set has.
LEMMA NoCollision ==
  ASSUME SInv, acc = "insert" PROVE ~\E q \in clients : fd[q] = fd[fresh]
<1>1. SUFFICES ASSUME NEW q \in clients, fd[q] = fd[fresh] PROVE FALSE
  OBVIOUS
<1>2. fresh \in Peers /\ fresh \notin clients
  BY DEF SInv, NewInv, New, Accepted
<1>3. main \notin {"close", "closefd", "clear"}
  BY ServerAssumption DEF SInv, MutexInv
<1>4. main \notin {"join", "end"}
  BY <1>1 DEF SInv, OwnedInv
<1>5. Early
  BY <1>3, <1>4 DEF SInv, TypeOK, ProcessTypes, Early
<1>. QED
  BY <1>1, <1>2, <1>5 DEF SInv, OwnedInv, Accepted

\* Nothing else ends the process for that reason.
LEMMA NoInsertionNext ==
  ASSUME SInv, proc # "insertion", [Next]_vars PROVE proc' # "insertion"
<1>. USE DEF network, written, session, sending, accepting, ending, set
<1>1. ASSUME NEW how \in {"badAccept", "noDescriptor", "readError", "dangling"},
             Exit(how)
      PROVE  proc' # "insertion"
  BY <1>1 DEF Exit
<1>2. CASE AcceptStep \/ AccLock
  BY <1>1, <1>2, NoCollision
     DEF AcceptStep, AccTest, AccAccept, AccWouldBlock, AccFails, AccLock, AccInsert,
         AccRun, AccRunDestroyed, AcceptOnly
<1>3. ASSUME NEW p \in Peers,
             ClientStep(p) \/ ReadClosed(p) \/ UseDestroyed(p)
      PROVE  proc' # "insertion"
  BY <1>1, <1>3
     DEF ClientStep, Read, ReadEnd, ReadError, Command, Reply, Erase, Erased,
         ReadClosed, UseDestroyed, ClientOnly
<1>4. ASSUME NEW t \in Threads, Announce(t) \/ WriteLock(t) \/ WriteStep(t)
      PROVE  proc' # "insertion"
  BY <1>4 DEF Announce, WriteLock, WriteStep, WriteNext, WriteEnd, WriterOnly
<1>5. ASSUME NEW p \in Peers, External(p) PROVE proc' # "insertion"
  BY <1>5 DEF External, Connect, Send, Receive, HangUp, PeersOnly
<1>6. CASE UseFile
  BY <1>6 DEF UseFile, PeersOnly
<1>7. CASE Signal \/ Wake \/ MainStep \/ Disconnect
  BY <1>7 DEF Signal, Wake, MainStep, Disconnect, Save, SaveThrows, CloseClients,
     CloseListening,
     Clear, Join, Unwind, Return, MainOnly
<1>8. CASE UNCHANGED vars
  BY <1>8 DEF vars
<1>9. CASE Interrupted
  BY <1>1, <1>9
     DEF Interrupted, ReadInterrupted, WriteInterrupted, WriterOnly
<1>. QED
  BY <1>2, <1>3, <1>4, <1>5, <1>6, <1>7, <1>8, <1>9 DEF Next

\* Until the server is disconnected a client's descriptor designates its own
\* connection and a thread's client is in the set; an insertion never meets
\* the same descriptor (server.cpp: accept; client.hpp: ~Client).
THEOREM DescriptorsAreOwned == Spec => []DescriptorsOwned
<1>1. Init => proc # "insertion"
  BY DEF Init
<1>2. SInv /\ proc # "insertion" => DescriptorsOwned
  BY DEF SInv, OwnedInv, DescriptorsOwned, Early, Source
<1>3. SInv /\ proc # "insertion" /\ [Next]_vars => (proc # "insertion")'
  BY NoInsertionNext
<1>. QED
  BY <1>1, <1>2, <1>3, SInvHolds, PTL DEF Spec

-----------------------------------------------------------------------------
(* Events.                                                                 *)

\* The events p will have when the writer at work is through its loop.
Will(p) ==
  IF owner \in Threads /\ ~(fd[p] <= at[owner]) THEN Append(got[p], event[owner])
                                                ELSE got[p]

\* Two sequences of which one is the end of the other.
Agree(s, t) == IsSuffix(s, t) \/ IsSuffix(t, s)

\* All clients will then have heard the same: writeAll holds the mutex over its
\* whole loop (server.hpp: writeAll).
AllAgree == \A p, q \in Peers : Hears(p) /\ Hears(q) => Agree(Will(p), Will(q))

\* Nobody hears anything when the server starts.
LEMMA AgreeInit == Init => AllAgree
  BY DEF Init, AllAgree, Hears

\* A writer takes the mutex, writes to each client once, in the order of their
\* descriptors, and only then leaves it; one that comes later has heard nothing.
LEMMA AgreeNext ==
  ASSUME SInv, AllAgree, [Next]_vars, ~quit PROVE AllAgree'
<1>. USE DEF network, written, session, sending, accepting, ending, set
<1>1. /\ NewInv /\ MutexInv /\ TableInv /\ DescriptorTypes
      /\ got \in [Peers -> Seq(Nat)]
      /\ event \in [Threads -> 0 .. MaxEvents] /\ at \in [Threads -> Fd \cup {0}]
      /\ table \in [Fd -> Peers \cup {File, None}]
      /\ fd \in [Peers -> Fd \cup {0}] /\ \A p \in clients : fd[p] \in Fd /\ fd[p] # 0
      /\ clients \subseteq Peers /\ Peers \subseteq Threads
  BY DEF SInv, TypeOK, NetworkTypes, DescriptorTypes, WriterTypes, Threads
<1>2. /\ File \notin Peers /\ None \notin Peers
      /\ Acceptor \notin Threads /\ Main \notin Threads /\ None \notin Threads
      /\ Fd \subseteq Nat /\ MaxEvents \in Nat
  BY ServerAssumption DEF Threads
<1>3. ASSUME \A p \in Peers : Hears(p)' => Hears(p) /\ Will(p)' = Will(p)
      PROVE  AllAgree'
  BY <1>3 DEF AllAgree
<1>4. ASSUME UNCHANGED <<fd, at, owner>>, UNCHANGED <<got, peer>>,
             owner \in Threads => event'[owner] = event[owner],
             \A n \in Fd : table'[n] \in Peers => table'[n] = table[n],
             clients' \subseteq clients
      PROVE  AllAgree'
  <2>1. \A p \in Peers : Will(p)' = Will(p)
    BY <1>4 DEF Will
  <2>2. \A p \in Peers : Hears(p)' => Hears(p)
    BY <1>1, <1>4 DEF Hears, Source
  <2>. QED
    BY <1>3, <2>1, <2>2
<1>5. ASSUME NEW how, Exit(how) PROVE AllAgree'
  BY <1>4, <1>5 DEF Exit
<1>6. ASSUME owner \notin Threads, owner' \notin Threads, UNCHANGED <<got, peer, fd>>,
             \A n \in Fd : table'[n] \in Peers => table'[n] = table[n],
             clients' \subseteq clients
      PROVE  AllAgree'
  <2>1. \A p \in Peers : Will(p)' = Will(p)
    BY <1>6 DEF Will
  <2>2. \A p \in Peers : Hears(p)' => Hears(p)
    BY <1>1, <1>6 DEF Hears, Source
  <2>. QED
    BY <1>3, <2>1, <2>2
<1>7. ASSUME NEW p \in Peers, Connect(p) PROVE AllAgree'
  <2>1. p \notin clients
    BY <1>1, <1>7 DEF Connect, NewInv, New
  <2>2. /\ peer' = [peer EXCEPT ![p] = "open"]
        /\ UNCHANGED <<fd, at, owner, got, event, table, clients>>
    BY <1>7 DEF Connect, PeersOnly
  <2>3. \A q \in Peers : q # p => peer'[q] = peer[q]
    BY <2>2 DEF SInv, TypeOK, NetworkTypes
  <2>. QED
    BY <1>3, <2>1, <2>2, <2>3 DEF Hears, Source, Will
<1>8. ASSUME NEW p \in Peers, Send(p) \/ Receive(p) PROVE AllAgree'
  BY <1>4, <1>8 DEF Send, Receive, PeersOnly
<1>9. ASSUME NEW p \in Peers, NEW how \in {"closed", "reset"}, HangUp(p, how)
      PROVE  AllAgree'
  <2>1. /\ peer' = [peer EXCEPT ![p] = how] /\ got' = [got EXCEPT ![p] = <<>>]
        /\ UNCHANGED <<fd, at, owner, event, table, clients>>
    BY <1>9 DEF HangUp, PeersOnly
  <2>2. \A q \in Peers : Hears(q)' => q # p /\ Hears(q)
    BY <2>1 DEF Hears, Source, SInv, TypeOK, NetworkTypes
  <2>3. \A q \in Peers : q # p => Will(q)' = Will(q)
    BY <1>1, <2>1 DEF Will
  <2>. QED
    BY <1>3, <2>2, <2>3
<1>10. ASSUME NEW n, NEW what \in {File, None}, table' = [table EXCEPT ![n] = what]
       PROVE  \A m \in Fd : table'[m] \in Peers => table'[m] = table[m]
  BY <1>1, <1>2, <1>10
<1>11. CASE UseFile
  <2>1. UNCHANGED <<fd, at, owner, got, peer, event, clients>>
    BY <1>11 DEF UseFile, PeersOnly
  <2>2. \E n, what : what \in {File, None} /\ table' = [table EXCEPT ![n] = what]
    BY <1>11 DEF UseFile, Open
  <2>. QED
    BY <1>4, <1>10, <2>1, <2>2
<1>12. CASE AccTest \/ AccWouldBlock \/ AccRun
  BY <1>4, <1>12 DEF AccTest, AccWouldBlock, AccRun, AcceptOnly
<1>13. ASSUME NEW p \in Peers, AccAccept(p) PROVE AllAgree'
  <2>. DEFINE n == Min(Free)
  <2>1. /\ p \in backlog /\ fd' = [fd EXCEPT ![p] = n]
        /\ table' = [table EXCEPT ![n] = p]
        /\ UNCHANGED <<clients, peer, got, at, owner, event>>
    BY <1>13 DEF AccAccept, Open, AcceptOnly
  <2>. HIDE DEF n
  <2>2. p \notin clients
    BY <1>1, <2>1 DEF NewInv, New
  <2>3. \A q \in Peers : q # p => fd'[q] = fd[q] /\ Will(q)' = Will(q)
    BY <1>1, <2>1 DEF Will
  <2>4. \A q \in clients : table'[fd[q]] = q => table[fd[q]] = q
    BY <1>1, <2>1, <2>2
  <2>5. \A q \in Peers : Hears(q)' => q # p /\ Hears(q)
    BY <2>1, <2>2, <2>3, <2>4 DEF Hears, Source
  <2>. QED
    BY <1>3, <2>3, <2>5
<1>14. CASE AccLock
  BY <1>2, <1>6, <1>14 DEF AccLock, AcceptOnly
<1>15. CASE AccInsert
  <2>1. CASE \E q \in clients : fd[q] = fd[fresh]
    BY <1>5, <1>15, <2>1 DEF AccInsert
  <2>2. CASE ~\E q \in clients : fd[q] = fd[fresh]
    <3>1. /\ acc = "insert" /\ owner' = None /\ clients' = clients \cup {fresh}
          /\ UNCHANGED <<peer, got, table, fd>>
      BY <1>15, <2>2 DEF AccInsert, AcceptOnly
    <3>2. owner = Acceptor
      BY <1>1, <3>1 DEF MutexInv
    <3>3. \A p \in Peers : Will(p)' = got[p] /\ Will(p) = got[p]
      BY <1>2, <3>1, <3>2 DEF Will
    <3>4. \A p \in Peers : Hears(p)' => Hears(p) \/ got[p] = <<>>
      BY <1>1, <3>1 DEF Hears, Source, NewInv, New
    <3>5. \A p, q \in Peers :
            got[p] = <<>> => Agree(got[p], got[q]) /\ Agree(got[q], got[p])
      BY <1>1, SuffixBasics DEF Agree
    <3>. QED
      BY <3>3, <3>4, <3>5 DEF AllAgree
  <2>. QED
    BY <2>1, <2>2
<1>16. CASE AcceptStep \/ AccLock
  BY <1>5, <1>12, <1>13, <1>14, <1>15, <1>16 DEF AcceptStep, AccFails, AccRunDestroyed
<1>17. ASSUME NEW p \in Peers, Erased(p) PROVE AllAgree'
  BY <1>4, <1>10, <1>17 DEF Erased, ClientOnly
<1>18. ASSUME NEW t \in Threads, pc[t] # "write", NEW e,
              event' = [event EXCEPT ![t] = e]
       PROVE  owner \in Threads => event'[owner] = event[owner]
  BY <1>1, <1>18 DEF MutexInv
<1>19. ASSUME NEW p \in Peers, Command(p) PROVE AllAgree'
  <2>1. /\ UNCHANGED <<fd, at, owner, got, peer, table, clients>>
        /\ pc[p] = "find"
        /\ \/ UNCHANGED event
           \/ event' = [event EXCEPT ![p] = events + 1]
    BY <1>19 DEF Command, ClientOnly
  <2>. QED
    BY <1>1, <1>4, <1>18, <2>1
<1>20. ASSUME NEW p \in Peers,
              ClientStep(p) \/ ReadClosed(p) \/ UseDestroyed(p)
       PROVE  AllAgree'
  BY <1>4, <1>5, <1>17, <1>19, <1>20
     DEF ClientStep, Read, ReadEnd, ReadError, Reply, Erase, ReadClosed, UseDestroyed,
         ClientOnly
<1>21. ASSUME NEW t \in Threads, Announce(t) PROVE AllAgree'
  <2>1. /\ UNCHANGED <<fd, at, owner, got, peer, table, clients>>
        /\ pc[t] = "idle" /\ event' = [event EXCEPT ![t] = events + 1]
    BY <1>21 DEF Announce, WriterOnly
  <2>. QED
    BY <1>4, <1>18, <2>1
<1>22. \A p \in Peers : got[p] \in Seq(Nat)
  BY <1>1
<1>23. ASSUME NEW t \in Threads, WriteLock(t) PROVE AllAgree'
  <2>1. /\ pc[t] = "lock" /\ owner = None /\ owner' = t
        /\ UNCHANGED <<fd, at, got, event, peer, table, clients>>
    BY <1>23 DEF WriteLock, WriterOnly
  <2>2. at[t] = 0
    BY <1>1, <2>1 DEF MutexInv
  <2>3. event[t] \in Nat
    BY <1>1, <1>2
  <2>4. \A p \in clients : ~(fd[p] <= 0)
    <3>1. \A p \in clients : fd[p] \in Nat /\ fd[p] # 0
      BY <1>1, <1>2
    <3>. QED
      BY <3>1
  <2>5. \A p \in Peers : Hears(p)' => Hears(p) /\ Will(p)' = Append(got[p], event[t])
    BY <2>1, <2>2, <2>4 DEF Hears, Source, Will
  <2>6. \A p \in Peers : Will(p) = got[p]
    BY <1>2, <2>1 DEF Will
  <2>7. ASSUME NEW p \in Peers, NEW q \in Peers, IsSuffix(got[p], got[q])
        PROVE  IsSuffix(Append(got[p], event[t]), Append(got[q], event[t]))
    BY <1>22, <2>3, <2>7, SuffixAppend
  <2>. QED
    BY <2>5, <2>6, <2>7 DEF AllAgree, Agree
<1>24. ASSUME NEW t \in Threads, WriteNext(t) PROVE AllAgree'
  <2>. DEFINE n == Min(Rest(t))
  <2>1. /\ pc[t] = "write" /\ Rest(t) # {}
        /\ at' = [at EXCEPT ![t] = n]
        /\ got' = [q \in Peers |-> IF q \in Written(n) THEN Append(got[q], event[t])
                                                       ELSE got[q]]
        /\ UNCHANGED <<fd, event, owner, peer, table, clients>>
    BY <1>24 DEF WriteNext, WriterOnly
  <2>2. owner = t
    BY <1>1, <2>1 DEF MutexInv
  <2>3. /\ n \in Fd /\ n \in Rest(t)
        /\ \A q \in clients : fd[q] \in Rest(t) => n <= fd[q]
    BY <1>1, <2>1, NextClient
  <2>. HIDE DEF n
  <2>4. n \in Nat /\ at[t] \in Nat /\ at[t] < n /\ at'[t] = n
    <3>1. n \in Nat /\ n \notin 0 .. at[t]
      BY <1>2, <2>3 DEF Rest
    <3>2. at[t] \in Nat
      <4>1. at[t] \in Fd \cup {0}
        BY <1>1
      <4>2. \A m \in Fd : m \in Nat
        BY <1>2
      <4>. QED
        BY ONLY <4>1, <4>2
    <3>3. at'[t] = n
      BY <1>1, <2>1
    <3>. QED
      BY <3>1, <3>2, <3>3
  <2>5. ASSUME NEW p \in Peers, Hears(p)'
        PROVE  Hears(p) /\ Will(p)' = Will(p)
    <3>1. /\ p \in clients /\ peer[p] = "open" /\ table[fd[p]] = p
          /\ fd[p] \in Fd /\ fd[p] \in Nat
      BY <1>1, <1>2, <2>1, <2>5 DEF Hears, Source
    <3>2. p \in Written(n) <=> fd[p] = n
      BY <1>1, <2>3, <3>1 DEF Written, TableInv
    <3>3. Hears(p)
      BY <3>1 DEF Hears, Source
    <3>4. CASE fd[p] = n
      BY <2>1, <2>2, <2>4, <3>2, <3>3, <3>4 DEF Will
    <3>5. CASE fd[p] # n
      <4>1. got'[p] = got[p]
        BY <2>1, <3>2, <3>5
      <4>2. fd[p] <= at[t] <=> fd[p] <= n
        <5>1. CASE fd[p] <= at[t]
          BY <2>4, <3>1, <5>1
        <5>2. CASE ~(fd[p] <= at[t])
          <6>1. fd[p] \in Rest(t)
            BY <2>4, <3>1, <5>2 DEF Rest
          <6>. QED
            BY <2>3, <2>4, <3>1, <3>5, <5>2, <6>1
        <5>. QED
          BY <5>1, <5>2
      <4>. QED
        BY <2>1, <2>2, <2>4, <3>3, <4>1, <4>2 DEF Will
    <3>. QED
      BY <3>4, <3>5
  <2>. QED
    BY <1>3, <2>5
<1>25. ASSUME NEW t \in Threads, WriteEnd(t) PROVE AllAgree'
  <2>1. /\ pc[t] = "write" /\ Rest(t) = {} /\ owner' = None
        /\ UNCHANGED <<fd, got, peer, table, clients>>
    BY <1>25 DEF WriteEnd, WriterOnly
  <2>2. owner = t
    BY <1>1, <2>1 DEF MutexInv
  <2>3. \A p \in clients : fd[p] <= at[t]
    BY <1>1, <1>2, <2>1 DEF Rest
  <2>4. \A p \in Peers : Hears(p)' => Hears(p) /\ Will(p)' = Will(p)
    BY <1>2, <2>1, <2>2, <2>3 DEF Hears, Source, Will
  <2>. QED
    BY <1>3, <2>4
<1>26. CASE Signal \/ Wake \/ Save \/ SaveThrows \/ CloseListening \/ Join \/ Unwind
  BY <1>4, <1>26 DEF Signal, Wake, Save, SaveThrows, CloseListening, Join, Unwind,
     Return, MainOnly
<1>27. CASE Disconnect
  BY <1>2, <1>6, <1>27 DEF Disconnect, MainOnly
<1>28. CloseAll => \A n \in Fd : table'[n] \in Peers => table'[n] = table[n]
  BY <1>2 DEF CloseAll
<1>29. CASE CloseClients
  BY <1>4, <1>28, <1>29 DEF CloseClients, MainOnly
<1>30. CASE Clear
  <2>1. main = "clear" /\ owner' = None
    BY <1>30 DEF Clear, MainGoto
  <2>2. owner = Main
    BY <1>1, <2>1 DEF MutexInv
  <2>. QED
    BY <1>2, <1>6, <1>28, <1>30, <2>2 DEF Clear, MainOnly
<1>31. ~Interrupted
  BY DEF Interrupted, ReadInterrupted, WriteInterrupted
<1>32. CASE UNCHANGED vars
  BY <1>4, <1>32 DEF vars
<1>. QED
  BY <1>7, <1>8, <1>9, <1>11, <1>16, <1>20, <1>21, <1>23, <1>24, <1>25, <1>26, <1>27,
     <1>29, <1>30, <1>31, <1>32
     DEF Next, External, WriteStep, MainStep

\* A signal that has come stays, and lets writes be interrupted.
AgreeInv == quit \/ AllAgree

LEMMA QuitStays == ASSUME quit, [Next]_vars PROVE quit'
<1>. USE DEF network, written, session, sending, accepting, ending, set
<1>1. ASSUME NEW how, Exit(how) PROVE quit'
  BY <1>1 DEF Exit
<1>2. PeersOnly \/ AcceptOnly \/ ClientOnly \/ WriterOnly => quit'
  BY DEF PeersOnly, AcceptOnly, ClientOnly, WriterOnly
<1>3. CASE AcceptStep \/ AccLock
  BY <1>1, <1>2, <1>3
     DEF AcceptStep, AccTest, AccAccept, AccWouldBlock, AccFails, AccLock, AccInsert,
         AccRun, AccRunDestroyed
<1>4. ASSUME NEW p \in Peers,
             ClientStep(p) \/ ReadClosed(p) \/ UseDestroyed(p)
      PROVE  quit'
  BY <1>1, <1>2, <1>4
     DEF ClientStep, Read, ReadEnd, ReadError, Command, Reply, Erase, Erased,
         ReadClosed, UseDestroyed
<1>5. ASSUME NEW t \in Threads, Announce(t) \/ WriteLock(t) \/ WriteStep(t)
      PROVE  quit'
  BY <1>2, <1>5 DEF Announce, WriteLock, WriteStep, WriteNext, WriteEnd
<1>6. ASSUME NEW p \in Peers, External(p) PROVE quit'
  BY <1>2, <1>6 DEF External, Connect, Send, Receive, HangUp
<1>7. CASE UseFile
  BY <1>2, <1>7 DEF UseFile
<1>8. CASE Interrupted
  BY <1>1, <1>2, <1>8 DEF Interrupted, ReadInterrupted, WriteInterrupted
<1>9. CASE Signal \/ Wake \/ MainStep \/ Disconnect
  BY <1>9 DEF Signal, Wake, MainStep, Disconnect, Save, SaveThrows, CloseClients,
     CloseListening, Clear, Join, Unwind, Return
<1>10. CASE UNCHANGED vars
  BY <1>10 DEF vars
<1>. QED
  BY <1>3, <1>4, <1>5, <1>6, <1>7, <1>8, <1>9, <1>10 DEF Next

\* All clients hear the same events in the same order, whichever threads send
\* them: one that came later only lacks the first ones, until a signal comes,
\* which may interrupt a write (server.hpp: writeAll).
THEOREM EventsAgreed == Spec => []EventsAgree
<1>1. AgreeInv => EventsAgree
  <2>. SUFFICES ASSUME AgreeInv, owner = None, ~quit,
                       NEW p \in Peers, NEW q \in Peers, Hears(p), Hears(q)
                PROVE  IsSuffix(got[p], got[q]) \/ IsSuffix(got[q], got[p])
    BY DEF EventsAgree
  <2>1. None \notin Threads
    BY ServerAssumption
  <2>2. Will(p) = got[p] /\ Will(q) = got[q]
    BY <2>1 DEF Will
  <2>. QED
    BY <2>2 DEF AgreeInv, AllAgree, Agree
<1>2. Init => AgreeInv
  BY AgreeInit DEF AgreeInv
<1>3. SInv /\ AgreeInv /\ [Next]_vars => AgreeInv'
  BY AgreeNext, QuitStays DEF AgreeInv
<1>. QED
  BY <1>1, <1>2, <1>3, SInvHolds, PTL DEF Spec

-----------------------------------------------------------------------------
(* Commands.                                                               *)

\* The commands of p as they were sent: each with its delimiter.
Lines(p) == [i \in DOMAIN done[p] |-> Append(done[p][i], NL)]

\* All that p ever sent or will send, unless it resets.
Stream(p) == FlattenSeq(Lines(p)) \o data[p] \o inbox[p] \o tosend[p]

\* No command has a delimiter in it; early, nothing of the stream is lost,
\* doubled or moved (client.cpp: readUntil; main.cpp: applyFunction).
LinesInv ==
  /\ \A p \in Peers : \A i \in DOMAIN done[p] : \A j \in DOMAIN done[p][i] :
       done[p][i][j] # NL
  /\ Early => \A p \in Peers : peer[p] # "reset" => Stream(p) = Script[p]

\* At the start all is still to be sent.
LEMMA LinesInit == Init => LinesInv
<1>. SUFFICES ASSUME Init PROVE LinesInv
  OBVIOUS
<1>1. ASSUME NEW p \in Peers
      PROVE  /\ done[p] = <<>> /\ data[p] = <<>> /\ inbox[p] = <<>>
             /\ tosend[p] = Script[p]
  BY <1>1 DEF Init
<1>2. ASSUME NEW p \in Peers PROVE Stream(p) = Script[p]
  <2>1. Lines(p) = <<>>
    BY <1>1 DEF Lines
  <2>2. FlattenSeq(<<>>) = <<>>
    BY DEF FlattenSeq
  <2>3. Script[p] \in Seq(Nat) /\ <<>> \in Seq(Nat)
    BY ServerAssumption, EmptySeq
  <2>4. <<>> \o <<>> = <<>> /\ <<>> \o Script[p] = Script[p]
    BY <2>3, ConcatEmptySeq
  <2>. QED
    BY <1>1, <2>1, <2>2, <2>4 DEF Stream
<1>3. \A p \in Peers : DOMAIN done[p] = {}
  BY <1>1
<1>. QED
  BY <1>2, <1>3 DEF LinesInv

\* The parts of a stream are sequences of characters.
LEMMA StreamTypes ==
  ASSUME NetworkTypes, NEW p \in Peers
  PROVE  /\ Lines(p) \in Seq(Seq(Nat)) /\ Len(Lines(p)) = Len(done[p])
         /\ FlattenSeq(Lines(p)) \in Seq(Nat)
         /\ {data[p], inbox[p], tosend[p]} \subseteq Seq(Nat)
<1>. DEFINE d == done[p]
            l == Lines(p)
<1>1. d \in Seq(Seq(Nat)) /\ NL \in Nat
  BY ServerAssumption DEF NetworkTypes
<1>2. l = [i \in DOMAIN d |-> Append(d[i], NL)]
  BY DEF Lines
<1>. HIDE DEF d, l
<1>3. DOMAIN d = 1..Len(d) /\ Len(d) \in Nat
  BY <1>1
<1>4. \A i \in 1..Len(d) : Append(d[i], NL) \in Seq(Nat)
  BY <1>1, ElementOfSeq, AppendProperties
<1>5. l \in Seq(Seq(Nat)) /\ Len(l) = Len(d)
  BY <1>2, <1>3, <1>4
<1>6. FlattenSeq(l) \in Seq(Nat)
  <2>1. <<>> \in Seq(Nat)
    BY EmptySeq
  <2>. QED
    BY <1>5, <2>1, FlattenAppend
<1>7. {data[p], inbox[p], tosend[p]} \subseteq Seq(Nat)
  BY DEF NetworkTypes
<1>. QED
  BY <1>5, <1>6, <1>7 DEF d, l

\* Sending moves a character from what is to be sent to what has arrived.
LEMMA SendKeeps ==
  ASSUME NetworkTypes, NEW p \in Peers, Send(p)
  PROVE  \A q \in Peers : Stream(q)' = Stream(q)
<1>. DEFINE c == inbox[p]
            d == tosend[p]
            x == FlattenSeq(Lines(p)) \o data[p]
<1>1. /\ c \in Seq(Nat) /\ d \in Seq(Nat) /\ d # <<>> /\ x \in Seq(Nat)
  BY StreamTypes, ConcatProperties DEF Send
<1>2. /\ inbox' = [inbox EXCEPT ![p] = Append(c, Head(d))]
      /\ tosend' = [tosend EXCEPT ![p] = Tail(d)]
      /\ UNCHANGED <<done, data>>
  BY DEF Send, PeersOnly, session
<1>3. DOMAIN inbox = Peers /\ DOMAIN tosend = Peers
  BY DEF NetworkTypes
<1>4. \A q \in Peers : Lines(q)' = Lines(q)
  BY <1>2 DEF Lines
<1>5. ASSUME NEW q \in Peers, q # p PROVE Stream(q)' = Stream(q)
  BY <1>2, <1>3, <1>4, <1>5 DEF Stream
<1>6. Stream(p)' = (x \o Append(c, Head(d))) \o Tail(d)
  BY <1>2, <1>3, <1>4 DEF Stream
<1>7. Stream(p) = (x \o c) \o d
  BY DEF Stream
<1>. HIDE DEF c, d, x
<1>8. Append(c, Head(d)) \in Seq(Nat) /\ Tail(d) \in Seq(Nat)
  BY <1>1, HeadTailProperties, AppendProperties
<1>9. (x \o Append(c, Head(d))) \o Tail(d) = x \o (Append(c, Head(d)) \o Tail(d))
  <2>. DEFINE u == Append(c, Head(d))
              v == Tail(d)
  <2>1. u \in Seq(Nat) /\ v \in Seq(Nat)
    BY <1>8
  <2>. HIDE DEF u, v
  <2>2. (x \o u) \o v = x \o (u \o v)
    BY ONLY <1>1, <2>1
  <2>. QED
    BY <2>2 DEF u, v
<1>10. (x \o c) \o d = x \o (c \o d)
  BY ONLY <1>1
<1>11. Append(c, Head(d)) \o Tail(d) = c \o d
  BY <1>1, HeadMoves
<1>. QED
  BY <1>5, <1>6, <1>7, <1>9, <1>10, <1>11

\* Reading moves what has arrived to the data of the client.
LEMMA ReadKeeps ==
  ASSUME NetworkTypes, NEW p \in Peers, Read(p), Source(p) = p
  PROVE  \A q \in Peers : Stream(q)' = Stream(q)
<1>. DEFINE a == FlattenSeq(Lines(p))
            b == data[p]
            c == inbox[p]
            d == tosend[p]
<1>1. a \in Seq(Nat) /\ b \in Seq(Nat) /\ c \in Seq(Nat) /\ d \in Seq(Nat)
  BY StreamTypes
<1>2. /\ data' = [data EXCEPT ![p] = b \o c] /\ inbox' = [inbox EXCEPT ![p] = <<>>]
      /\ UNCHANGED <<done, tosend>>
  BY DEF Read, ClientOnly
<1>3. DOMAIN inbox = Peers /\ DOMAIN data = Peers
  BY DEF NetworkTypes
<1>4. \A q \in Peers : Lines(q)' = Lines(q)
  BY <1>2 DEF Lines
<1>5. ASSUME NEW q \in Peers, q # p PROVE Stream(q)' = Stream(q)
  BY <1>2, <1>3, <1>4, <1>5 DEF Stream
<1>6. Stream(p)' = ((a \o (b \o c)) \o <<>>) \o d
  BY <1>2, <1>3, <1>4 DEF Stream
<1>7. Stream(p) = ((a \o b) \o c) \o d
  BY DEF Stream
<1>. HIDE DEF a, b, c, d
<1>8. a \o (b \o c) = (a \o b) \o c
  BY ONLY <1>1
<1>9. a \o (b \o c) \in Seq(Nat)
  BY <1>1, ConcatProperties
<1>10. (a \o (b \o c)) \o <<>> = a \o (b \o c)
  BY <1>9, ConcatEmptySeq
<1>. QED
  BY <1>5, <1>6, <1>7, <1>8, <1>10

\* A command is the first line of the data, which keeps the rest.
LEMMA CommandKeeps ==
  ASSUME NetworkTypes, NEW p \in Peers, Command(p)
  PROVE  /\ \A q \in Peers : Stream(q)' = Stream(q)
         /\ \A q \in Peers : q # p => done'[q] = done[q]
         /\ \E line \in Seq(Nat) : /\ done'[p] = Append(done[p], line)
                                   /\ \A j \in DOMAIN line : line[j] # NL
<1>. DEFINE line == SubSeq(data[p], 1, LineEnd(p) - 1)
            rest == SubSeq(data[p], LineEnd(p) + 1, Len(data[p]))
            e == Append(line, NL)
            a == FlattenSeq(Lines(p))
            x == inbox[p]
            y == tosend[p]
<1>1. /\ line \in Seq(Nat) /\ rest \in Seq(Nat) /\ data[p] = e \o rest
      /\ \A j \in DOMAIN line : line[j] # NL
  BY LineIsTaken DEF Command
<1>2. /\ done' = [done EXCEPT ![p] = Append(done[p], line)]
      /\ data' = [data EXCEPT ![p] = rest]
      /\ UNCHANGED <<inbox, tosend>>
  BY DEF Command, ClientOnly
<1>. HIDE DEF line, rest
<1>3. /\ DOMAIN done = Peers /\ DOMAIN data = Peers
      /\ done[p] \in Seq(Seq(Nat)) /\ NL \in Nat
  BY ServerAssumption DEF NetworkTypes
<1>4. done'[p] = Append(done[p], line) /\ data'[p] = rest
  BY <1>2, <1>3
<1>5. \A q \in Peers : q # p => done'[q] = done[q] /\ data'[q] = data[q]
  BY <1>2, <1>3
<1>6. ASSUME NEW q \in Peers, q # p PROVE Stream(q)' = Stream(q)
  <2>1. done'[q] = done[q] /\ data'[q] = data[q]
    BY <1>5, <1>6
  <2>2. inbox' = inbox /\ tosend' = tosend
    BY <1>2
  <2>3. Lines(q)' = Lines(q)
    BY <2>1 DEF Lines
  <2>. QED
    BY <2>1, <2>2, <2>3 DEF Stream
<1>7. Lines(p)' = Append(Lines(p), e)
  <2>. DEFINE s == done[p]
              l == Lines(p)
              k == [i \in DOMAIN Append(s, line) |-> Append(Append(s, line)[i], NL)]
  <2>1. Lines(p)' = k
    BY <1>4 DEF Lines
  <2>2. /\ s \in Seq(Seq(Nat)) /\ Len(s) \in Nat
        /\ l \in Seq(Seq(Nat)) /\ Len(l) = Len(s) /\ e \in Seq(Nat)
    BY <1>1, <1>3, StreamTypes, AppendProperties
  <2>3. DOMAIN s = 1..Len(s) /\ DOMAIN l = 1..Len(s)
    BY <2>2
  <2>4. \A i \in 1..Len(s) : l[i] = Append(s[i], NL)
    BY <2>3 DEF Lines
  <2>. HIDE DEF s, l, e
  <2>5. /\ Append(s, line) \in Seq(Seq(Nat))
        /\ DOMAIN Append(s, line) = 1..Len(s)+1
        /\ \A i \in 1..Len(s) : Append(s, line)[i] = s[i]
        /\ Append(s, line)[Len(s) + 1] = line
    BY <1>1, <2>2, AppendProperties
  <2>6. /\ Append(l, e) \in Seq(Seq(Nat)) /\ Len(Append(l, e)) = Len(s) + 1
        /\ DOMAIN Append(l, e) = 1..Len(s)+1
        /\ \A i \in 1..Len(s) : Append(l, e)[i] = l[i]
        /\ Append(l, e)[Len(s) + 1] = e
    <3>. DEFINE r == Append(l, e)
    <3>1. /\ r \in Seq(Seq(Nat)) /\ Len(r) = Len(l) + 1
          /\ \A i \in 1..Len(l) : r[i] = l[i]
          /\ r[Len(l) + 1] = e
      BY <2>2
    <3>. HIDE DEF r
    <3>2. DOMAIN r = 1..Len(r)
      BY <3>1
    <3>. QED
      BY <2>2, <3>1, <3>2 DEF r
  <2>7. ASSUME NEW i \in 1..Len(s)+1
        PROVE  Append(Append(s, line)[i], NL) = Append(l, e)[i]
    <3>1. i \in 1..Len(s) \/ i = Len(s) + 1
      BY <2>2
    <3>2. CASE i \in 1..Len(s)
      BY <2>4, <2>5, <2>6, <3>2
    <3>3. CASE i = Len(s) + 1
      BY <2>5, <2>6, <3>3 DEF e
    <3>. QED
      BY <3>1, <3>2, <3>3
  <2>8. Append(l, e) = [i \in 1..Len(s)+1 |-> Append(l, e)[i]]
    <3>. DEFINE r == Append(l, e)
    <3>1. r \in Seq(Seq(Nat)) /\ DOMAIN r = 1..Len(s)+1
      BY <2>6
    <3>. HIDE DEF r
    <3>2. r = [i \in DOMAIN r |-> r[i]]
      BY <3>1
    <3>. QED
      BY <3>1, <3>2 DEF r
  <2>. QED
    BY <2>1, <2>5, <2>7, <2>8 DEF s, l
<1>8. /\ a \in Seq(Nat) /\ e \in Seq(Nat) /\ x \in Seq(Nat) /\ y \in Seq(Nat)
      /\ FlattenSeq(Append(Lines(p), e)) = a \o e
  <2>1. e \in Seq(Nat)
    BY <1>1, <1>3, AppendProperties
  <2>. HIDE DEF e
  <2>. QED
    BY <2>1, StreamTypes, FlattenAppend
<1>9. Stream(p)' = (((a \o e) \o rest) \o x) \o y
  BY <1>2, <1>4, <1>7, <1>8 DEF Stream
<1>10. Stream(p) = ((a \o (e \o rest)) \o x) \o y
  BY <1>1 DEF Stream
<1>. HIDE DEF a, e, x, y
<1>11. (a \o e) \o rest = a \o (e \o rest)
  <2>1. a \in Seq(Nat) /\ e \in Seq(Nat) /\ rest \in Seq(Nat)
    BY <1>1, <1>8
  <2>. QED
    BY ONLY <2>1
<1>12. \A q \in Peers : Stream(q)' = Stream(q)
  BY <1>6, <1>9, <1>10, <1>11
<1>. QED
  BY <1>1, <1>4, <1>5, <1>12

\* No step before disconnect() loses, doubles or moves a character.
LEMMA LinesNext ==
  ASSUME SInv, LinesInv, [Next]_vars PROVE LinesInv'
<1>. USE DEF network, written, session, sending, accepting, ending, set
<1>1. NetworkTypes
  BY DEF SInv, TypeOK
<1>2. ASSUME UNCHANGED done, Early' => Early,
             Early => \A p \in Peers :
               peer'[p] # "reset" => peer[p] # "reset" /\ Stream(p)' = Stream(p)
      PROVE  LinesInv'
  BY <1>2 DEF LinesInv
<1>3. ASSUME UNCHANGED <<done, data, inbox, tosend, peer>>, Early' => Early
      PROVE  LinesInv'
  BY <1>2, <1>3 DEF Stream, Lines
<1>4. ASSUME NEW how, Exit(how) PROVE LinesInv'
  BY <1>3, <1>4 DEF Exit, Early
<1>5. ASSUME NEW p \in Peers, Connect(p) PROVE LinesInv'
  <2>1. /\ peer[p] = "away" /\ peer' = [peer EXCEPT ![p] = "open"]
        /\ UNCHANGED <<done, data, inbox, tosend, main>>
    BY <1>5 DEF Connect, PeersOnly
  <2>2. \A q \in Peers : peer'[q] # "reset" => peer[q] # "reset"
    BY <1>1, <2>1 DEF NetworkTypes
  <2>. QED
    BY <1>2, <2>1, <2>2 DEF Stream, Lines, Early
<1>6. ASSUME NEW p \in Peers, Send(p) PROVE LinesInv'
  <2>1. UNCHANGED <<done, peer, main>>
    BY <1>6 DEF Send, PeersOnly
  <2>. QED
    BY <1>1, <1>2, <1>6, <2>1, SendKeeps DEF Early
<1>7. ASSUME NEW p \in Peers, Receive(p) PROVE LinesInv'
  BY <1>3, <1>7 DEF Receive, PeersOnly, Early
<1>8. ASSUME NEW p \in Peers, NEW how \in {"closed", "reset"}, HangUp(p, how)
      PROVE  LinesInv'
  <2>1. /\ peer[p] \in {"open", "closed"} /\ peer' = [peer EXCEPT ![p] = how]
        /\ inbox' = IF how = "reset" THEN [inbox EXCEPT ![p] = <<>>] ELSE inbox
        /\ UNCHANGED <<done, data, tosend, main>>
    BY <1>8 DEF HangUp, PeersOnly
  <2>2. ASSUME NEW q \in Peers, peer'[q] # "reset"
        PROVE  peer[q] # "reset" /\ inbox'[q] = inbox[q]
    BY <1>1, <2>1, <2>2 DEF NetworkTypes
  <2>3. \A q \in Peers : peer'[q] # "reset" => Stream(q)' = Stream(q)
    BY <2>1, <2>2 DEF Stream, Lines
  <2>. QED
    BY <1>2, <2>1, <2>2, <2>3 DEF Early
<1>9. ASSUME NEW p \in Peers, Read(p) PROVE LinesInv'
  <2>1. UNCHANGED <<done, peer, main>> /\ p \in clients
    BY <1>9 DEF Read, ClientOnly
  <2>2. Early => Source(p) = p
    BY <2>1 DEF SInv, OwnedInv, Source
  <2>3. Early => \A q \in Peers : Stream(q)' = Stream(q)
    BY <1>1, <1>9, <2>2, ReadKeeps
  <2>. QED
    BY <1>2, <2>1, <2>3 DEF Early
<1>10. ASSUME NEW p \in Peers, Command(p) PROVE LinesInv'
  <2>1. UNCHANGED <<peer, main>>
    BY <1>10 DEF Command, ClientOnly
  <2>2. \A q \in Peers : Stream(q)' = Stream(q) /\ (q # p => done'[q] = done[q])
    BY <1>1, <1>10, CommandKeeps
  <2>3. PICK line \in Seq(Nat) : /\ done'[p] = Append(done[p], line)
                                 /\ \A j \in DOMAIN line : line[j] # NL
    BY <1>1, <1>10, CommandKeeps
  <2>. DEFINE s == done[p]
  <2>4. s \in Seq(Seq(Nat))
    BY <1>1 DEF NetworkTypes
  <2>5. \A i \in DOMAIN s : \A j \in DOMAIN s[i] : s[i][j] # NL
    BY DEF LinesInv
  <2>6. done'[p] = Append(s, line)
    BY <2>3
  <2>. HIDE DEF s
  <2>7. \A i \in DOMAIN Append(s, line) : \A j \in DOMAIN Append(s, line)[i] :
          Append(s, line)[i][j] # NL
    <3>1. /\ Len(s) \in Nat /\ DOMAIN s = 1..Len(s)
          /\ DOMAIN Append(s, line) = 1..Len(s)+1
          /\ \A i \in 1..Len(s) : Append(s, line)[i] = s[i]
          /\ Append(s, line)[Len(s) + 1] = line
      BY <2>4, AppendProperties
    <3>2. \A i \in 1..Len(s)+1 : i \in 1..Len(s) \/ i = Len(s) + 1
      BY <3>1
    <3>. QED
      BY <2>3, <2>5, <3>1, <3>2
  <2>8. \A q \in Peers : \A i \in DOMAIN done'[q] : \A j \in DOMAIN done'[q][i] :
          done'[q][i][j] # NL
    <3>1. ASSUME NEW q \in Peers, q # p
          PROVE  \A i \in DOMAIN done'[q] : \A j \in DOMAIN done'[q][i] :
                   done'[q][i][j] # NL
      BY <2>2, <3>1 DEF LinesInv
    <3>. QED
      BY <2>6, <2>7, <3>1
  <2>. QED
    BY <2>1, <2>2, <2>8 DEF LinesInv, Early
<1>11. ASSUME NEW p \in Peers,
              ClientStep(p) \/ ReadClosed(p) \/ UseDestroyed(p)
       PROVE  LinesInv'
  BY <1>3, <1>4, <1>9, <1>10, <1>11
     DEF ClientStep, ReadEnd, ReadError, Reply, Erase, Erased, ReadClosed,
         UseDestroyed,
         ClientOnly, Early
<1>12. ASSUME NEW t \in Threads, Announce(t) \/ WriteLock(t) \/ WriteStep(t)
       PROVE  LinesInv'
  BY <1>3, <1>12
     DEF Announce, WriteLock, WriteStep, WriteNext, WriteEnd, WriterOnly, Early
<1>13. CASE AcceptStep \/ AccLock
  BY <1>3, <1>4, <1>13
     DEF AcceptStep, AccTest, AccAccept, AccWouldBlock, AccFails, AccLock, AccInsert,
         AccRun, AccRunDestroyed, AcceptOnly, Early
<1>14. CASE UseFile
  BY <1>3, <1>14 DEF UseFile, PeersOnly, Early
<1>15. CASE Signal \/ Wake \/ MainStep \/ Disconnect
  BY <1>3, <1>15
     DEF Signal, Wake, MainStep, Disconnect, Save, SaveThrows, CloseClients,
         CloseListening, Clear,
         Join, Unwind, Return, MainGoto, MainOnly, Early
<1>16. CASE UNCHANGED vars
  BY <1>3, <1>16 DEF vars, Early
<1>17. CASE Interrupted
  BY <1>3, <1>4, <1>17
     DEF Interrupted, ReadInterrupted, WriteInterrupted, WriterOnly, Early
<1>. QED
  BY <1>5, <1>6, <1>7, <1>8, <1>11, <1>12, <1>13, <1>14, <1>15, <1>16, <1>17
     DEF Next, External

\* The commands that are run are the lines the peer sent, in order and whole,
\* however read() cuts the stream, as long as the server is not disconnected
\* (client.cpp: readUntil; main.cpp: applyFunction).
THEOREM CommandsAreTheLines == Spec => []CommandsAsSent
<1>1. LinesInv => CommandsAsSent
  <2>. SUFFICES ASSUME LinesInv, Early,
                       NEW p \in Peers
                PROVE  /\ \A i \in DOMAIN done[p], j \in 1 .. Len(Script[p]) :
                            j \in DOMAIN done[p][i] => done[p][i][j] # NL
                       /\ peer[p] # "reset" => Stream(p) = Script[p]
    BY DEF CommandsAsSent, Stream, Lines
  <2>. QED
    BY DEF LinesInv
<1>2. Init => LinesInv
  BY LinesInit
<1>3. SInv /\ LinesInv /\ [Next]_vars => LinesInv'
  BY LinesNext
<1>. QED
  BY <1>1, <1>2, <1>3, SInvHolds, PTL DEF Spec
=============================================================================
