# musicbotd: models and proofs

musicbotd is a daemon that plays music for many users: TCP clients put musics
into one play queue, libmpv plays them. This directory holds TLA+ models of its
parts, the TLC instances that check them and TLAPS proofs about them. Paths
below are relative to the repository; file names without a directory are those
of `src/` and `lib/net/`.

## The system

### Components

| component | state | operations | threads and calls | what makes it correct | model |
|---|---|---|---|---|---|
| **play queue**, `player.cpp` | `_playlist`, `_plv` (the view of the last `list`), `_subscribers`, `_isPlaying`, `_started`, `_mutex`, `_subscribersMutex`, `_playMutex`, `_cv` | add, addRandom, remove(index), remove(id), clear, list, next, subscribe, unsubscribe, start, stop, run, asyncPlayNext, processSubscriptions | every client thread; the mpv event thread; detached playlist threads; calls back into parsers and the event handler | order, no music lost or played twice, none cut, no lost wakeup, the views designate what they should, refills end | `Player`, `Jukebox`, `PlayerProofs`, `PlayerRefinement` |
| **archives**, `archive.cpp` | `_musics`, `_mv` (the musics random has still to draw), `_changed`, `_started`; the file | add, remove, random, search, flush, load, destructor | clients and playlist threads; one synchronisation thread per archive | what is added reaches the file; a draw is a music of the archive and comes once per round; a crash loses a bounded amount | `Archive`, `ArchiveProofs` |
| **servers**, `server.hpp`, `server.cpp`, `client.hpp`, `client.cpp` | `_clients`, `_clientListMutex`, descriptors, a buffer per client | connect, accept, asyncAcceptLoop, writeAll, disconnect, readUntil | an accept thread, one thread per client, writers of events | every client hears the same events in the same order, commands are the lines that were sent, descriptors are not confused, a client that left is removed | `Server`, `ServerProofs` |
| **daemon**, `main.cpp` | `signalReceived`, the save file | start, restore, listen, wait, save, stop | signal handler, main thread, the threads that live and die with the player | ends on a signal, after it saved what was queued; destroys in order; the next process finds what the last one left | `Daemon`, `DaemonProofs`; the shutdown of a server in `Server`, volume and pause of the saved state in `Controls` |
| **named playlists**, `archivemgr.cpp` | `_archives`, `_stashedArchives`, reference counts | load, unload, list | parsers, on `pl`, `plquit` and destruction | one archive object per file; the stash is bounded | `ArchiveMgr`, `ArchiveMgrProofs` |
| **player controls**, `player.cpp` | volume, `_pause`, position, filter in mpv; the saved state | incrVolume, setPause, togglePause, move, normalize, speak, `<<`, `>>` | clients, asynchronous calls of mpv | no lost update, pause state restored, save and restore are inverse | `Controls`, `ControlsProofs` |
| **parsers**, `cmdparserbase.hpp`, `cmdparser.cpp`, `cmdparserapi.cpp` | `_archive` (named playlist), `_auth` | one per command | one parser per connection; its destructor unsubscribes and unloads | see the components the commands call | the commands of the queue in `Player`, of named playlists in `ArchiveMgr`, pause, volume and announcements in `Controls` |
| title lookup, tokens, `WebMusic`, Any, Optional, logging, JSON, `BlockingQueue` | none, or unused | | | | not modelled |

### How they interact

A client thread (`applyFunction`) owns a parser and runs a line at a time. A
command calls the player or an archive directly, under their locks. The player
calls the event handler, which writes to all clients of both servers, and calls
the subscribers, which are parsers of *other* threads' clients: a playlist thread
or a client that removed a music runs `random` of a subscribed parser. mpv
reports by events; the event thread spawns a detached thread on each IDLE event,
and at most one of them exists, as its closure owns `_playMutex`.

### What is hard

Critical sections are short and the code acts between them on what it read
inside: the view and iterators that outlive the lock, the subscriber that is
copied and called later, `back()` read after the push, notification after the
unlock, `try_lock` on a mutex released by the death of a closure, `_changed` set
after the map changed, clients erased without the lock others iterate under,
descriptors that designate something else once they are closed. `hazards` of
`PROJECT.json` lists each one at its line with the properties that cover it.

**Undefined behaviour** is an outcome of the models: a step that makes an undefined
access records which (`fault` of `Player`, `Archive`, `ArchiveMgr` and `Daemon`,
`proc` and `Overlap` of `Server`) and nothing follows. All these outcomes are
reachable in the code as it is, except a failing insertion; the properties are about
what the program does as long as it is defined. That is why `CHECK_DEADLOCK` is off
everywhere but in `MCDaemon` and `MCControls`, where a next process always follows;
moreover clients may stop asking.

**History variables.** Where a property does not hold in a window the code leaves
open, the window is in the model and a history variable tells who was in it, so that
the property can say that *nothing else* breaks it: `disturbed` in `ArchiveMgr`,
`crossed`, `vcrossed` and `intact` in `Controls`, `missed`, `dirty` and `before` in
`Daemon`. No action's guard depends on them, but the bound `MaxDisturbed`.

## Modules

### `Player`: the play queue

**Grain.** A critical section is one step. Whatever the code reads without a
lock, each event, each notification and each call of a subscriber is a step of
its own. `pc[t]` is the statement a thread is at; `music`, `num`, `pos`, `need`,
`owner` are its locals. `_mutex` is held across steps in one place only, between
the predicate of `_cv.wait` and the wait (`pc = "blocking"`, `MutexFree`): there
`stop`, which does not take `_mutex`, may interfere.

**Iterators** are positions of the playlist that follow their element when
others are erased before it and become 0 when the element is erased (`Moved`).
An access through position 0, beyond the view, to the back of an empty list or
to a destroyed parser is a fault.

**Correspondence.** `Add`, `Push`, `AnnounceAdded`, `Notify` are the statements
of `Player::add`; `Random` is `CmdParser::random` with `Player::addRandom`;
`RmIndex`/`EraseAt` and `RmId`/`EraseFound` the two halves of the removals;
`AnnounceRemoved` sends the event and enters the refill; `List`/`ListFill`/`Render`
is the listing with the loop of the parser; `ProcessSubscriptions` is a turn of the
refill loop and `Callback` the call that ends it; `HandleFile`, `HandleIdle`,
`WaitTimeout` are the cases of `Player::run`; `Begin` to `ExitThread` the playlist
thread. mpv is external: `MpvFinish` ends a file (it was over, was stopped or could
not be played) and sends END_FILE and IDLE; `LoadFile` replaces the file, with
START_FILE, and END_FILE for a file it cuts.

**Abstractions.** A music is its id. `Own[c]` is the named playlist client `c` is in,
which `random` prefers to the archive; how it grows is the archive's matter. The
archive draws under locks of its own; as the main archive never shrinks the draw is
one step with the push. `remove(iterator)` is called by nobody. `_playMutex` is
locked by the event thread and unlocked by the detached one, which the standard
leaves undefined; the model takes what the mutexes of the platform do.

`Jukebox` is what the queue promises without threads: musics wait in a queue and
one is chosen, from the front, only when none is current. `ImplementsJukebox` maps
`queue` to the playlist and `current` to the music a playlist thread has popped,
or else to what mpv plays.

### `Archive`: a file of musics

**Grain.** A critical section of `_musicsMutex` is a step; `_changed`, `_started`
and the file are read and written outside of it, in steps of their own. So
`Add`/`Mark` are the two statements of `add`, `Test`/`Clear` the two of the
thread, `Open`/`Write`/`Close` those of `flush` (the lock is destroyed before the
stream, which writes what is left of its buffer). `Wait`, `Block`, `Timeout` are
`wait_for`: a notification between the predicate and the wait is lost. `changed` and
`started` are plain `bool`s that two threads use; the model takes each access to be
atomic, as it is on the platforms the daemon runs on.

**The round.** `_mv` is shuffled when it is filled, so that what `random` draws is
any music of the round: `mv` is a set. `Remove` of a music that is not in the round
erases `end()`, which is a fault; so is a draw from an empty archive, possible as
the callers test `empty()` first and without a lock (`FindMusics`).

**Life.** `Destroy`, `NotifySync`, `Join` are the destructor, which runs when no user
holds a reference; `Load` is the next object on the file. A `Crash` may happen
anywhere. While the file is written it leaves a prefix of the lines in the order of
the map (`Prefixes`; a music is its rank in that order) and perhaps a piece of the
next one, which reads back as a music, `Torn`. Only named playlists shrink
(`Removers`).

**Abstractions.** A title is one line of less than 1024 characters; `search` only
reads. A change made during the last flush before the destruction is not written,
as the thread tests `_started` first (`archive.cpp:123`): the model shows it, and
`SavedOnceQuiet` is about an archive that stays.

### `Server`: connections, events and the shutdown

**Grain.** `_clientListMutex` is held over several steps (`owner`): the loop of
`writeAll` writes to one client a step, in the order of the set, which is that of the
descriptors; `disconnect` closes the clients, closes `_fd`, then clears the set.
`clientFn` erases its client without the mutex, in two steps, `Erase` and `Erased`:
when the set is in use meanwhile (`Overlap`), the behaviour is undefined.

**Descriptors** are what the kernel hands out, the lowest first (`table`), and what a
`Client` has is a number (`fd`): once it is closed, by `~Client` or by `disconnect`,
it may designate another connection, or the file of an archive (`UseFile`), and what
is read or written goes there. A `read` that already waits when its descriptor is
closed goes on waiting (`ReadClosed` is never forced).

**The stream.** A client sends characters one by one; `Read` takes what has arrived
and appends it to `_data`; `Command` takes a line and runs it. Whether it sends an
event is left open. `unread` is what the socket buffers: `write` blocks when it is
full. `ReadError` is the -1 of `readUntil` that becomes an index out of bounds.

**Shutdown.** The signal sets `quit`, on which the accept thread ends; `Wake` is the
return of `cv.wait`, then `Save`, `Disconnect` and its closes, and `Join`, the
destructor of the server, after which `main` returns. When mpv has quit, `operator<<`
throws as it asks for the volume (`SaveThrows`): the file has been emptied, nothing is
disconnected, and `Unwind` is the destructor of the server on the way to the `catch` of
`main`, which returns as well. `EndsSaved` says what is left of the promise that the
state is saved first. What is destroyed after that is not in the model. The accept
thread may `exit` the process at any error that is not EAGAIN: the closed socket, or no
descriptor left. Both servers run the same code and share nothing; one is modelled.

**Interruptions.** `sa_flags` is 0: a signal interrupts the `read` or `write` that
blocks in the thread it is delivered to (`Interrupted`). `ReadInterrupted` is the -1 of
`readUntil`; `WriteInterrupted` leaves one client without the event, which is why
`EventsAgree` ends at the first signal.

### `ArchiveMgr`: the named playlists

**Grain.** `load` is one critical section of `_archivesMutex`, as in the code;
`unload` is four steps: it reads the reference count without a lock (`Unload`), erases
the name from the map under the mutex (`Erase`), pushes on the stash (`Stash`) and
pops its back when it is too long (`Evict`), the last two without the mutex.
`pc[p]` is where parser `p` is, `want[p]` the playlist it goes to.

**Correspondence.** `Pl` and `PlQuit` are the commands, and the destructor of the
parser, up to the call of `unload`; `LoadInvalid`, `FromStash`, `FromMap`, `Create`
are the cases of `load`; `Store` and `Reset` assign `_archive`. A `shared_ptr` is an
object's identity; `UseCount` counts the places that name it. Whoever drops the last
reference (`Drops`) runs the destructor next (`victim`, `Destroy`), and holds the
mutex meanwhile if it was the map that dropped it (`MutexFree`). `Add` and `PlRm`
change a playlist; `SyncFlush` and `SyncLoop` are what matters of the thread of
`Archive`: it writes, and what changes between its last look at the map and its next
is not written when the destructor comes first (`late`). A new archive starts `late`:
its thread has yet to test `_started` for the first time, so that a playlist that is
created, changed and evicted before loses the change.

**Windows.** Three places leave a playlist with an archive that is in neither
container: `unload` between its halves, a running destructor, and an eviction of what
a parser has stashed and not let go of. Whoever asks for that playlist then gets a
second object on the file: it becomes `disturbed`. `StashRace` and `SessionRace` are
the data races on the stash and on `_archive` (a subscriber's callback reads it in
another thread). `list()` reads a directory and is left out.

### `Controls`: pause, volume, announcements and the saved state

**Grain.** No lock is held between any two statements, so each get, set and access to
`_pause` is a step. mpv answers gets at once; sets are asynchronous: `requests` is
what it has still to apply, in order (`Apply`).

**Correspondence.** `Toggle`, `RequestPause`, `StoreFlag`, `SendPaused` are
`togglePause`, whose last three steps are `setPause` as well (`SetPause` enters there
when the copy differs); `Volume`, `RequestVolume`, `SendVolume` are `incrVolume`;
`Speak` and `ChildEnds` are `speak` around the child process; `Restore` and
`RestorePause` are `operator>>`, which goes through the same functions; `OpenFile`,
`SaveVolume`, `SavePause` are the saving, while clients are still served. `Restart`
may come anywhere. A command of the model starts when mpv has less than `MaxRequests`
sets to apply.

**Abstractions.** The text of the file is the record of what it holds, `NoState` when
it was cut. The position (`move`) and the filter (`normalize`) are left out: each is a
set that nothing in the program reads back. That somebody who is not authenticated
may not announce is a test before the command.

### `Daemon`: the life of the process

**Grain.** The statements of `main`, in order; what an event or playlist thread does
between two blocking calls; the predicate, the sleep and the wakeup of both condition
variables; the two halves of `stop`, which clears `_started` and notifies without the
mutex. The detached threads of clients appear as `ClientAdd`: it can come as soon as
the servers listen, while the handler is assigned, during the saving and after the
destruction.

**Correspondence.** `Restore`, `Listen`, `SetHandler`, `Start`, `Wait`, `Block` are
`main` up to the signal, and `ListenFails` and `AcceptFails` the `exit()` of `connect`
and `accept`; `Open`, `SaveVolume`, `SaveList`,
`SaveWrite` the saving (the `ofstream` empties the file at once and writes when it is
destroyed; when mpv has quit it throws, and `Disconnect` is left out); `Disconnect`,
`LeaveServers` (both `~Server`), `StopPlayer` or `SkipStop`, `StopNotify`, `Join`,
`TerminateMpv`, `DestroyMembers`, `Return` the destruction. `EventLoop`,
`EventTimeout`, `EventIdle`, `EventShutdown` are `Player::run`; `PlayTest` to
`PlayLoad` the playlist thread. `Mpv` is the end of a music or of mpv itself, which
makes gets and `loadfile` throw. `Restart` is the next process, after a return, a
fault or a crash; it finds `saved`.

**Ends.** `exited`: `exit()`, which destroys no object of `main`, so that mpv and the
archives are left as they are. It comes until the servers have been left, as `~Server`
joins the accept thread. `terminated`: an exception in a detached thread, or a joinable
thread that is destroyed. `undefined`: a condition variable destroyed under a sleeper
(that of `main`, a static, by `exit()`), a thread that goes on after the destruction, an
event for servers that are gone (`ServersGone`), a change of the list while `operator<<`
walks it, a call of the handler while it is assigned. `before` is what the next process
should find after any of these but the undefined ones and a cut during the saving.

**Abstractions.** What `Player` shows in detail is one step here: a push with its
notification, a pop with its event, one playlist thread at most
(`NeverCutsAMusic` is why). The construction of the objects is the initial state.

## Runs

| run | question |
|---|---|
| `player_queue` | add, remove by id, next, list and stop against the playlist threads: order, views, wakeups, `ImplementsJukebox` |
| `player_subscribers` | subscribe, unsubscribe, disconnect, random, rm: the deque of subscribers, and the types of what all commands leave behind |
| `player_progress` | a sleeping playlist thread is woken, refill loops end for the playlist thread and for clients, no subscriber starves |
| `archive` | no change is forgotten by the thread, what is quiet is saved, the destructor ends, rounds refer to living musics and every music comes up |
| `server_safe` | events agree between clients, commands are the lines sent, descriptors are owned, the process ends after the save, or because that threw |
| `server_live` | a shutdown ends, a client that left is removed |
| `archive_mgr` | a playlist nobody asks for in one of the windows has one archive, where its clients meet, keeps what they made of it; the stash is bounded |
| `controls` | mpv, `_pause` and what clients heard agree unless commands overlapped; an undisturbed announcement pauses and resumes; the state is restored whole or not at all |
| `daemon` | who sleeps on was missed; mpv and threads end in order; the next process finds the playlist; a shutdown that has begun ends, also when mpv has quit |
| `doc_next`, `doc_unsubscribe` | two sentences of the documentation or of the program's answers that an interleaving contradicts; each run shows one |
| `doc_archive_remove` | a comment of `Archive::remove` that does not hold for a music that was drawn in this round: `end()` is erased |

The models contain more disagreements with the documentation than these runs show:
the event of `add` may name another client's music (`AnnounceAdded` reads `back()`
late), `rm <index>` of a line that was popped meanwhile erases an iterator that is gone
(`EraseAt`), a listing may be cut short by another client (`Render`), and `vol` may
display up to 150%, the clamp (`Clamp`), where `server_cmd.txt:39` says between 0 and
100%: an increment from the volume of a new mpv is enough.

The runs of the player differ in the commands the clients issue (`Commands`), so
that each has the interleavings its question needs; together they fire every action.

### Bounds

*Player.* Two clients, two playlist threads, one or two musics, `MaxLen` 2 or 3
(clients add below that length only, `Init` restores up to it), `PlaylistMinSize` 1,
and 2, the value of the code, in `player_progress`. A refill stops below, at
and above the threshold, the playlist thread wants one music more than a client, two
threads may be between push and notification, a view of two lines has a first line
that dangles and a second one that does not, and `_playMutex` can be contended: two
playlist threads are one more than the code ever has at a time, as the theorem shows.

*Archive.* Two users, three musics, one remover, one crash, any number of
destructions. Two musics left in a round while one is added, and one removed, is the
least that tells a round from another; a second crash starts from a file the first one
could have left as well.

*Server.* Two clients, of which one sends a line and a part of another, one more
thread that sends events, two events, three descriptors, buffers of one message.
Two events of two threads are the least that can be heard in two orders; three
descriptors let both clients be connected while a file is open, which leaves none for
the accept thread; with a buffer of one message a client that does not read blocks
`writeAll` at the second event. `server_live` has one client and the other thread,
which compete for the mutex and fill the buffer.

*ArchiveMgr.* Two parsers, two playlists of at most one music, a stash of one and four
objects: no parser that must create an archive ever finds none free (checked by TLC).
Two parsers are the least that can leave at once, and one playlist that is evicted
because another is stashed is the least that tells the stash from the map. Clients issue
no command once a playlist is disturbed (`MaxDisturbed` 0): what follows is about no
property.

*Controls.* Two clients and the main thread, a scale 0..2 for 0..150 with increments
that go past both ends, two sets in flight before a command (each may add one). Two
commands that overlap are the least that disagree.

*Daemon.* Two musics, a list of two at most, any number of restarts and crashes. One
music is popped while the next is saved; more musics take the same steps.

### Fairness

*Player* (`FairSpec`). A thread with a statement to execute executes it. A
client thread waiting for `_mutex` gets it in the end although others take it
again and again (strong fairness): critical sections are short and each turn of
the refill loop sleeps half a second without the lock. Weak fairness for the
playlist thread, the event thread, `start`, the reaction of mpv to "stop", and
the second half of `stop`. Nothing is assumed of clients (they may stop asking),
of the end of a music, or of spurious wakeups. `player_progress` leaves `rm` out:
another client that removes a music whenever one is inserted keeps a refill
loop going for ever, in the code as in the model.

*Archive.* A user ends what it began, the thread goes on and `syncTime` is over in
the end. Nothing is assumed of requests, destruction, loading and crashes.

*Server.* A thread that can go on again and again does, which gives each its turn at
`_clientListMutex` (`writeAll` ends after one write per client). A client reads what
it is sent: without that, a blocked `writeAll` holds up the shutdown for ever.
Nothing is assumed of connections, events and signals, nor of `Wake`: a signal
between the predicate and the wait of `main` is lost.

*Daemon.* The main and the event thread are scheduled, and `mpv_wait_event` returns
after a second at the latest (its argument). Nothing is assumed of signals, clients,
mpv and the playlist thread, which nobody joins. Its fairness
includes that `disconnect` gets `_clientListMutex` and that the accept thread ends:
`ShutdownEnds` of `Server` says so, for clients that read. `DaemonEnds` starts after the wait: a
signal that comes between the predicate and the wait is lost.

*ArchiveMgr* and *Controls* state no fairness: their properties are invariants.

## Proofs

Every invariant the runs check is proved as a theorem of its specification, and so is
`ImplementsJukebox`. The theorems hold for any sets of threads, clients, musics,
playlists and descriptors, and any bounds, from the one assumption each of the six
modules names after itself (`PlayerAssumption` and so on): constants have their types,
sorts are disjoint, and `ArchiveMgr` has finitely many parsers, as its bound of the
stash counts them. Each inductive invariant was checked by TLC, on the instances of the
runs, before it was proved.

An invariant is proved in three steps: `Init` establishes it, a step keeps it (one lemma,
with a case per action, most of which are a frame condition), and it implies the
property. Types are conjunctions of parts, one per kind of variable, as the provers do
not take them at once.

### `SequenceLemmas`

What `RemoveAt`, `Append`, `Tail`, `\o`, `IsSuffix` and `Min` return, as the models use
them. `FlattenSeq` is recursive, and what it does to a sequence that grows by one
(`FlattenAppend`) needs induction. The library's induction theorems take an operator and
cannot be used, but a set of naturals can be the parameter: `LeastElement` gets the least
one from the well-founded order of finite sets, and `ByInduction` is induction for a set.

### `PlayerProofs`

- `TypeCorrect`. Types are not inductive alone: `plv[line]` must be a place of the
  playlist for the removed music to be a music, which needs `ViewInOrder` and
  `PosInv`; a playlist thread that ends an add returns to the refill loop because
  `need` is not 0 in it (`NeedInv`); a thread that pushes holds a music (`MusicInv`).
  `TypeInv` is the conjunction.
- `ViewStaysInOrder`, from `TypeInv`: the writers of the playlist clear the view,
  except the push of `addRandom`, which moves no iterator, and the pop, which makes
  the first line that is not dangling dangle.
- `NeverCutsAMusic`. `PlayInv`: the owners of `_playMutex` are exactly the living
  playlist threads, and there is one at most; while one is before its "loadfile"
  mpv is idle and no IDLE event is queued; a playing mpv has no IDLE event queued;
  there is one IDLE event at most.
- `NoWakeupIsLost`. `WakeInv` adds that the playlist stays empty while a thread is
  between predicate and wait; that there is one sleeper at most (`PlayInv`) makes
  one notification enough.
- `QueueIsArchived`. `ArchivedInv`: a music that is about to be pushed is archived.
- `NoOtherIsErased`. All actions move the playlist and the iterators of `remove(id)` in
  one of five ways (`QueueMoves`), and an erasure carries an iterator to where its
  element goes (`Carries`).
- `SubscribersStayAlive`: a rotation leaves the same elements, once each
  (`RotationElements`), and who goes unsubscribes first.
- `FlagCatchesUp`. `FlagInv`: the last START_FILE or END_FILE that is queued, whatever
  IDLE comes after it, tells what mpv does; if there is none, `_isPlaying` does. The
  reset by the playlist thread is right because mpv is idle then (`PlayInv`).

`PlayerRefinement`, `PlayerIsAJukebox`: with `PlayInv` the current music is that of
*the* playlist thread that holds one, or what mpv plays (`CurrentOf`); each step of
`Player` is then `Enqueue`, `Drop`, `Empty`, `Choose`, `Finish` or a stutter.
`Choose` demands that nothing is current, which is `NeverCutsAMusic`.

### `ArchiveProofs`

`ArchiveTypeCorrect`, `ChangesAreFlushed`, `RoundIsAlive`, from one inductive invariant,
`ArchiveInv`: types, the two properties, that nobody uses an archive that is being
destroyed (`IdleInv`, so that no change is made to an object that ends), and that the
thread is about to reset `_changed` only while it is set (`ClearInv`).

### `ArchiveMgrProofs`

- `ArchiveMgrTypeCorrect`. What is referred to exists (`PointersInv`), a parser that
  unloads is in a playlist (`ParserInv`), and what is being destroyed is referred to by
  nobody, and destroyed by one (`VictimInv`): `AInv` is the conjunction.
- `StashStaysBounded`: every push makes one more parser that has still to evict, and
  each of these pops.
- `CalmHasOneArchive`, `ClientsAreTogether`. A bound on the number of archives of a name
  is not inductive: one must know *where* the one is. `CalmInv` says for the archive of
  a calm playlist that it is in exactly one place: in the map, where all who are in the
  playlist have it from; with the one parser that is between the halves of `unload`; in
  the stash, once; or in its destructor. `load` looks in two of them and finds it unless
  it is in one of the windows, which is when the playlist stops being calm.
- `CalmIsKept`, from `CalmInv`: with one object on the file nobody else writes it, and it
  is written before the object is gone, unless the change was `late`: made before the
  thread's first test of `_started`, or after its last look at the map.

### `ControlsProofs`

- `ControlsTypeCorrect`, from `CInv`: the queue of mpv has a last set for each property
  that has one (`RequestsInv`), and threads go where the restoring, the serving and the
  saving let them (`ThreadsInv`).
- `PauseIsAgreed` (`PauseInv`): a command that overlaps no other makes mpv's last set,
  `_pause` and what clients heard the same, one after the other, whatever they were
  before. `VolumeIsAgreed` (`VolumeInv`) likewise, although the volume was computed from
  one that was still to change.
- `AnnouncementsResume` (`AnnouncementInv`): where an announcement is, and which of its
  two toggles it makes, says what `_pause` and mpv are. The second toggle asks mpv, and
  must find the first applied: that is what `intact` includes.
- `StateIsRestored` (`RestoreInv`): what has been restored so far, statement by
  statement. On a new mpv `togglePause` finds no set queued, so that it pauses, and the
  difference that `incrVolume` is given leads to the saved volume.

### `ServerProofs`

- `EndsAfterTheSave`. The main thread alone saves and closes the socket, in that order
  (`SavedInv`), and the accept thread exits for that reason only after the close
  (`Bystander`). When the saving throws, the socket is never closed, so that this exit
  implies a whole file; a return implies only that the saving was tried.
- `ServerTypeCorrect`, `DescriptorsAreOwned`, from `SInv`: a connection that is not
  served yet has no thread and heard nothing (`NewInv`); the mutex is held where the code
  says so and by one thread (`MutexInv`); the table of the kernel and the numbers of the
  clients agree as long as a descriptor is open (`TableInv`); until the closing starts,
  clients own theirs, and threads their clients (`OwnedInv`), after it at most one more
  client gets into the set, which is empty. No insertion collides because the new
  descriptor was free when the clients of the set had theirs.
- `EventsAgreed`. Between two writes of `writeAll` clients disagree, so the invariant is
  about what they *will* have heard when the writer at work is through its loop
  (`Will`): that agrees at every step (`AgreeInv`). A client that takes the mutex to be
  inserted has heard nothing, and nothing is a suffix.
- `CommandsAreTheLines` (`LinesInv`): the commands run, the buffer, what has arrived and
  what is still to be sent, in this order, are what the client meant to send. Each step
  moves a piece from one to the next; that a line which leaves the buffer is appended
  whole is `FlattenAppend`.

### `DaemonProofs`

`DaemonTypeCorrect`, `SleepersAreExplained`, `EndsInOrder`, `PlaylistSurvivesRestart`,
all four invariants of the run, from `DaemonInv`: no thread exists before
`Player::start` (`StartInv`); a thread that is *between* predicate and wait when its
condition comes true is already in `missed` (`SleepInv`); who cleared `_started` is
`~Player`, which is then on its way to the join, or the event of an mpv that has quit,
and `exit()` finds `main` before the end of the servers (`OrderInv`); the file is the playlist, or the draft is, wherever main() is, unless the
playlist is `dirty` (`KeepInv`).

### Only model-checked

The properties that need fairness, which is beyond the prover: `WaiterIsWoken`,
`PlaylistThreadTakes`, `SubscribeReturns`, `SubscribersTakeTurns`, `SavedOnceQuiet`,
`DestructionEnds`, `EveryMusicComesUp`, `ShutdownEnds`, `GoneIsRemoved`, `DaemonEnds`.

## Not modelled

- `lib/nlohmann/json.hpp`, vendored: 10626 of the 13405 lines of C++, four fifths. The
  models map about a third of the others.
- Text: the formatting of events and answers, help, logging, the JSON form of the
  second parser, whose commands make the same calls as those of the first.
- Title lookup (`YtNameSolver`: a page is fetched and searched, without state), tokens
  (`TokenMgr`: a constant set) and the flag `auth` sets.
- `BlockingQueue`: nothing includes it. `Any` and `Optional`: values.
- `search`, `list` of the manager, `size`, `current` and other reads that no property
  speaks of; `move` and `normalize`, whose effect is mpv's alone: that a position may be
  read of one music and applied to the next is a hazard without a property.
- A title of 1024 characters or more, at which loading stops (`archive.cpp:110`), as
  titles are model values.
- The success of `Server::connect` (its failure is `ListenFails`) and the construction of the objects in `main`, before anything runs
  beside them; `Client::read`, which nobody calls.
- What an undefined access does. `SessionRace`, and the call of a handler that is being
  assigned, end the behaviours; no property can say more.

## Plan

1. That `Daemon`'s playlist thread is an abstraction of `Player`'s, as a refinement, and
   abstract specifications of what a server promises (events in one order) and of what an
   archive does (a map and what of it is saved), for the proofs to be refinements as the
   one of the player is.
2. The safety core of the liveness properties: that a refill loop needs one music more
   than its last turn only if somebody took one.
3. `search` and `list`, if a property about what they return turns up.
