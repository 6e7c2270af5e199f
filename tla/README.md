# talus-tun in TLA+

talus-tun is a layer-3 tunnel over websockets. A server owns a tun device and a
range of private addresses; a client connects to it over (secure) HTTP, upgrades
the connection to a websocket, asks for a configuration, sets its own tun device
up with the address it is given, and from then on both sides exchange IP packets
as websocket messages. This directory holds TLA+ models of that program, the TLC
runs that check them, and TLAPS proofs about the parts that matter most. Source paths
below are relative to the repository; `X.h:12` is a line of `src/X.h` or of
`src/Http/X.h`.

Contents: 1 inventory, 2 the modules and the code, 3 the runs, 4 fairness,
5 proofs, 6 findings, 7 what is not modelled, 8 plan, 9 how to run.

## 1. Inventory

### Threads

ZLToolKit (a git submodule, external here) gives the program a pool of *pollers*,
threads with a task queue and an event loop. A TCP connection belongs to one
poller: its handlers, its timers and the tasks posted to it run there one after
another. Different server sessions may sit on different pollers. The *tun poller*
is one more such thread, and a *reader thread* made by `Start` blocks in `read`
on the device and posts packets to the tun poller. `async` called on the poller's
own thread runs at once, from another thread it queues.

### Components

**Address pool** (`TunAddrAlloc.h`). State: the cursor `m_currIndex`, the map
`m_allocAddr`. Operations: `AllocAddr`, `releaseAddr`, called by any session's
thread. Hard: the cursor is tested, set and copied outside the lock, while the
thread inside it sets the cursor and reads it twice more; the lock is taken anew
for each turn of the search loop; the search never wraps around. Correct when: no
two live sessions have one address, an address comes back exactly when its session
ends, nobody is refused while a never-used address is left, and every search ends.
The first two fail once the cursor has been changed under the thread that has the
lock (section 6).

**Tunnel server session** (`TunWsSession.h`, `Http/WebSocketSession.h`). State:
`m_config`, `m_addr`, the connection. Operations: `onRecv` (configuration request
or packet), `onError`, `onManager`, the dispatcher's callback on the tun poller
and the task it posts back. Hard: the callback and its task hold a raw `this`;
rules outlive sessions; a peer may ask twice. Correct when: a session's address
is routed to it and nobody else, a peer is sent only its own packets and only
after it knows its address, every request is answered.

**Tun interface, dispatch and rules** (`TalusTunInterface.h/.cpp`). State: the
rules by key, tasks on the tun poller. Operations: `AddDispatcher` (session
threads), `Dispatch` (tun poller), `Send`. Hard: the rules are written and read
by different threads without a lock; a failed resolution leaves an address
uninitialised.

**Tun interface, reader thread** (same files). State: the running flag, the
thread object, the static buffer of `Receive`. Operations: `Start`, `Stop`,
`Config`, `Up`, `Down`, the loop. Hard: `Start` detaches its thread, so `Stop`
joins nothing; on a reconnection old and new readers share buffer and device.

**Tunnel client** (`TunWsClient.h`, `Http/WebSocketClient.h`, `Http/HttpClient.cpp`).
State: the attempt (socket, redirections, header, handshake), `m_config`, retry
timers, packets posted by the tun poller. Hard: failures before, in and after the
handshake reach the retry by different ways; a packet posted during one connection is
sent during another; a configuration may throw half-way; a redirection starts the
attempt's timers again. Correct when: there is always exactly one attempt or one
pending retry, the request is the first message, `m_config` tells the truth, the
client keeps trying.

**Websocket frame decoder** (`Http/WebSocketSplitter.cpp`). State: kept bytes,
offsets in payload and masking key. Hard: a read may end after any byte.
Correct when: payload, key offset and completions do not depend on the cuts.

**Websocket messages** (`Http/WebSocketSession.h:153-231`,
`Http/WebSocketClient.h:219-300`). State: section and cache of fragments. Hard:
control frames between fragments, empty frames completed twice, the size limit.
Correct when: the tunnel gets what the peer sent, whole and in order, and each
PING its answer.

**HTTP request splitter** (`Http/HttpRequestSplitter.cpp`,
`HttpChunkedSplitter.cpp`). State: kept bytes, their size, content length. Below
the HTTP server session, the HTTP client and, with its own tail and header
functions, chunked bodies. Hard: as the frame decoder, with contents of known
and unknown length and a limit compared with what an earlier call left behind.

**HTTP session** (`Http/HttpSession.cpp`). State: the senders of file bodies,
flush handler, tasks, socket buffer. Operations: one handler per method,
`sendResponse`, `AsyncSender`, the upgrade, keep-alive timeout. Hard: a body has
two pumps (tasks and flush handler), `shutdown` drops what is buffered, and the
header says whether the connection is kept before the body's end decides it.

**HTTP client** (`Http/HttpClient.cpp`, `HttpClientImp`) with its users,
**downloader and requester**. State: the connection, the response's parser and
counters, the callback. Operations: `sendRequest` on a new or a kept connection,
header, body (stated, chunked, until the close), redirection, three timeouts,
socket errors. Hard: several of these may end one request; a kept connection or
a redirection may carry bytes of an earlier answer; the callback may start the
next request. Correct when: a request ends once and always, and a success hands
on this answer's content and nothing else.

**HTTP cookies**. The client's storage (`HttpCookie.cpp`): one jar for all hosts,
by host and path, with expiry. The server's manager (`HttpCookieManager.cpp`):
tables of cookies by name and by user, random names, expiry by a timer, eviction
of the oldest. Hard: a cookie erased from the tables lives on in requests that
hold it, and takes itself out of the index when the last lets go.

**HTTP file manager** (`HttpFileManager.cpp`). `canAccessPath` looks for a cookie
that permits the path, else asks a listener which answers at once or later from
any thread; then a folder, an index file or a file is answered. A folder's menu
has links, which come back as requests. Hard: the late answer meets a session that
may be gone; a kept permission meets other paths; a URL is not the path of its file.

**HTTP bodies** (`HttpBody.cpp`). Texts, files in ranges, forms, buffers, read in
pieces; mapped files are shared through a table of weak pointers. Hard: the last
user unmaps outside the table's lock while others open the same file.

**Daemon** (`System.cpp:49-89`, `main.cpp:94-128`). State: its static `pid`, its
handler. Forks the server, waits, forks again; passes SIGINT on. Hard: a signal
meets any state of both processes, and a child has its parent's handler at first.

**Child processes** (`Process.cpp`). `run`, `wait`, `kill`, the destructor; a kill
that is not forced leaves a task that looks two seconds later. Hard: object, task
and poller may all want to reap one child, and may come after its id is free.

**Data filter** (`DataFilter.h`): an exclusive-or of a packet, done by one end and
undone by the other. **Fake header** (`FakeHeader.h`): the decoy every
configuration is preceded by. **Parsing and tables**, **start-up and
configuration**, **IP refresh service**, **build files**: section 7.

### How they interact

    device --read--> reader thread --post--> tun poller --Dispatch--> callback
        callback --post--> session poller --send--> HTTP session / websocket --> peer
    peer --> socket --> HttpRequestSplitter --> HttpSession --upgrade-->
        WebSocketSplitter --> WebSocketMessages --> TunWsSession::onRecv
    TunWsSession --call--> TunAddrAlloc, AddDispatcher; --post--> tun poller (Send)
    client: TunWsClient --one per attempt--> HttpWsClient --> HttpClient --> socket
            TunWsClient --calls--> Stop, Down, Config, Up, Start, AddDispatcher

What is hard to test, line by line, is the list `hazards` of `PROJECT.json`.

## 2. The modules and the code

`PROJECT.json` maps each definition to its lines. Definitions that end in a
suffix after an underscore and whose comment begins "Mutant:" are not part of a
specification: each is a plausible bug, used to see that a property would notice.

**AddrPool** is the abstract promise: who holds which address. `Acquire` only of
what nobody holds, as long as the allocator is sound, `Release` only of one's own,
`Race` for the loss of its soundness, `Reset` for a restarted process.

**TunServer** is the server: pool, sessions, rules, tun poller. Each session has a
program counter, because between its accesses to what threads share any other thread
may run: `RecvConfigRequest`, `CheckCursor` (the test of `m_currIndex`), `InitCursor`
(its setting, without the lock), `SnapCursor` (its copy to the loop variable), one
`SkipIndex` or `TakeIndex` per turn of the loop, under the lock; `TakeIndex` sets the
cursor, `NameAddr` reads it for the address and `StoreAddr` for the map's key, and the
lock is held until then (`LockFree`); `Exhaust`, `InstallRule` (`AddDispatcher`),
`SendReply`. `raced` is set when `InitCursor` changes the cursor while another thread
has the lock. `RunTask` runs a posted packet when the thread is out of its handler.
`Dispatch` finds the first rule in key order that matches and runs the session's
callback; for a destroyed session, whose memory it reads, the outcome is any: the
process dies or the packet is lost (`DanglingCallback`, `StaleTask`). `Restart` is the
daemon starting a new process. A resolution of the empty address leaves key and
address uninitialised: `Garbage` is what they may hold. `replied`, `delivered`,
`leaked`, `ever`, `failed`, `raced` are ghosts.

**TunReader** is `Start`, `Stop` and the threads (its specification is
`ReaderSpec`). The configuring thread walks through the calls of one configuration
(`ctl` is its position); a reader is between the flag's test, the read into the
shared buffer, and the copy.

**TunWsClient** is the client's life, one action per callback of the socket, the
timers and the delegate. `StartWebSocket` replaces the attempt. `Redirected`
covers both kinds of redirection, as often as the server likes (`odd`, a ghost,
tells one from the next), `RecvConfig`, `RecvShortConfig` and
`RecvBadConfig` the three outcomes of a configuration. The tun poller's callback
is two steps, its look at `m_config` and its post.

The server precedes each configuration by the decoy; `RecvOther` is its arrival,
and that of packets, both of which `onRecv` writes to the device when `m_config`
is set. `Follows` says what this server may send when. A second request on one
connection would bring a second decoy to a configured client; the client never
makes one.

**WebSocketSplitter** is `decode`, from a chunk's arrival to the return, with one
action per path through the loop. A byte is a record of its frame and its place,
so properties can say where each byte went. **WebSocketMessages** extends it:
each call of the decoder's three callbacks is conjoined with what
`onWebSocketDecodeHeader`, `Payload` and `Complete` do at the server's or the
client's end. `Encoded` is `encode`'s header as the PONG gets it: the client sets the mask
flag (WebSocketClient.h:242) and always has four bytes of key, those of the
constructor until a masked frame has come (WebSocketSplitter.h:48-53), so its PONG
is masked; the server's is not.

**HttpRequestSplitter** is `input`, in the same way. `Unlimited` is the content
length -1. The limit's test, at the head of `input`, sees the size the last call
left behind.

**HttpSession** is a connection of the server: `RecvHeader` dispatches on the
method, `Handle_Req_X` is each handler, `SendHeader` and `SendBody` the two halves
of `sendResponse`. A response is a header (part 0) and the parts of its body.
`Send` puts a part into the kernel or the socket's buffer; `WriteEvent` writes the
buffer and then calls the flush handler; `OnRequestData` is the task that sends a
part and, finding the socket free, reads the next; `OnSocketFlushed` reads a part
or, at the end, shuts down. Sockets, tasks and shutdown are the toolkit's and
modelled from their use.

**HttpClient** is a client under the requester or the downloader. A response is a
sequence of tokens (head, units of content, last chunk), a read takes any number
of them and is handled in steps. `SendRequest` is the whole function with its
choice of connection and cookies; `Redirect`, `RecvHeader`, `RecvContent`,
`RecvTooMuch`, `RecvChunk` are the paths through `input` and `onRecvContent`;
`Completed` is `onResponseCompleted_l`; `OnManager` the timer with its three
limits, of which `Redirect` starts those for the header and the whole again and
`Trickle`, a downloader's read, that for the content; `HeaderThrows` the exceptions
of `onRecvHeader`; `StartInside` a start from within the callback. **HttpCookie** holds the
operators of the jar: reading a Set-Cookie header, of whose fields the last of a
name counts, `SetCookies`, `GetCookies` with expiry and paths. Cookies of a
redirection that is followed are dropped, and a cookie without expiry is never
stored, as in the code.

**HttpCookieManager** is the server's manager: a cookie is a number, `held` what
requests have, `Settle` what the destructors of cookies nobody has do to the
index and the random names. **SharedMmap** is `getSharedMmap` with the deleter in
its two halves, `Munmap` and `DelSharedMmap`, and the kernel free to give an
address again in between. **UrlCoding** is `UrlEncode` and `UrlDecode` on bytes.
**FolderMenu** goes from a URL to a file and from a directory to its links:
`GetFilePath` (backslashes to slashes, then the toolkit's `absolutePath`, which
resolves "." and ".."), `KindOf` with the search for an index file, and of
`makeFolderMenu` what is `Listed` and the `Href` of each entry: its name coded, with
the directory's own name uncoded in front when the URL has no slash at its end
(`LastDirName`). `Link` is what a client makes of that, `Typed` and `Clicked` are what
clients ask for. **HttpFileManager** composes these: a request goes from
`OnAccessPath` through `ByCookie`, `OldestOfUid`, `ByUid` to `Allowed`, `Refused`
or `Broadcast`; `InvokeForLife` and `InvokeOnce` are the listener's answers;
`AnswerX` and `BodyX` the response. The program installs no listener: `listening`
is both values, and promises about permissions are made for one that is.

**HttpBody** has no state of its own: the operators of reading, ranges and forms,
for theorems. **DataFilter** likewise; it leaves up to eight last bytes as they are.

**Process** is a child's life and the object, task and poller that look after it.
**Daemon** (`SystemSpec`) extends it with startDaemon's loop, step by step, and the
server's own handler; the scripts the server runs are Process's objects, and `ServerEnds`
takes them with it. A SIGINT may come to the daemon alone or to its group.

Composition: TunServer contains pool, sessions and dispatch as one specification
because they share variables; it instantiates AddrPool with what its sessions hold.
WebSocketMessages runs on WebSocketSplitter, HttpFileManager on HttpCookieManager,
SharedMmap and FolderMenu, that on UrlCoding, Daemon on Process, HttpClient on
HttpCookie. The layers between are tied by promise: WebSocketMessages' whole messages
are the `RecvX` actions of TunServer and TunWsClient, HttpSession's `Upgraded` is
their open connection, Daemon's restart is TunServer's `Restart`.

Abstractions common to the modules:

- Time is abstract: a timeout may strike at any call of the timer that could see
  it. This allows more than the code does.
- Sessions are all on different threads: a superset of the pool's placements.
- An access to `m_routerRules` is atomic. The code has no lock there and the
  behaviour of a torn `std::map` is undefined; see section 7.
- A payload is its identity (the address it is for, the frame it came in).
- The configured address either matches the allocator's regex or not
  (`ConfigIpOk`). With TRUE every search takes place; FALSE only makes every
  allocation fail, after the same first steps.

## 3. The runs

`TunServer_routes` (server; two sessions, a range of two, one destination, queues
of one, restarts). `AllocatedIsHeld` (the map holds the live sessions' addresses
and those a repeated request forgot), `RefusedOnlyWhenUsedUp` (a refusal comes
only after every address was handed out once), `RouteOwner`, `OnlyOwnPackets`, the
refinement `PoolSpec` and `RequestAnswered`. Two sessions are enough for a search
that overtakes another and for a rule that outlives its session; sessions are
created again after each restart, and repeated requests use the range up. `Dests` and
`Garbage` both contain an address of the range, so stale rules, garbage rules and
dangling callbacks all happen; queues of one still let a packet wait at each
place while the sessions change.

`AllocatedIsHeld`, `RouteOwner` and `PoolSpec` are claimed until `raced`, and that
two sessions and a range of two suffice for it is no accident of the model: session
B finds the cursor unset and stalls before TunAddrAlloc.h:28; A sets it, takes 1,
asks again and finds 2 free; line 39 sets the cursor to 2 and line 40 makes the
address of it; B's line 28 sets it back to 1, and A's line 41 enters 1 in the map.
A has been told 2, the map says 1, and B's search finds 2 free. Without the excuse
TLC finds two live sessions with one address. The other three properties hold all
the same and are claimed without it.

`RouteOwner` and `OnlyOwnPackets` are also claimed only until an allocation first fails:
after that an uninitialised address may take any key, and both are false of the
code. `AllocatedIsHeld` counts what a second request of the same peer forgot: such
addresses stay taken until the process ends.

`TunReader_threads` (reader_threads; up to three calls of Start, three packets).
`PostedInOrder` holds until a second Start and `OnlyReadContent` always: what is
posted was read, though with two threads it may be another thread's packet.
`DeviceServed`: while the flag stays set, waiting packets are read. With three
threads an old one may be in `read` while two later ones pass the whole loop.
`TunReader_stop` violates `OneSelectLoop` (finding 1).

`TunWsClient_life` (client_life; two posted packets; retries, connections and
redirections unbounded, and the state space finite). `OneDriver`,
`ConfigWhileOpen`, `RequestFirst`, `TunnelWhenConfigured`, `OnlyPacketsWritten`
(no decoy reaches the device), `KeepsTrying`, `AttemptEnds` (a wait ends, with the
websocket open, the attempt given up or another redirection).
`TunnelWhenConfigured` leaves out the reply of a server that has no address: it
sets `m_config`, so the timeout is disarmed, and no tunnel: that client waits
until the server closes.

`WebSocketMessages_cut` (messages_cut; streams of up to four frames of six kinds,
both endpoints, chunks of up to 16 bytes, limit ten). `ArrivedCompleted`,
`MessagesWhole`, `PingsAnswered`. Frames are masked and unmasked, with short and
extended lengths, empty and longer than the key; a chunk may end in any field or
span three frames. Two fragments reach the limit, so messages below, at and
above it occur. `WebSocketMessages_early` violates `OnlyWholeMessages` (finding 2).

`HttpRequestSplitter_cut` (requests_cut; streams of up to four messages of four
kinds, limit five, chunks of up to four). `MessagesIntact`, `ArrivedHandedOn`,
`RejectsOnlyHuge`. The limit is below the largest content and above the chunk, so
the refusal of a large content and its narrow escape (when a chunk completes it)
both happen.

`HttpSession_answers` (session_answers; up to three requests of ten kinds, two
frames, a kernel that takes two parts). `ResponsesInOrder`, `CloseAfterLast`,
`ClosedAsAnnounced`, `TransferCompletes`. The longest body is four parts with its
header, so the socket gets busy with a task waiting and with none; one file
shrinks while it is sent. The peer waits for each answer, as the promise needs
(finding 3). `HttpSession_pipelined` violates `SenderDriven` for a peer that does
not.

`HttpClient_reused` (http_client; two requests, one redirection each, two hosts,
responses of six kinds). `WholeBody`, `OneEnd`, `OwnCookies`, `Reported`. The
second request finds the connection kept, closed or led elsewhere by the
redirection, with surplus content of the first answer still on it; the hosts give
cookies for all paths, for one path, without expiry, and one expires while in the
jar. Further redirections, of which the code allows any number, repeat the same
step from the same kinds of state. `OneEnd` and `WholeBody` speak of the last request;
`Reported` says that each request sent is reported or redirected once more, unless
the server feeds a downloader for ever.

`HttpFileManager_access` (file_access; two sessions, three requests, one user id, at
most one client per user, two cookies, two addresses, three blocks, up to
symmetry of sessions and addresses). `GrantedOnly`, `NoLeak`, `ClientLimit`,
`MappedWhileUsed`, `NoStaleRecord`, `LinksLead`. The tree has the root, with its menu,
and in it a directory with an index file, which is asked for by the menu's link. Its
name "%41" is itself a code, so that a coding done twice or not at all would lead
elsewhere. Two cookies at a limit of one make eviction happen with the evicted one
still held. `GrantedOnly` speaks of URLs, as the code does (HttpFileManager.cpp:241):
of the file it says something as far as the URL is the file's own name. One with
".." or a backslash in it begins with another directory than its file's, and a
permission for that directory is enough for it. `ClientLimit` excuses,
by user and from then on, the two cases the code gets wrong: a cookie made while
the oldest has been erased but is still held, and two within one millisecond.

`LinksLead`: a link of a menu, followed, arrives as a request for its entry or for the
index of its directory. The run has one link; trees of every shape, names of any
bytes, and URLs with "..", backslashes and without a slash at the end are the
theorem's (`MenusLead`, as `SentWasGranted` is for `GrantedOnly`). Excused are the menus
whose URL does not end with a slash and whose own name needs coding, or is not the
end of the URL (`LinksWritten`): there the code puts `last_dir_name` uncoded into the
links (HttpFileManager.cpp:80, 146), and those of a directory "%41" lead to one named
"A".

`Daemon_children` (children; two server ids, two objects, two script ids).
`OneReaper`, `StoppedTogether`, `ForgottenEnd`, `Restarted`. Two ids let a new
child have another id than the last, so that a stale `pid` shows; ids are given
again without bound. `StoppedTogether` excuses a signal between `fork` and the
assignment of its result, or before the first handler is installed: there the code
loses the child. The kernel is assumed not to reuse an id that an object or a task
still remembers.

Deadlock is checked in `TunServer_routes` and `TunWsClient_life`: a server and a
client never stop. The other models end: the stream is over, the packets, the
Starts or the requests are used up, the connection or the daemon is gone.

## 4. Fairness

- Server: weak fairness of a thread inside a handler and of the daemon. Nothing
  is assumed of peers or of the device. `RequestAnswered` must hold although other
  sessions take and release addresses meanwhile: the loop variable only grows. The
  sessions of one process are finitely many here and take finitely many addresses,
  so no fairness of the lock is assumed; with connections coming in for ever it would
  have to be.
- Reader: weak fairness of its own steps, strong fairness of a successful read. A
  read may fail (`ReadFails`) between successes, not for ever with a packet there.
- Tunnel client: weak fairness of the retry timer, of the two timeouts (two-second
  timers) and of posted errors. Each redirection starts the wait for the header again
  (HttpClient.cpp:105-107), so the header's timeout is fair as long as they do not go
  on for ever. Nothing is assumed of server or network.
- HTTP session: weak fairness of tasks and write events, and of a peer that reads,
  to whom `TransferCompletes` is a promise. The timeout has no fairness.
- HTTP client: weak fairness of its own steps within a read, of posted errors, and of
  its timer unless it is started again for ever, by redirections or a downloader's
  reads (`Trickle`); none of the server.
- Daemon: weak fairness of its loop, strong fairness of a fork that succeeds (it is
  tried again every second), weak fairness of the server's pollers and of a child
  that got KILL. A child need not end for a TERM.

## 5. Proofs

All are checked by tlapm for every value of the constants, under the named
assumptions of the modules only (`PoolAssumption`, `NoPidAssumption`, ...): ends
of the range are naturals, bounds are positive, "none" is not a member, a file's
body has a mapping and nothing else has one (`BodyAssumption`), a chunked response
states by its last chunk what it has sent (`KindsAssumption`), a frame's and a
message's lengths are naturals (`FrameAssumption`, `MessageAssumption`), a path is
a sequence of bytes, and a file's name too, without a slash (`WantedAssumption`,
`NameAssumption`). One more hypothesis is stated in the
theorems themselves: those about HttpSession are for a peer that waits for each
answer (`~Pipelining`), since finding 3 refutes them otherwise.

**TunServer_proofs.** `TypeCorrect` from `TInv`, the type invariant with `CursorInv`:
past the check the cursor is set, and a search in the loop is at or above `Begin`;
without it `idx` could be taken outside the range. `AddressesUnique` and
`NoAddressLost`, both as long as no thread has `raced`, from `AllocInv`: until then
the thread that has the lock still finds the cursor where it set it, on a free
address, and `AllocatedIsHeld`, `HeldDisjoint`, `SessionInv` hold. `UniqueAddr` alone
is not inductive: an address is taken because the *map* does not contain it, so the
map has to be tied to what sessions hold (`AllocatedIsHeld`), also to what they forgot
(`HeldDisjoint`), and a session that has not asked must hold nothing (`SessionInv`).
The lemma `NextHoldings` says once what a step does to all holdings: nothing, one
taken, one given back, or a reset; both the induction and `ImplementsPool` (`Spec =>
Pool!Spec`, the refinement, in which the race is the pool's `Race`) rest on it.
`NoFreshAddressRefused` needs no such excuse, from `UsedInv`: everything below the
shared cursor, and below every thread's loop variable or snapshot, has been handed
out. A slow thread may set the cursor back, and then an address may be given twice; no
fresh one is jumped over.

In the same module `RoutesToOwner` and `OnlyOwnPacketsSent` from
`RoutesInv` with `AllocInv`: until an allocation fails every rule's key is the
address it matches and no key occurs twice; a session past `AddDispatcher` has its
rule; and whatever waits for a session or was sent to it is an address its peer
has been told or is just being told. The last is needed because a packet may be
dispatched between `InstallRule` and `SendReply`: it waits behind the reply.
Uniqueness of addresses is what keeps `InstallRule` from replacing a live
session's rule, so `RoutesToOwner` has the excuse for `raced`; the order of rule and
reply does not depend on it, and `OnlyOwnPacketsSent` has none.

**TunWsClient_proofs.** `AttemptOrRetry`, `ConfigBelongsToConnection`,
`RequestPrecedesPackets`, `ConfiguredHasTunnel`, `DecoyNeverWritten` from `CInv`,
whose `AttemptInv` ties the attempt's variables together: an open websocket has a
header and a live socket, and the callback leads to it only once it has sent its
request. For the decoy: a configured client's connection has answered beyond it.

In TunServer_proofs, about Process and Daemon, `ReapedByOne` from `ProcInv`: what
a task or a poller looks after belongs to no object, a child has one object, a
poller's child is dying. `OneReaper` alone does not survive a `Kill`, for which
two objects with one child must be excluded (`OneObject`). `NothingRunsOn` from
`StopInv`, which says for each place of the daemon which servers there can be
(`DaemonPlace`): none before a fork, one afterwards, and `pid` is that one once it
is assigned.

In TunWsClient_proofs, about TunReader, `PostedWasRead` and `SingleReaderInOrder`
from `ReaderInv`. What the device still has is newer than what was read
(`DeviceInOrder`); a thread between read and copy has a buffer that was read,
though perhaps by another thread (`ReadBefore`), which is all that can be said
with two readers; with one (`SinglePosts`) the buffer is exactly the packet it is
about to post. A thread of an earlier Start counts as one until it is gone, which
is why `PostedInOrder` names the threads on their way out too.

**SequenceLemmas** holds what the next two proofs and the links need: induction over
data. The library's induction theorems take an operator, which the provers cannot
instantiate, so `Induction` is stated for a *set* of naturals and proved from the
least counterexample. `Recursion` follows from it (what is defined by steps exists)
and `FlattenIs` from that: `FlattenSeq` by its steps. `FlattenLaidOut` then turns a
concatenation into positions: each piece has a start, its elements stand behind it,
and the starts are cumulative (`LaidOut`); `LaidOutCovers`, that every place belongs to
a piece; `Cut` and its followers, what a `SubSeq` holds.

**WebSocketMessages_proofs** is about the decoder and the endpoint.
*Decoder*: `FramesComplete` from `DecoderInv`. `Position`, the place in the stream up
to which the decoder has eaten, is the start of the frame after those completed, or
inside the payload of the frame in hand; what it keeps is exactly what has come
behind that place (`Behind(Position)`). `InFrame` says that the frame in hand is the
one after those completed, with an empty frame in hand as the exception: it is
complete and still there (`NoPayload` leaves `_got_header`), so that it may be
completed again. `ArrivedCompleted` alone says nothing between two calls of the loop.
*Endpoint*: `MessagesArriveWhole` and `PingsAreAnswered` from `MessageInv`: what the
endpoint keeps agrees (`Agrees`) with what the frames completed so far mean, worked out
frame by frame (`MeantSteps`), and its section is the payload so far, unmasked
(`FrameInHand`, with the opcode that answering an empty PING turned into a PONG's).
The unmasking is the key rotated at the payload's offset, hence `MaskGoesOn`.
`CompletionAgrees` is a frame's end, `AgainAgrees` the second end of an empty frame,
which adds nothing but an empty message or PONG: that is why the properties compare
what is not empty. Both proofs also cover the composed specification
(`EndpointFramesComplete`): each of its steps is one of the decoder's.

**HttpRequestSplitter_proofs.** `HandedOnIntact`, `HandedOnWhenArrived` and
`GivenUpOnlyForHuge` from `SplitterInv`. Again there is a place in the stream: at the
start of a head, inside a content, or behind the last message (`AtPlace`). Handed on are
the heads before it and the bytes of contents before it (`Handed`), kept is what
came behind it. Between calls (`Idle`) the part at the place is incomplete
(`PartLeft`), which is the second promise; during one (`Working`) it was incomplete
before the read, which is why the size that the *next* call compares with the limit is
that of an incomplete part and the third promise holds.

**HttpFileManager_proofs** is about three layers.
*Mappings*: `UsedIsMapped` from `MmapInv`: the users of a block are those who have
it, the last destroys it alone, a block is of one file, and what is not yet unmapped
has an address of its own. The record in the table may be older than the block it
refers to, which is why `OneFile` speaks of both. `RecordsRemoved` adds `RecordHeld`:
a record's block is somebody's, and has the record's address.
*Cookies*: `NothingLeaks` and `LimitKept` from `CookieInv`. `ClientLimit` counts the
map, but what evicts looks at the index: `IndexComplete` (a valid cookie of a user
not excused is in the index) and `IndexOwner` tie the two, and `ValidCounted` turns
that into a bound. Eviction makes room only if the oldest entry's cookie is in the
map, the first excused case; an index entry is replaced when times are equal, the
second. `SettleKeeps` says once what letting go does to the three tables.
*Access*: `SentWasGranted` from `AccessInv`: a cookie found is the request's own or its
user's, and from the callback on permission is there, given by this answer or by a
cookie. That it stays rests on `AttachGrows`: no cookie is ever changed, only added.
`ImplementsMmap` is the refinement (every step of a session is one of the mappings'
or none), and `SentIsMapped` carries the first layer's theorems over by it.
*Links*: `LinkDecoded`, for names of any bytes and length: what the client makes of a
menu's link (`Link`), decoded, is the entry's path, if the menu is one of
`LinksWritten`. A coded text is cut into pieces that spell a byte each (`Spells`), and
so is one put together of such texts (`SpellsJoin`): the directory of the URL, which
the client codes, the directory's own name, which nobody does, and the entry's. The
decoder is a recursive function from the place to the rest's decoding; `DecodingExists`
shows that there is one, from the end backwards, and that what it says is the path's
rest at the start of each piece follows by `Induction` (`SpelledIsRead`). `MenusLead` is
then `LinksLead`, with the request's URL and what was meant tied at every step.

**HttpSession_proofs.** `AnswersInOrder`, `ClosedAfterLast` and `AnnouncedClose` from
`SessionInv`. The order alone is not inductive: which part is sent next is decided
by the task queue and the senders' offsets. `PartsWait` says that the parts read and
not yet sent are in the queue, each once, ascending, with the end behind them, and
that a sender which has read all has none left; `StreamEnds` that the last part sent
is the last answer's, `SentTo` its number. `EarlierDone` and `Waiting` are what a peer
that waits brings about: answers before the last are complete, and no callback of
theirs is set. `Finished` is what holds from the moment a close is queued.

**HttpClient_proofs.** `SuccessIsWhole`, `OneEndOnly` and `CookiesGoHome` from
`ClientInv`, which follows a response through the client. `Arriving`: as long as the
head has not been read, what the splitter keeps, what the read brought and what the
wire has make up one response to the last request (`Holds`), perhaps behind surplus
bytes of an earlier one. `Counting`: from then on what is saved and what is ahead
make it up, and the counters agree. `Pending` keeps a second head from
coming, `Counted` bounds the requests a start leads to, `Reporting` ties the one end
to `_complete`, `Jar` the addresses: the connection's peer is `_last_host`, and every
cookie in the jar was given by the host it is kept under.

In HttpFileManager_proofs, about HttpBody, `PiecesFollow` (pieces without gap or
overlap), `RangeSent` (a range inside the file sends what Content-Range says; an
end of 0 is the file's end, so "bytes=0-0" sends the whole file), `FormReads` (a
form's pieces add up to its announced length while its file keeps its size).
`FilterTwice`, about DataFilter, is at the end of TunWsClient_proofs.

Every invariant that a passing run checks is a theorem. Only model-checked are the
liveness properties (TLAPS does not treat fairness and ENABLED here), the three
violation runs, and nothing else.

## 6. Findings

1. `TunReader_stop`: `Start` detaches the thread it makes, so `Stop` joins nothing
   and a reconnecting client has two threads in the one "select loop"
   (TalusTunInterface.cpp:40, TalusTunInterface.h:102).
2. `WebSocketMessages_early`: fragments that reach the limit are delivered as a
   message, unfinished and with the newest fragment twice (WebSocketSession.h:192),
   against the comment at line 191.
3. `HttpSession_pipelined`: with two files requested on one connection before the
   first is answered, the second sender takes the flush handler's place
   (HttpSession.cpp:376) and the first body stops, against the comment at line 245.

Met on the way, and excepted by name where a property would fail:

- The allocator's cursor may be set back (TunAddrAlloc.h:28) while another thread is
  between lines 39 and 41: then that thread's session has another address than the
  map knows, and another session may get the same (`raced`, section 3).
- Each redirection starts the wait for the header and the whole wait again
  (HttpClient.cpp:105-107, 190-191), and none is refused (HttpClient.h:170), so a
  server that redirects each request holds an attempt for ever; the comment at
  HttpClient.h:127 has the delay begin with the connection. `AttemptEnds` and
  `Reported` let a wait end with a redirection.
- The links of a menu asked for without its slash have the directory's name uncoded
  (`LinksWritten`, HttpFileManager.cpp:80, 146).
- An empty frame followed by more bytes is completed twice, so that an empty PING gets
  two PONGs (`PingsAnswered` asks for at least one).
- A requester started from inside its callback loses the new callback (`Reported`), and
  a downloader that is fed for ever is never timed out.
- The two cases of `ClientLimit`; a file granted with a cookie is never answered
  (`AnswerFile`).

## 7. What is not modelled, and why

- Torn accesses to `m_routerRules` (TalusTunInterface.h:89): undefined behaviour
  of the standard library's tree; any outcome would be a guess, and every property
  of the routes would fail in the same trivial way.
- In TunServer, what happens after a dangling callback beyond "the process dies or
  the packet is lost".
- In HttpRequestSplitter, `setContentLen` called from outside; in HttpSession,
  listeners of the HTTP event (the program installs none); a websocket's CLOSE may
  cut frames still buffered, which is why `CloseAfterLast` speaks of HTTP
  connections.
- In HttpClient, the request's own body (a redirected POST sends it from where the
  first left off) and what a downloaded file contains after an append.
- In HttpFileManager, content types, the HTML of a listing beyond its links, and
  virtual directories: the menu of "/" would list those of the configuration, uncoded
  (HttpFileManager.cpp:135), but none is configured and `getFilePath` never looks for
  one. A directory's link to its parent is left out.
- What the up and down scripts do, and the order in which two of them run: they are
  posted to pollers one by one (TalusTunInterface.cpp:95, 122). With `pid` -1 after
  a failed fork the daemon's handler signals -1; whom that reaches outside the
  program is not modelled, and no server runs at that time.
- `Parser` beyond "a header that cannot be parsed", `HttpConst`, `config`, the ini
  file, build files, certificates: no behaviour. Forms and ranges have theorems and
  no run. The IP refresh service is a program of its own that shares nothing.

## 8. Plan

Done, in this order: TunServer with AddrPool (the core), TunReader, TunWsClient,
WebSocketSplitter and WebSocketMessages (now one stack), HttpRequestSplitter,
HttpSession; Daemon and Process; SharedMmap, HttpCookieManager, UrlCoding,
FolderMenu and HttpFileManager; HttpClient and HttpCookie; HttpBody, DataFilter; the proofs
above, of every invariant. Next, most important first:

1. **Tunnel**: client and server composed over a lossy connection, against the
   abstract "virtual cable": what a configured client sends reaches the device of
   the other side or is lost, and nothing else arrives.
2. The request's body in HttpClient, with redirection.

The number of runs is kept small on purpose: related questions are asked in one
run of a composed module.

## 9. How to run

    tlc -workers 2 -config TunServer_routes.cfg MCTunServer.tla
    tlapm TunServer_proofs.tla

Each configuration is named after its specification; the module that goes with it
is in `PROJECT.json`. The passing runs explore, in distinct states:

| run | states | run | states |
|---|---|---|---|
| server | 384382 | session_answers | 8307 |
| reader_threads | 13102 | http_client | 83250 |
| client_life | 908 | file_access | 1324941 (up to symmetry) |
| messages_cut | 791100 | children | 31166 |
| requests_cut | 22618 | | |

They take from a second to two minutes, the proofs ten minutes or so from nothing. The
three violation runs stop with a trace: that is their result.
