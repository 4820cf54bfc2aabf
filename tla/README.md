# Verification of MeetingRTSP

TLA+ models of the programs of this repository, checked with TLC and, where stated, proved with TLAPS.
The repository is a bachelor thesis' meeting system: one person shares a screen (the *host*), others watch
it (the *clients*), and a rendezvous server (*HexServer*) brings them together. The paths below are relative
to `src/`; `net/` and `xop/` are directories of `DesktopSharing(ServerO)/DesktopSharing/`, `Hex/` and `Rtp/`, `Rtsp/` of
`RtspClientSharp/RtspClientSharp/`.

## 1. The system

| Part | Where | State | Operations | Made correct by | Module |
|---|---|---|---|---|---|
| Session (control part) | `HexServer/Net/SessionServer.cs` | `_adminReply` (id -> reply), `ipClients`, the admin flag AIS, the last datagram | request task, UDP thread, TCP accept loop | every answer reaches the request it answers; clients are admitted before they know it, and refused for a reason | `SessionServer` |
| Session (proxy part) | same file, 197-281, 341-403 | proxies and their ports | `StartClient`, `DoOption` | ports told to the host are those the proxies listen on | - |
| Request handling | `HexServer/Net/ConnectionFunctions.cs`, `ConnectionManager.cs` | public keys, sessions, port table | `HMET` key, host and conn requests | one port and one session per meeting; requests reach their meeting | `Rendezvous` |
| Host and client network manager | `Hex/NetworkManager.cs` | control and data sockets; in direct mode fields shared by the threads of all clients | `HostSerMet`, `StartRecvAdmin`, `ConnMet`, direct mode | answers go to the asker and are the user's; retries are harmless | `DirectHost`, `Rendezvous`, `SessionServer` |
| Parsers, sockets, proxies | `LibNet/` | buffers | parse, send, receive, forward | no state of their own across messages | in the modules of their users |
| Task scheduler | `net/TaskScheduler`, `net/RingBuffer.h`, `net/Pipe` | ring of trigger events, pipe, stop flag | `AddTriggerEvent`, `Start`'s loop, `Stop` | accepted callbacks run once, in order; wakeups are not lost | `TaskScheduler` |
| Select scheduler, timers, event loop | `net/SelectTaskScheduler`, `net/Timer`, `net/EventLoop` | channels, timers, threads | `HandleEvent`, `HandleTimerEvent`, `Quit` | no callback into a dead object; the loop ends when told to | `TcpServer`, `ScreenLive` |
| TCP server | `net/TcpServer`, `net/Acceptor`, `net/TcpConnection` | `connections_`, channels, sockets | accept, read, close, remove, `Stop` | one owner per descriptor; `Stop` leaves nothing behind, and returns | `TcpServer` |
| Write side | `net/BufferWriter`, `HexPacket` | two queues of packets | `Append`, `Send`, `HandleWrite` | packets arrive whole and in order | `BufferWriter` |
| Read side | `net/BufferReader`, `LibHexCryptoStandard/Packet/HexNetworkController.cs` | bytes received | `Read`, `ParsePakets` | packets are cut where they were joined | - |
| RTSP server | `xop/RtspConnection`, `RtpConnection`, `MediaSession`, `RtspServer` | RTSP state, RTP sockets, sessions | RTSP requests, media packets | requests in any order are survived; descriptors are closed once, by who opened them | `RtspServer` |
| Screen sharing application | `ScreenLive.cpp`, `main.cpp` | capture, encoders, the published server, number of clients | `Init`, `Destroy`, `StartLive`, `StopLive`, the pipe thread's `exit(1)` | operations end with their mutex held; nothing is used after it is gone | `ScreenLive` |
| RTSP client library | `RtspClientSharp/` | one internal client per attempt, sockets, timers, packets out of order | connect, receive, keep alive, dispose; `ProcessPacket` | the player tries until it is stopped and leaks nothing; packets come out in order | `RtspClient`, `RtpSequenceAssembler` |
| RTSP pusher, RTMP, HTTP-FLV | `xop/` | | | not used by a meeting | - |
| Link of player and media server | `NamedPipe.cpp`, `Hex/IPC.cs` | pipe | confirmations, ports | compiled out of the media server now (`USE_PROXY` is 0) | - |
| Screen and sound capture, codecs, user interfaces, cryptography, vendored libraries | elsewhere | | | left aside | - |

How they interact. A host registers a meeting over TCP and gets the address of a session, which it then talks
to over UDP. A client's `HMET CONN` request starts a task on the server that asks the host over that UDP socket
and polls a table for the answer; with the answer the client connects to the session, whose TCP thread lets in the
endpoints the host allowed. Without a rendezvous server a client connects to the host itself, which exchanges keys with it and shows
the request to its user. The media then come from the host's media server, a C++ program built on the xop
library: one scheduler thread runs the callbacks of all sockets and a queue of *trigger events*, to which the
encoders and the user interface's thread add. The player's RTSP client asks for them, keeps the session alive, puts packets back in order, and
starts anew when anything fails.

What is hard: in HexServer, tasks and two threads share dictionaries without a lock, over a network that loses
datagrams. In the host's network manager the threads of all clients share one set of fields with the user interface. In the media server, events are
queued with a lock and taken without one; connections are closed on one thread and awaited on another, with mutexes held that others want;
closures and lists outlive what they point to; sockets take a part of what is sent to them, and descriptors are reused. In the
player, tasks that were given up go on beside their successors, because socket reads take no cancellation token.
`PROJECT.json` lists these hazards with their lines and the properties that cover each.

## 2. Modules

| Module | Models | Code |
|---|---|---|
| `SessionServer` | a session's control part with its request tasks, the host, the UDP network | `SessionServer.cs`, `ConnectionFunctions.cs:61-77`, `NetworkManager.cs:205-325` |
| `Rendezvous` | registration of keys, hosts and requests at the server | `ConnectionManager.cs`, `ConnectionFunctions.cs`, `NetworkManager.cs:205-235` |
| `DirectHost` | a host that clients connect to directly, its threads and its user | `NetworkManager.cs:327-600`, `LibNet/TCP`, the player's confirm loop and buttons |
| `EventQueue` | what the trigger-event queue promises (abstract) | - |
| `TaskScheduler` | the ring, the pipe, the scheduler's loop and `Stop`, at the grain of shared-memory accesses | `TaskScheduler.cpp`, `RingBuffer.h` |
| `TcpServer` | the life of the connections of one server, from accept to destruction, against `Stop` | `TcpServer.cpp`, `Acceptor.cpp`, `TcpConnection.cpp`, `SelectTaskScheduler.cpp` |
| `BufferWriter` | what a connection writes | `BufferWriter.cpp`, `HexPacket.cpp`, `TcpConnection.cpp:36-66, 156-208` |
| `RtspServer` | RTSP connections, their RTP connections, media sessions, an encoder, and all descriptors | `RtspConnection.cpp`, `RtpConnection.cpp`, `MediaSession.cpp`, `RtspServer.cpp` |
| `ScreenLive` | the media server's application with its threads and mutexes | `ScreenLive.cpp`, `main.cpp`, `EventLoop.cpp`, `Acceptor.cpp` |
| `RtspClient` | the player's loop, its tasks, timers, tokens and sockets | `RawFramesSource`, `RtspClient.cs`, `RtspClientInternal.cs` |
| `RtpSequenceAssembler` | reordering of RTP packets that came over UDP | `RtpSequenceAssembler.cs`, `ChunksArray.cs` |
| `MC...` | values of the constants for TLC | |
| `..._proofs` | theorems | |

They compose as the code does, each at the level the next one down has been checked to implement or promise.
`TcpServer` uses the trigger queue at the level `EventQueue` describes (push and take are atomic), which
`TaskScheduler` is proved to implement. `BufferWriter` is the inside of one of `TcpServer`'s open connections: where
`TcpServer` lets a send fail or succeed, it says how. `RtspServer` stands on `TcpServer`: it takes its removal of closed
connections as one event each (`RemovesItsOwn`), with a queue that has room and a server that is not stopped, and refines what a connection *is*.
`ScreenLive` starts and stops whole servers, and lets a connection that is to be closed close in one step, since
`TcpServer` has what is between. `Rendezvous` ends where it hands a request to the session's admin; `SessionServer` begins there. `RtspClient`'s
reading tasks hand packets to the assembler that `RtpSequenceAssembler` describes.

In each module the variables carry the names of the code's members, and each action the name of the function
whose step it is. A comment "Mutant:" marks a variant of the definition below it, with a mistake that could be made
in that code; it belongs to no behaviour, and shows that a property notices the mistake (`PROJECT.json`, "mutants").
Variables described as *history* are not in the code: they remember that something happened, so that a property can say for which
executions it holds.

**SessionServer.** A request is one value of `Req`; the datagram to the host carries it with the reply id, the
answer carries request, id and the host's choice. A ciphertext is abstracted to who can read it: the AData of an allowing answer to r,
encrypted with the key of r's client, is the value `r`. `GetNewIdReply`'s loop, the two halves of `Dictionary.Add`
(duplicate check, then insertion) and the two halves of `DoControlConnCom` are separate actions, for other tasks come in
between. The class `Dictionary` is not thread-safe: when two `Add` calls overlap either may lose its entry, and the history
variable `race` remembers that they did; `dups` counts datagrams delivered twice. The code guards against neither, so the
properties say what holds while they have not happened.

**Rendezvous.** A client waits for each reply before it sends the next request, so one program counter stands for it and its
task on the server. Registering a key, choosing a port, marking it, creating the session and adding it to the list are separate steps, as other
tasks come in between; `keysRaced`, `portRaced` and `listRaced` remember that two tasks were in one table. The host's one datagram is a message of its
own: `hellos` holds those under way, which go to whichever session has bound the port the host was told (`ReceiveHello`, `SetAdmin`; only its own
session's key decrypts it) or are lost (`LoseHello`); `lost` remembers the latter, `early` those that came before the session's socket
was bound. Neither is ever sent again (`NetworkManager.cs:230`). The list is an array and a size, so that two overlapping
`Add` calls may write one place. A port is 0 when none is left, and nothing gives one back.

**DirectHost.** Every accepted client has a thread on the host, but `client`, `stream`, `vkDes`, `id`, `conar`, `conreply` and `reply` are one
of each, and `updateScreen`'s loop and the two buttons use them too. Each access is an action. A read takes any prefix of the bytes that have
arrived and looks at the first message in the buffer, which may be one of an earlier read. `overlapped` remembers that a client was
accepted before an earlier one was done, `intruded` that a thread read another's stream; `Mixed` is either of them.

**TaskScheduler.** `AddTriggerEvent` is five steps of the calling thread (size test, lock, push test, store, publish,
pipe), `pop` three steps of the scheduler's, which holds no lock. Callbacks may themselves call
`AddTriggerEvent`, so the scheduler's thread is a caller too. `lost` collects events that were dropped, `crowded`
remembers whether a call began while another was between its size test and its push.

**TcpServer.** One scheduler thread (`EventLoop` is made with one) selects, dispatches the batch of ready
channels, runs trigger events and timers; `Stop` runs on another and its caller destroys the server when it returns
(`ScreenLive.cpp:219-230`). An object's state is `open`, `closed` (by `Close`, still in `connections_` or in a closure) or
`gone` (destroyed, its descriptor closed and free to be reused). On Windows `SOCKET` is unsigned, so a failed accept passes the test
`connfd > 0` (`Acceptor.cpp:63`) and becomes a connection with the descriptor `Invalid`, on which select fails from then on;
the constant `Unsigned` says so. A client can leave the backlog between select and accept, and `Stop` can
close the listening socket there, so this does happen.

**BufferWriter.** Sizes are units of ciphertext; a frame on the wire is the 8 byte header with the number of bytes it
announces, and the number that follow. RTSP messages go through the overloads for `shared_ptr` - `SendRtspMessage`, `RtspConnection.cpp:207`, although
`TcpConnection.cpp:35` calls them unused - and media packets through the others. The two differ when encryption fails,
which it always does for a key with a zero byte (`AesGcm.cpp:99` measures it with `strlen`): the media packet is dropped, the
RTSP message is put into `buffer_` without its HexPacket.

**RtspServer.** A client sends DESCRIBE, SETUP over TCP or UDP, PLAY and TEARDOWN in any order and hangs up whenever it likes; the handler of a
request is one action, for all of them run on the scheduler's thread. The encoder's thread collects the clients of a
session, turns weak pointers into references one at a time, and queues a media event that captures a raw `this`; which thread drops the last
reference, and so runs the destructors, is part of the state. `owner` is the operating system's view of a descriptor: who opened it, or that it
is free for anybody. Every close goes through one operator, which records in `foreign` that the descriptor
belonged to another object by then. `unbound`, `replaced` and `roamed` remember a UDP setup that found no ports, an RTCP channel that a
later SETUP replaced, and a connection that described two sessions.

**ScreenLive.** An operation is the sequence of steps it takes, with the early returns; a step that needs `mutex_` waits for it. The main thread
takes any operation after any other, and `exit(1)` may be called by the pipe's thread at any moment, running
`~ScreenLive` and `~EventLoop` beside it. The encoders take `mutex_` to push, the scheduler's thread `EventLoop`'s mutex in `OnAccept`, and `Quit`
joins that thread with it held. `cut` remembers that `exit(1)` overlapped an operation, `late` the clients a `Stop`
overlooked (`TcpServer`'s race), `setter` for which server the number of clients was written last.

**RtspClient.** Between two awaits a task runs in one action. There is one internal client for each attempt, with the
task that connects (dial, options, describe, and set-up and registration of each track), the task that keeps alive, and one that reads for each socket;
the loop watches each with a timer and the user's token. Given up, an internal client is disposed from the
loop's thread while its tasks may still run. `orphans` remembers tracks whose set-up failed after its answer had come or ended after `Dispose`.

**RtpSequenceAssembler.** `ProcessPacket` is a function of the assembler's state and the packet, with the list of buffered packets, the list that
maps each to a chunk, and `ChunksArray` with its stack of free chunks. A packet that came is its position in the stream and the place of its arrival
among all, so that copies can be told apart; its number is the position modulo `Modulus`, and a payload is the packet it was copied from. The loops are
recursive functions over the rounds. The network takes any packet next, or one again.
`jumped` remembers packets that were passed at once because they began a frame or lay behind too wide a gap, `doubled` that one came with the
number of the packet passed last or of one in the buffer.

## 3. Runs

| Run | Question | Bounds |
|---|---|---|
| `session` | Does each task read its own answer (`OwnAnswer`), is a client that knows it was allowed let in but for a cause (`RefusalHasCause`), does every client let in stem from an answer of the host (`AdmittedByHost`), does every allowing answer that arrives reach its client (`AllowedIsAnswered`)? | 2 requests, from the server's machine and from elsewhere, on one port; 2 ids, 1 repeated datagram, any lost |
| `rendezvous` | Have sessions ports of their own (`PortsDiffer`), is each listed once (`ToldIsListed`), does a request reach its meeting (`RequestReachesItsHost`), does each host, and no other, become the admin of its session but for a cause (`HostBecomesAdmin`)? | 3 hosts, two of one meeting; 1 guest; 2 ports, so that the last host may get none; any datagram late or lost |
| `direct` | Do only clients enter that the user confirmed (`OnlyConfirmedEnter`), is each answer the click made on that client (`AnswersTheClick`), is every request answered (`RequestIsAnswered`)? | 2 clients, one of which asks twice, so that one follows another and a late answer meets a second attempt |
| `scheduler` | Is no wakeup lost (`NoLostWakeup`), an event dropped only in a race (`LostOnlyWhenCrowded`), does the whole implement `EventQueue` (`ImplementsQueue`), is a pushed event run (`PushedIsRun`)? | ring of 2, three threads, 3 events, so that the ring fills and its positions wrap |
| `tcpserver` | Do channels only call what is alive (`ChannelsAreLive`), does each removal remove its own connection (`RemovesItsOwn`), does `Stop` return (`StopReturns`), is a client that left removed (`LeaverIsRemoved`)? | 2 clients and 2 failed accepts on 2 descriptors; a queue of 2 with 2 media events, so that it is full when it matters |
| `writer` | Does the payload arrive without gap or repetition (`NothingLostOrRepeated`), does waiting data have EVENT_OUT (`WaitingIsWatched`), is an encrypted packet sent (`AcceptedIsSent`)? | 4 packets of one and two units, a queue of 2 |
| `writer_framing` | Is the stream a sequence of packets as `HexPacket.cpp` documents it (`WireIsPackets`)? **Violated.** | 3 packets |
| `rtsp` | Does a living object close its own descriptors only (`ClosesItsOwn`), does a media event find its `RtpConnection` (`QueuedWhileOpenIsSafe`), are registered channels open (`RegisteredIsLive`), does a session list who described it (`DescribedIsListed`)? | 2 connections, 3 descriptors, 2 sessions, 1 channel, 1 frame; connections, descriptors and sessions are symmetric |
| `rtsp_udp` | The same of channels when one is set up over UDP again; is a closed connection destroyed (`ClosedIsDestroyed`)? | 1 connection, 5 descriptors: the RTSP socket and two pairs |
| `screenlive` | Is nothing used that is gone (`NoCrash`), is the number of clients the published server's (`CountIsTrue`), do operations (`OperationsReturn`) and `exit(1)` (`ExitEnds`) end? | 3 operations, 2 servers, 1 client |
| `rtsp_client` | Does the player stop only when told to (`EndsOnlyWhenStopped`) and then do so (`StopEnds`), are sockets of a given-up attempt closed (`NothingLeaks`), is a server that is gone noticed (`LossIsNoticed`)? | 2 attempts, 1 track, UDP or TCP |
| `assembler` | Has each packet its own payload (`PayloadIsOwn`), is none swallowed or passed too often (`NothingLost`), are they in order (`InOrder`), is none held for long (`HeldBriefly`)? | 7 packets of two frames, numbers modulo 16 that wrap in the first, `MaxCorrection` 4, 1 repeated |

The bounds are those at which each named situation occurs: two tasks compete for one id, at once and one after the other; a ring of two and three events wrap the positions; two clients and two failed
accepts need more than the two descriptors, two connections with a pair of RTP sockets more than three, so that they are reused; a second server makes
one replace another; seven packets, one of them twice, let the assembler, which holds three, fill, empty and fill again. Nothing in the code counts beyond that: the
real limits (50000 events, 500 packets, 64 sockets, 2^16 numbers) act as these do. Deadlock is not checked, because
each system may stop: requests, clients, events, operations and attempts are finite, and loops end. A thread waiting for ever on another is
what the liveness properties exclude.

What some properties do not promise, because the code does not:

  - `OwnAnswer` and the others of a session hold until two `Add` calls overlap (`race`), and where it
    matters until a datagram is duplicated (`dups`): an answer delivered twice can be stored under an id that has been given to another request.
  - `RefusalHasCause` names a cause that is always there for a client on another machine: the
    request carries the address of the *server's* end of the control connection (`ConnectionFunctions.cs:68`), the accept loop
    looks the client's own address up (`SessionServer.cs:423`).
  - `AdmittedByHost` has the accept loop let blocked clients in: `Blocked` is set and never read.
  - `Rendezvous`' properties except the executions in which two tasks met in one table. `HostBecomesAdmin` also excepts a host for which no port was
    left, and one whose one datagram was lost or came before the session's socket was bound: nothing confirms it and nothing sends it again, so
    that AIS is then never set and the guests of the meeting poll for ever. That is what the code does, and no later step repairs it; the property says that nothing else keeps a host
    from its session, and that no other host's datagram opens it.
  - `DirectHost`'s properties promise nothing once clients overlap (`Mixed`): answers then do go to the wrong client. A client that reads
    KEY OK and the host's key in one read waits for the key until it gives up.
  - `StopReturns` excepts a connection accepted after `Stop`'s loop and before the acceptor closes, and a
    `Disconnect` the full queue refused: in both cases `Stop` waits for ever (`TcpServer.cpp:67-72`), with `ScreenLive`'s mutex held.
  - `LockStep` excepts replies that could not be encrypted: each takes up one of the 500 places of `buffer_` from then on,
    and since `buffer_` is never empty again the channel keeps EVENT_OUT and the scheduler spins.
  - `AcceptedIsSent` excepts a refused `Disconnect` that made `HandleWrite`'s try_lock fail.
  - `ClosesItsOwn` ends with the first close of another's descriptor (`foreign`), which the code can do: an `RtpConnection` over TCP that the encoder keeps
    alive longer than its `RtspConnection` closes the RTSP socket a second time, and a failed UDP setup leaves descriptors
    behind that are closed again (`unbound`). `RegisteredIsLive` excepts RTCP channels that a later SETUP replaced
    (`replaced`), `DescribedIsListed` connections that described two sessions (`roamed`).
  - `NoCrash` excepts nothing for servers: no frame is pushed to one that is gone. It excepts a capture and encoder threads misused after
    `exit(1)` cut an operation short (`cut`), and `Init` called again after it failed with the encoder
    started, which assigns over joinable threads. `OperationsReturn` and `ExitEnds` except a client that a `Stop` overlooked (`late`).
    `CountIsTrue` excepts a number last written for another server (`setter`): `Destroy` does not reset it.
  - `EndsOnlyWhenStopped` names the race that ends the player's loop without a word: the server's BYE comes when a keep-alive is due.
    `NothingLeaks` excepts sockets of a track whose set-up failed after its answer had come, or was registered after `Dispose`.
  - `InOrder` asks of the network that it repeats no packet, that no packet is overtaken by one that begins a frame, lies behind a wide gap, or was
    the first of all, and that it does not lose nearly a whole turn of numbers in a row; being overtaken by others, however
    many, does no harm. `HeldBriefly` says nothing once a number came again while its packet was in the buffer or passed last (`doubled`): of two
    buffered copies one is passed with the run it belongs to, the other waits until the buffer is flushed or full.
    Its bound, 2 * `MaxCorrection` - 4, came out of the proof; the buffer can fill up, so that `ProcessPacket` gives the missing
    packet up (`RtpSequenceAssembler.cs:82`), only after such a repetition: without one the distances of buffered packets from the
    last one passed differ and lie between 2 and `MaxCorrection`, one fewer than there are places.

**Finding.** `writer_framing` shows that after a partial send the reader finds a second header in the middle of the bytes the
first one announced: `GetDataToSend` (`HexPacket.cpp:81-87`) announces all that remains of a packet, and
`Send` (`BufferWriter.cpp:178`) sends what the socket did not take under a new header.

Hazards that were seen and that no property covers, beyond those listed in `PROJECT.json`: a request task that meets a session without admin, or
a deny, polls for ever and keeps its id (`SessionServer.cs:515`, `168`; the model has these tasks, as `stuck` and waiting ones); `Start` clears a stop
that came before it (`TaskScheduler.cpp:45`); a batch taken before `Stop` may call `OnAccept` of a destroyed acceptor (`Acceptor.cpp:58`); `Stop`
reads `connections_` without its lock (`TcpServer.cpp:69`); a send of at most 8 bytes throws (`BufferWriter.cpp:174`); PLAY before DESCRIBE
uses a null pointer (`RtspConnection.cpp:400`; `RtspServer` has it as `crashed`); decoders are disposed while a frame is in them.

## 4. Fairness

`SessionServer`: weak fairness of each task and of the UDP thread, which the thread pool and the OS schedule. Nothing is assumed
of the host's answer, of clients, or of the network: `AllowedIsAnswered` starts when an allowing answer has arrived.
`TaskScheduler`: weak fairness of each thread inside a call and of the loop; none of `Timeout`, because a distant
timer makes select wait long, so that the pipe alone must wake the loop. `TcpServer`: weak fairness of the scheduler's thread and of the thread
in `Stop`, and strong fairness of a due timer, which the loop tests each time round (`TaskScheduler.cpp:46-51`) although between
two rounds a batch may be under way. `BufferWriter`: weak fairness of the thread, and strong
fairness of a send that takes something: a peer that reads makes a watched socket writable again and again, but between two
times `Disconnect` may hold the lock. Clients are never assumed to read, leave or arrive otherwise.

`RtspServer`: weak fairness of the scheduler's and the encoder's thread while nothing has crashed. `DirectHost`: weak
fairness of the confirm loop, of the user, who answers what is shown, and of each of the host's threads; nothing of clients. `ScreenLive`: weak fairness of every
thread, and strong fairness of getting `mutex_`, which an encoder releases again and again: it sleeps between two
frames, so that a waiter finds the mutex free. `RtspClient`: weak fairness of the loop's steps and of the timers it
sets, among them the receive time-out, and that *some* task that is ready runs; nothing of the server, of the network, or of the keep-alive timer.
`Rendezvous` and `RtpSequenceAssembler` have no liveness property: there is no timer in the assembler, so the
bound on waiting is the invariant `HeldBriefly`, which counts packets.

## 5. Proofs

TLAPS proves, for every value of the constants that the assumptions in the modules admit:

| Module | Theorem | Property |
|---|---|---|
| `SessionServer_proofs` | `TypeCorrect` | `TypeOK` |
| | `EntryOwnership` | `EntriesHaveOwners` |
| | `AnswerIsOwn` | `OwnAnswer` |
| | `RefusalsHaveCauses` | `RefusalHasCause` |
| | `AdmissionIsTheHosts` | `AdmittedByHost` |
| `Rendezvous_proofs` | `SessionsHaveTheirPorts` | `PortsDiffer` |
| | `SessionsAreListed` | `ToldIsListed` |
| | `RequestsAreRouted` | `RequestReachesItsHost` |
| | `HostsBecomeAdmins` | `HostBecomesAdmin` |
| `DirectHost_proofs` | `TypeCorrect` | `TypeOK` |
| | `ConfirmedEnter` | `OnlyConfirmedEnter` |
| | `AnswerIsTheClick` | `AnswersTheClick` |
| `TaskScheduler_proofs` | `TypeCorrect` | `TypeOK` |
| | `PopIsSafe`, `PushIsSafe` | `NeverRunsEmpty`, `NeverOverwrites` |
| | `WakeupsReachTheLoop` | `NoLostWakeup` |
| | `LossNeedsRace` | `LostOnlyWhenCrowded` |
| | `RingIsQueue` | `ImplementsQueue` (refinement of `EventQueue`) |
| `TcpServer_proofs` | `CallbacksHitLiving` | `ChannelsAreLive` |
| | `StopFindsAll` | `OpenIsListed` |
| | `RemovesTheClosed` | `RemovesItsOwn` |
| | `StopLeavesNothing` | `StoppedIsQuiet` |
| `BufferWriter_proofs` | `QueuesAgree` | `LockStep` |
| | `WireCarriesAccepted` | `NothingLostOrRepeated` |
| | `WaitingDataIsWatched` | `WaitingIsWatched` |
| `RtspServer_proofs` | `TypeCorrect` | `TypeOK` |
| | `DescriptorsAreOwned` | `ClosesItsOwn` |
| | `ChannelsAreOpen` | `RegisteredIsLive` |
| | `MediaFindsItsConnection` | `QueuedWhileOpenIsSafe` |
| | `ClientsAreListed` | `DescribedIsListed` |
| `RtspServer_proofs`, the application | `LiveTypeCorrect` | `ScreenTypeOK` |
| | `LiveNoCrash` | `NoCrash` |
| | `LiveCountIsTrue` | `CountIsTrue` |
| `RtspClient_proofs` | `LoopEndsForCause` | `EndsOnlyWhenStopped` |
| | `SocketsAreClosed` | `NothingLeaks` |
| `RtspClient_proofs`, the assembler | `AssemblerTypeCorrect` | `AssemblerTypeOK` |
| | `ChunksAlwaysSuffice` | `ChunksSuffice` |
| | `PayloadsAreOwn` | `PayloadIsOwn` |
| | `NoPacketIsLost` | `NothingLost` |
| | `HeldUntilDue` | `HeldBriefly` |
| | `PacketsInOrder` | `InOrder` |

`EntriesHaveOwners`, `NeverRunsEmpty`, `NeverOverwrites`, `OpenIsListed`, `StoppedIsQuiet`, `LockStep`, `ChunksSuffice` and the type invariants are stated by
theorems only: the runs check what follows from them. Each proof has one inductive invariant, `IInv` or the conjunction its last theorems name,
one lemma for each action, and theorems that follow from the invariant; none of the properties is inductive by itself.

*SessionServer.* That a task reads its own answer is not inductive: it must be known that the entry belongs to it, that the
datagrams and the half-stored answer that name its id are its own, and that an id is not given away while one of them is under way. The
invariant says for each id with an owner which request all answers with that id are for, and
that each request has at most one message, under way or being stored (`TokenInv`); conditions on `race` and `dups` go through it unchanged,
since both only grow. What the host decided is followed from the answer through `ipClients` to the accept loop, whatever `race` and `dups` are.

*Rendezvous.* The list is no longer than the tasks that have written it (`SlotInv`); a chosen port is marked or about
to be, by its own task (`PortInv`); as long as no two tasks were in the list together, it holds each begun session at one place (`ListInv`), which takes
cardinalities of finite sets; a bind fails only if two sessions have one port; and a
datagram is under way only from a host that is done, whose session's socket has therefore been tried or is about to be (`AdminInv`). So what becomes of the
datagram is decided when it arrives or is lost, and never changes.

*DirectHost.* As long as clients come one after the other, all of them but the last are done, nobody asks before its own key is
registered (`NoKeyYet`, and `KeyKnown` in `Serial`), and its request is at exactly one place on its way through `conar`, the confirm loop, the label, the click and
`conreply` to the answer (`UnderWay`).

*TaskScheduler.* The invariant says which thread holds the lock at which step, that between the positions of the ring exactly the
slots counted in `_numDatas` are filled, up to one that a producer has stored and not published and one that the scheduler
has taken and not uncounted, and that a byte is in the pipe, or about to be, when events wait and the loop is past its last test. The refinement
maps `queue` to the counted slots from `getPos` on, less one taken and not yet uncounted, and `ran` to the callbacks that have begun. Publishing a slot is the
abstract push, taking one the abstract start; every other step stutters. It needs besides that the event of a call under way is nowhere else: neither lost, running nor run,
and in no slot but the one being published (`EventInv`).

*TcpServer.* The queue is seen through two predicates, that it has an event and that it has it once. A closed connection that is still in `connections_` has one
removal under way, in the queue or with a timer, and its descriptor stays taken until that has run; so no removal is left when the descriptor
goes to another connection, and none when `Stop` has seen `connections_` empty.

*BufferWriter.* `NothingLostOrRepeated` is proved element by element (`Stream`): which packet each frame carries and where it takes up, that only
the first packet of the queue has been begun, and that the queue is what is left of the accepted packets.

*RtspServer.* `References` says what keeps each object alive: `connections_`, the encoder's list, `rtp_conn_`. `QueueInv` says that a closed connection has one removal in
the queue, behind all media events queued while it was open. `Descriptors` says, descriptor by descriptor, why it belongs to whom, and which
of them may be shared by the two objects of one connection. The runs have one media channel; the theorems hold for any number, exceptions included that
only arise with two.

*ScreenLive* is reasoned about in the module of the server that it runs; that is why its
definitions have names of their own (`ScreenNext`, `ScreenTypeOK`). What the threads may still do is data there, so the
invariant speaks of it: each thread's remaining steps are linked, each to one that may follow it in some operation (`PlanInv`); whoever is at a
step that takes the mutex holds it (`MutexInv`); the published server is alive, but for the moment before it is cleared, one that is to be published is alive
and nobody else's, and one that is being stopped is published only if clearing it comes next (`ServerInv`). Unless `exit(1)` cut an operation
short, one thread at most has steps left (`AloneInv`), and the flags agree with the capture and with the encoders' threads at every step (`EncoderInv`). `CountInv`
adds to `CountIsTrue` that before any callback has run, the published server and the one about to be have had no clients.

*RtspClient.* `SocketsOwned` says that an open socket of a track is registered, belongs to the exchange that is setting it up, or is
an orphan; `CanceledByToken` why a task that ended as canceled did; and attempts that were given up have been disposed of.

*RtpSequenceAssembler* is reasoned about in the module of the client that feeds it. Its one action computes with four nested loops; each is a
recursive function on the rounds, and each proof is an induction over the rounds of its own
(`LoopEnds` gives the function, `Iterated` what holds after every round), for which no theorem with an operator parameter is needed. The invariant `AsmInv` has three parts.
`Own`: list, map and chunks agree, each chunk belongs to one buffered packet or is free, and what is remembered is of the packet passed last.
`Accounted` and `Kept`: what is buffered and passed is what came, each at most once, and whatever came is there or bears the number of a packet passed
before it. `Brief`: without a repetition, buffered packets are at different distances from the last one passed, between 2 and `MaxCorrection`, and the
number of packets that came after one, plus its distance, never exceeds the number of buffered ones plus `MaxCorrection` - 1: every arrival either enlarges
the buffer or shortens all distances. Order needs more. `OrderInv` says that on an orderly network what has been passed is in row, that what is
buffered follows within reach and in the frame of the last one (`InRow`), and that a packet before the last one has come or is `Missed`: a packet that was taken at once, or
the first, has gone past it, so that it may not come any more (`Gapless`). From that, whatever comes is ahead of what was passed, by less than a turn of the numbers,
and the 16 bit difference is the true one (`Coming`). TLC checked `AsmInv` and `OrderInv` on the instance of the run before they were proved.

The assumptions are the modules' `ASSUME`s (capacities are naturals, sets of clients are finite, the special values differ from
the others, numbers wrap at more than one above the length of the assembler's buffer, 65536 against 256 in the code), which TLC evaluates in the runs.
`PacketsInOrder` alone also assumes `Frames`, that packets of one frame are sent one after the other: the sender stamps a frame once and
sends all its packets before the next one's. Only model-checked are the
eleven liveness properties, which need fairness and `ENABLED`, beyond the prover. `WireIsPackets` is violated and has no theorem.

## 6. Not modelled

Below the models' grain: the byte layout of messages, what RTSP requests say, sizes of reads, the select sets and their
reset flags, key handling. Relaxed memory orders: `_numDatas` is a sequentially consistent atomic, and orders the plain accesses to slots.
That `Stop` reads `connections_` without its lock (`TcpServer.cpp:69`) is below it too. So are

  - the `Dictionary` of replies (`SessionServer.cs:163, 191-193`) while one task removes, stores or looks up and another adds: these are one step each, and
    only the choice of an id and the two halves of `Add` are interleaved (`race`). What the class does when a removal or a resize overlaps an `Add` is
    not modelled. Between `ContainsKey` and the setter only a repeated answer can find the entry removed, which `dups` excepts;
  - the keys of `_udpClientsMap`, the server's two ports (`RtspClientInternal.cs:319-320`): the model's are the tracks. They differ for a server that
    names one port for two tracks, which then shares one entry;
  - an `InvalidOperationException` out of `ReceiveAsync` (`RtspClient.cs:173-176`), which `RawFramesSource.cs:77-83` does not catch and which would end the
    player's loop: no modelled path throws one (`GetStream` does for a socket that is known to be disconnected, but it is called once, right after
    the answer to PLAY was read from that socket);
  - a host's datagram that the network delivers twice: once AIS is set the second is no option message and is ignored (`SessionServer.cs:283-310`).

Left out of parts that are modelled:

  - the proxies of a session (`StartClient`, `DoOption`) and the port messages from host to media server: the pipe's other end is compiled
    out at this commit, so no meeting can go through them; moreover the host names the client's own address with the fixed port
    8554 there (`NetworkManager.cs:455-456`), whatever the proxies listen on;
  - how packets are cut from a stream (`TpktStream`, `BufferReader`, `HexNetworkController.Read`). The player's reader takes one read for one
    packet, so that what it makes of the stream depends on how the network cuts it; the finding above is the writer's part of that;
  - RTCP statistics, authentication and HTTP tunnelling of the client library; multicast and authentication of the server, which the application
    never switches on; the media parsers.

Left out whole: `RtspPusher`, RTMP and HTTP-FLV, which a meeting never starts, the epoll scheduler (Linux only), capture, codecs, user interfaces, cryptographic
algorithms, and vendored code (SDL2, FFmpeg's headers, imgui, libyuv, Crypto++), which is nearly all of the repository's text: the
models cover much of the project's own protocol code and a very small share of all lines. `PROJECT.json` lists
each part with its reason.

## 7. Plan

What remains worth doing, in this order:

 1. `FramedReader`: cutting packets from a stream of arbitrary reads in `BufferReader` and `HexNetworkController`, as functions compared
    with a reference, and composed with `BufferWriter` from end to end.
 2. An abstract meeting (asked, allowed or denied, joined) that `Rendezvous` with `SessionServer`, and `DirectHost`, both implement.
 3. `ProxyHandshake`: `StartClient`, `DoOption`, the host's port messages and the pipe's confirmation, should the proxy be switched on again.
 4. RTCP's statistics and the pure operators `Counter` and `HexPacket`; `RtspPusher`.
