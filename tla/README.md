# A TLA+ model of bits-daemon

`bits-daemon` keeps the state of a hackerspace seat: whether it is open or
closed, who is inside, its temperatures, the last message on its display. PHP
pages and a router in the seat (the *Fonera*) send it one-line commands; it
writes to MySQL, tells the Fonera, and pushes news to TCP clients and browsers.
These modules model that program from its source, check it with TLC on small
instances, and prove what matters most with TLAPS for instances of any size.

## The system

| Component | State | Operations | Talks to |
|---|---|---|---|
| `BitsService` (bits_service.py) | `events`, `php_connections`, `fonera_conn`, `fonera.connected`, `fonera.status`, the batch `in_ready` | `mainloop`, two accept paths, `php_message_handler`, `fonera_command_handler`, disconnections | PHP and Fonera sockets, Database, PushService; main thread |
| `Database` (database.py, sql/bits2.sql) | tables Status, Temperature, Message, Presence, Users; the link to MySQL | `status` (read, change), `user_enter`, `store_msg`, `store_temperature`, `query` with its reconnect | called by BitsService |
| `PushService` (pushserver.py) | the list of services | `starting`, `change_dictionary`, `stopping` | calls StandardPush, then Websockets_beta4 |
| `StandardPush` | `status`, `connections`, `events` | accept and greet, drop who talks, `broadcast_message` from the main thread | shared lists, no lock |
| `Websockets_beta4` | the native object | `welcomeMessage` at start; `welcomeMessage`, `send` on change; `del` | posts to the native thread |
| `PushServer` (nativews) | `clients`, `welcomeWs`, `welcomeHttp`, per client `pendingWrites`, `connectionUpgraded`, `lastPacket` | `onConnect`, `onClientData`, `onSend`, `onWelcomeMessage`, `onWriteCompleted`, `onClose` | browsers; one boost::asio thread |
| `Twitter` | `last_reply` | poll replies | its callback only logs |
| line protocols (bits_service.py) | none but TCP's buffers | `recv(2048)`, newline removal, `startswith`, `split`, `int`, `b64decode` | what the two message handlers read |
| pure C++ | none | `packAsTextFrame`, `base64_encode`, `base64_decode`, SHA-1 | called by PushServer |

Three threads run beside the main one: StandardPush, the native server's
io_service, and Twitter. Websockets_beta4 is a thread object with no `run`.

What is hard, and so what the properties are about (PROJECT.json lists each
hazard at its line):

- **Partial failure.** Every handler is a sequence of queries and sends, and a
  bare `except` ends it after any of them: the status may be stored and not
  adopted, adopted and not told, told and not pushed. `query` retries after a
  reconnect, but without the parameters, and returns the cursor of the lost
  connection.
- **State kept twice by hand.** `events` against `php_connections` and
  `fonera_conn`; `pendingWrites` against what asio really has queued; the status
  in MySQL, in the daemon, in StandardPush, in the websocket server and at the
  Fonera.
- **Stale state.** `in_ready` is computed before the handlers of the same batch
  run; a read handler holds an iterator into a list from which a write handler
  erases.
- **No lock.** StandardPush's two threads append to and remove from the same two
  lists, one of them in the middle of a `for` loop over one.
- **Order.** Posted handlers are in order, completions come between any two.
- **A stream is not lines.** One `recv` returns several commands or a part of one.
- **Time.** Timestamps are whole seconds of local time, they are primary keys
  and they decide which row is the newest.

What makes each component correct:

- BitsService: select watches exactly the live descriptors; nothing ends the
  main loop; between handlers every copy of the status agrees, or the failure
  that made them differ is of a named kind; a PHP command is answered.
- Database: a change reported is a change that reads back; a closed seat is
  empty; who enters is in.
- PushServer: it behaves as a simple feed, never misses an update, counts its
  writes exactly, leaks no client, and its destructor returns.
- StandardPush: the two lists stay in step and under the cap; after a broadcast
  every listed client has the current status or is stale for a known reason; no
  loop stops but for a client that does not read; neither thread dies of the
  other's removals (refuted).
- The way of a status: what is obeyed was sent, in order; the last status that a
  peer sends in whole lines is the one that the browsers show; the browser accepts
  the handshake and never loses its place among the frames.

## The modules

| Module | What it is |
|---|---|
| `Database` | The tables and each query as an action fragment with its outcomes: done, refused (duplicate key), link lost, done but the answer lost. |
| `BitsService` | EXTENDS `Database`. The main loop and its handlers. |
| `MCBitsService`, `MCBitsService*.cfg` | Instances for TLC. |
| `BitsService_proofs` | Types; the socket lists; no uncaught `list.remove`. |
| `BitsServiceStatus_proofs` | The statuses: told, recorded, coherent; a closed seat is empty. |
| `StatusFeed` | What a push server promises its subscribers. |
| `PushServer` | The native server, its wrapper's calls, and boost::asio as they use it; implements `StatusFeed`. |
| `MCPushServer`, `MCPushServer*.cfg` | Instances for TLC. |
| `PushServer_proofs` | Types; exact write counts; no client leaks. |
| `PushServerFeed_proofs` | No update is missed or skipped; the server implements `StatusFeed`, step by step. |
| `StandardPush` | `PushService.change_dictionary` and the push thread, list operation by list operation. |
| `MCStandardPush`, `MCStandardPush*.cfg` | Instances for TLC. |
| `StandardPush_proofs` | Types; the cap; the two lists; who is stale after a broadcast; that a broadcast is bounded. |
| `LineProtocol` | What the two message handlers read from a TCP stream. |
| `Base64` | base64.cpp, and RFC 4648 bit by bit as the reference. |
| `WebSocketStream` | EXTENDS `Base64`. `packAsTextFrame` and the handshake, against a browser that reads as RFC 6455 says. |
| `StatusPath` | Composes `LineProtocol` and `WebSocketStream` with the daemon's status between them. |
| `MCStatusPath` | Instance for TLC. |
| `Base64_proofs` | `base64_encode` is RFC 4648 and `base64_decode` inverts it, for every number of bytes. |
| `LineProtocol_proofs` | Lemmas: where every piece of a stream and of a message comes from, and what the commands of a message then are. |
| `StatusPath_proofs` | Types; what is obeyed was sent; the last status; frame headers and the browser's place; the handshake. |

Operators whose comment starts with MUTANT are wrong versions of the definition
they name. They are in no next-state relation; each breaks one property, to show
that the property says something about that code.

### Database

A row is abstracted to its primary key (plus the value of a status). `DbStatus`,
`DataDict` are what the SELECTs return. `Select`, `Insert` and `LogOut` give the
outcomes of `Database.query`:

- *SELECT*: on a lost link it reconnects, runs the text again, and returns the
  first cursor, out of which `fetchall` raises.
- *INSERT*: on a lost link the retry has no parameters and raises; a duplicate
  key raises; when the answer to the commit is lost the row is there, and the
  call raises.
- *UPDATE*: carries its values in the text, so its retry works.

`Tick`, `ClockStepsBack` and `LinkDrops` are the environment. `Faults` says which
faults an instance has: `db`, `clock`, `push` (a broadcast of StandardPush
raises), `kill` (SIGKILL), `interrupt` (Ctrl-C, which ends the daemon between
handlers and is swallowed by the bare `except` within one), `accept` (accept on a
socket whose peer has gone), `bind` (a port still taken when the daemon starts).

### BitsService

`pc` names the database call or send the running handler makes next, so that the
clock, the link, the peers and the operator act between two calls:

    php "status":  compare -> read -> insert -> (logout) -> adopt -> tell -> push
                                                   tell -> drop -> unlist -> push
    fonera status:            read -> insert -> (logout) -> adopt -> push
    enter, leave:  exists -> present -> (leave)
    message:       exists -> store -> push -> fonera -> (drop -> unlist)
    temperature:             store -> push
    sound:                                    fonera -> (drop -> unlist)

A send to the Fonera that fails disconnects it in two steps: the flag (`drop`), then
`events` and the close (`unlist`). `held` says that the call in progress is a send
whose peer reads nothing: sends block and have no timeout, so the daemon waits with
it (`Stall`) until the peer reads again, if ever. Ctrl-C in a handler
(`InterruptHandler`) skips the rest of it and the daemon goes on. Two ghosts keep
what that can break: `missed` (Ctrl-C came after a status was adopted and before the
Fonera was told or dropped) and `orphans` (a connection whose flag is reset and which
stays in `events`). So Ctrl-C may leave a connected Fonera with an old status: the
bare `except` at bits_service.py:276 catches `KeyboardInterrupt` too.

`job` is the message and its sender; `ready` is what is left of `in_ready`, the
listening sockets first, as `select` returns them. `Failed` is the bare `except`
of a handler. `daemon` says whether the process runs and, if not, why:
`"handler"` is an exception out of a `list.remove` that no `try` surrounds. `told`
is a ghost: the status last sent to the Fonera, or adopted from it. `std` and `ws`
are what the two push services were last given.

Abstractions: one line is one `recv`; the SELECTs of `data_dict` are one step, for
nobody but the daemon writes those tables; connection identities are reused once
nothing refers to them, and a peer connects only while one is free; the status of
a send is a choice. The order among ready connections is free, a superset of what
`select` does.

### PushServer

`tasks` is the queue of posted handlers; `sock[c]` is the list's node of a client
together with what asio holds for its socket: writes in line (`queue`), writes
between two pieces (`redo`), completions whose handlers are to be run (`ok`,
`bad`) and the outstanding read. A message is the version of the dictionary in it.
`limit` is the field `maxClients` as the server thread reads it: any member of
`GarbageLimits` until the constructor has initialized it; `welcomeWs` and
`welcomeHttp` come after it, so until then (`Constructed`) a GET or a handshake reads
objects that do not exist, and may end the process. The comparison is with `<=`, so
one client more than `maxClients` gets in. An HTTP request is
abstracted to its three outcomes. `reading = "stale"` is a read whose handler will
be run with the iterator of an erased node; `OnStaleRead` then has the outcomes of
undefined behaviour: nothing, another client's node, or the end of the process.
`GET` before the first dictionary dereferences a null pointer and ends it too.

asio is external: it is modelled from how the code uses it, by its documented
behaviour, that `async_write` is a sequence of `async_write_some` and that writes
which overlap on one socket may interleave.

### StatusFeed

The current version and, for each subscriber, the last one it heard. A
subscription hears the current version at once; the version changes only when
everybody has heard the one before it. One exception is in the code: the first
dictionary is only a welcome, so those who subscribe before it wait for the
second. `PushServer!FeedSpec` is this specification with `cur` as `welcome` and
`heard` as the last version a write to a client carries, while it listens.

### StandardPush

A step is what one thread does before the other can interfere: the interpreter
switches threads between two list operations and inside a blocking `send`.

    main: idle -> next -> send (-> blocked) -> next ... -> websocket -> idle
                             \-> removeConn -> removeEvent -> next
    push: init -> batch -> waiting -> batch
          batch -> watch -> list -> greet -> send (-> blocked) -> batch
                                                 \-> ungreetConn -> batch
          batch -> removeConn -> removeEvent -> batch

Between `batch`, where the number of connections is compared with the cap, and `list`,
where the new one is appended, the main thread may remove any of the others, and in
`watch` and `list` it may be anywhere in its loop.

`main.iter` is the index that a Python `for` loop keeps; `push.ready` is `in_ready`.
`select` returns any non-empty part of what it watches, for a client may talk or
leave at any time. `open` is the set of sockets not closed: a closed socket in
`events` makes `select` raise, and a `send` on it raises, except that a `send` in
progress keeps its descriptor. Accepted sockets block (the listening one does not
hand its mode down), so a `send` to a full `buffer` waits. `reset` holds the clients
whose connection broke. An exception in the main thread goes to the handler that
pushed, and `failed` says so; in the push thread it ends the thread. A new
connection takes a name that no list and no thread holds, so as many clients come
and go as a behaviour is long. `current` (last told the status as it is) and
`missed` (passed over by the loop, or greeted with what was read before) are ghosts.

In `BitsService` a broadcast is one step, which may raise (fault `"push"`); this
module is what is inside it, and `PushSurvives` and `failed` show the cause.

### LineProtocol

Text is a sequence of pieces: each command's name in two halves, digits, blanks, a
base64 text, newlines. A `recv` takes any number of pieces; with `whole`, only up to
a newline. `Commands(msg)` is what the branches of a handler make of a message;
what they call may also raise (`CommandRaises`), which ends a PHP connection and
leaves the Fonera's. Not obvious, and followed here: newlines are deleted, so a
`recv` that has nothing else counts as a disconnection; `split("status ")[-1]` takes
the last of several commands; the arguments of `message`
and `temperature` are elements of `split(" ")`; `b64decode` stops at padding.
`LineAssumption` says what a peer sends: lines that a handler has a meaning for (a
status of one digit, a number, a number and a text, two numbers). It says nothing of
how many there are or what `recv` makes of them.

A base64 text is one piece, and not cut: a part of one decodes to a part of the
message or raises, depending on its length. That is a bound of the model. What
follows a text may be cut, and decodes with it when it is letters in fours, as the
halves `stat` and `mess` of the next command are (`FourLetters`). A number is cut: that
a command with a part of a number is obeyed is a limit of the protocol, so
`WholeLinesWereSent` speaks of uncut lines; statuses are one digit, and
`StatusesWereSent` holds however TCP cuts.

`link` is the connection: `"closing"` when the peer has hung up and what it sent is
still to be read, `"gone"` when the daemon has read the end, `"dropped"` when it closed
the connection itself. The end may also come as a reset, before everything is read:
what is left in `stream` then is lost.

### Base64, WebSocketStream and StatusPath

A base64 character is its index in `base64_chars`; the decoder's `npos` for a missing
character is 255, as in the `unsigned char` it is stored in. A frame is the bytes
`packAsTextFrame` puts before the text, with the status in the text and its length;
the browser accepts `Sec-WebSocket-Accept` only if it is the RFC's encoding of the
hash, and is `"lost"` when a header is not the RFC's for the length. SHA-1 is a
constant: the set of hashes it returns. `StatusPath` joins the two ends: a status
command sets the daemon's status and, if that is another, pushes; messages (of users
that exist) and temperatures push as well. A handler that raises may have adopted the
status without pushing it, or pushed a message that the Fonera is not shown (`Fail`).
What else happens between (queries, two threads) is the subject of the other modules,
and is one step here.

## What is checked

| Run | Instance | Result |
|---|---|---|
| `daemon_calm` | 2 connections, 1 user and 1 unknown, 3 seconds, no fault but failing sends and duplicate keys; `FairSpec` | `TypeOK`, `AdoptedIsRecorded`, `StatusCoherent`, `ClosedMeansEmpty`, `FoneraAlwaysKnows`, `PhpStatusAnswered` hold (197 k states) |
| `daemon_stormy` | 3 connections, 2 seconds, all seven faults | `EventsConsistent`, `NoUncaughtError`, `FoneraTold` hold (5.8 M states) |
| `push_server` | 2 clients, one may stall, limit 1, garbage 0 or 5, 2 dictionaries in 2 pieces; `FairSpec` | `TypeOK`, `PendingWritesExact`, `ListedIsWatched`, `NoMissedUpdate`, `ClosingIsErased`, `DestructorReturns` hold (200 k states) |
| `push_feed` | 2 clients, limit 1, 3 dictionaries in one piece | `FeedSpec` holds (131 k states) |
| `standard_push` | 3 clients, cap 2, buffers of one message, one client may stall, bind and accept may fail; `FairSpec` | `TypeOK`, `ListsAgree`, `CapRespected`, `StaleExplained`, `BroadcastAlwaysGetsOn`, `BroadcastReturns`, `BatchReturns` hold (1.1 M states) |
| `status_path` | 3 lines of one peer, out of 4 of PHP's or 3 of the Fonera's, cut and merged in every way, the peer hanging up at any time; texts of 125, 126, 256 and 65535 bytes; a hash of 20 bytes; `FairSpec` | `TypeOK`, `StatusesWereSent`, `WholeLinesWereSent`, `LastStatusShown`, `HandshakeAccepted`, `FramesInStep`, `LastStatusArrives` hold (643 k states) |
| `daemon_enter` | no fault | `EnterLogsIn` is violated: `user_enter` passes `args=` to `query`, which has no such parameter (database.py:91) |
| `daemon_clock` | local time may go back | `AdoptedIsRecorded` is violated: `ORDER BY timestamp` finds an older row (database.py:59, 72) |
| `daemon_empty_table` | no fault | `EmptyTableIsClosed` is violated: `data_dict` assigns into a tuple (bits_service.py:80) |
| `push_stale_read` | 1 client | `ReadNamesClient` is violated: `erase` under an outstanding read (push_server.cpp:266) |
| `push_torn` | messages of 2 pieces | `MessagesWhole` is violated: overlapping `async_write`s (push_server.cpp:128) |
| `push_race` | no fault but broken connections | `PushSurvives` is violated: a broadcast that fails closes the client's socket before it takes it out of `events`, and `select` in the push thread raises on it (pushserver.py:109, 151) |

The violation runs state what a comment of the repository says; PROJECT.json
quotes it. The other runs have no unexpected result.

**Bounds.** Two connections are what a PHP client and a Fonera, or a Fonera and
the one that replaces it, need; the third of the stormy run lets a PHP client
watch a replacement. Connections are reused, so runs are long all the same. Two
seconds make duplicate keys and newer rows; three let a clock go back between two
rows. In the native server two clients show everything that one handler does to
the node of another; two versions make an update beyond the first dictionary
overlap a greeting; two pieces are the least that can be torn. `push_feed` has three
versions, for only the third one follows a version that a client may have been owed,
which is when the feed may skip. `MaxTime`, `Conns`, `MaxVersion` and `Pieces` are the
bounds, each named in its module. In StandardPush three clients and a cap of two put an
element before and one behind the loop's index, and a third at the door; `SndBuf` is one
message, so that a second waits. Identities are reused, so three clients are any number
over time. In `status_path` three lines are the least that one `recv` can end in the middle of and
another contain whole; `MaxLines` bounds them, and the dictionaries with them. The
lengths lie on both sides of the two limits of the header and of a byte; the theorems
below are about all lengths. The hash is one of twenty bytes, for its encoding ends
in one padding character and has digits of all places; `Rfc4648` is the check of the
places. Sockets (stormy run) are symmetric; no run with liveness uses symmetry.

**Deadlock** is checked for the daemon, which always waits for something. The
native server's runs set `CHECK_DEADLOCK FALSE`: it stops after `onClose`. So do
those of StandardPush, whose thread ends when the daemon stops or an exception ends
it, and `status_path`, whose peer has nothing left to say in the end.

**Fairness.** `BitsService!FairSpec`: a handler in progress goes on, for a query
returns in the end, and nothing else runs on that thread; a send returns unless its
peer holds it, and of a send that is held nothing is assumed. So `PhpStatusAnswered`
excepts a daemon held for good, which is what the code does. `PushServer!
FairSpec`: `io.run` runs the posted handlers and the completions that are ready
(asio starves none), and the socket of a peer that is not stalled takes or refuses
what is in line, for TCP does one or the other. Nothing is assumed of the main
thread, of new connections or of the peers in `Stalled`. `StandardPush!FairSpec`: the
interpreter lets both threads run; a client that is not stalled reads what it was
sent; and a greeting that waits for room is not overtaken for ever by broadcasts to
the same client (the one strong fairness: a broadcast is as rare as a change, and the
kernel wakes who waits). Nothing is assumed of `select`, so of what clients do, nor
of the daemon's news. `StatusPath!FairSpec`: the daemon serves a connection that has
something to read, and the browser reads; nothing of the peer.

`PhpStatusAnswered` and `DestructorReturns` are about one handler and one queue;
`ClosingIsErased` is not: a client's last packet may have any number of writes
before it, succeeding, failing, or going round in pieces. `BroadcastReturns` is about
a loop over a list which another thread changes: it ends because the index only
grows and the cap bounds the list, however often elements are removed and appended
behind it. `BroadcastAlwaysGetsOn` states that reason as a variant (`StepsLeft`).

## What is proved

Every safety property that a run checks and TLC finds true is a theorem of the
specification, for every value of the constants that satisfies the named assumptions
(`DatabaseAssumption`, `ServiceAssumption`, `PushServerAssumption`,
`PushAssumption`, `StreamAssumption`, `PathAssumption`, `LineAssumption`).

- `BitsService_proofs`: `TypeCorrect`, `EventsAlwaysConsistent`,
  `NoListRemoveRaises`. `EventsConsistent` is not inductive: nothing in it says
  that the connection a handler works for is still one the daemon knows. The
  invariant (`EventsInv`) adds that the client of a PHP handler in progress is in
  `php_connections`, and so in `events`, and that a Fonera about to be unlisted is
  still there. Each `list.remove` then finds its element.
- `BitsServiceStatus_proofs`: `FoneraAlwaysTold` under every fault, but for a Fonera
  in `missed`. Within a handler the two statuses may differ only from the assignment
  to the end of the send or of the disconnection, so `pc` is `tell` or `drop` there,
  and Ctrl-C at these two is what `missed` records. `FoneraKnowsWithoutInterrupt`,
  assuming `"interrupt" \notin Faults`: nobody is ever missed, so a connected Fonera
  knows.
  `AdoptedIsAlwaysRecorded`, assuming `"clock" \notin Faults`: the invariant is
  that no row is newer than `now` and no two rows share a second, and that a
  handler past its `INSERT` finds its own row newest. `StatusAlwaysCoherent`,
  assuming `Faults \subseteq {"accept"}`: a handler's `pc` says which copies of
  the status may still differ from the table. `ClosedAlwaysMeansEmpty`,
  assuming `Faults \cap {"db", "kill", "interrupt"} = {}`: between the `INSERT` of a
  closed status and the `UPDATE` that logs everybody out, and only there, a user may be
  present in a closed seat, and the handler goes on to that `UPDATE` (`EmptyInv`).
- `PushServer_proofs`: `TypeCorrect`, `PendingWritesAlwaysExact`,
  `ListedAlwaysWatched`. The strengthening `Books` says for a listed client that
  `pendingWrites` is exact, that its last packet is among the writes pending, and
  that it is watched or has its last packet started; for any other, that nothing
  is outstanding. `ListedIsWatched` alone does not survive a read that completes
  when the last packet is already on its way. Each operation on a node has a
  lemma, and one lemma (`OneClientKeeps`) lifts it to the function `sock`.
- `PushServerFeed_proofs`: `NoUpdateEverMissed`, `FeedImplemented` and
  `NoUpdateSkipped`. The first two need the
  shape of `tasks`: the handlers posted and not yet run are a line in which each
  welcome is followed by the send of its version, versions go up by one, and nothing
  follows the close. A listed node has then been sent everything up to the version at
  the front of that line, and the handlers in it send the rest. For the refinement
  each action of the server is the step of `StatusFeed` that it maps to: `OnWelcomeMessage`
  publishes, `OnSend` delivers, `OnClose` shuts down, a handshake subscribes, a read or a
  write that fails or ends a node leaves, and all others stutter. `NoUpdateSkipped` is
  what the refinement gives: a feed step leaves each subscriber at most one version
  behind, those of before the first dictionary apart (`GapInv`), so what it hears after
  one dictionary is that one again or the next.
- `StandardPush_proofs`: `TypeCorrect`, `CapAlwaysRespected`, `ListsAlwaysAgree`,
  `StaleAlwaysExplained`. The cap is compared two steps before the append; its
  invariant (`CapInv`) is that the connection in the push thread's hand has a place kept
  for it (`RoomLeft`), which holds because no other thread appends. `ListsAgree` says
  nothing while a thread is at work on a connection; the invariant (`ListsInv`) says which
  thread is then about to remove it
  from the other list, that nothing is listed twice, and that what a thread has
  removed stays removed. For stale clients the invariant (`StaleInv`) splits the list
  at the loop's index: what is before it is up to date but for what a removal moved
  across (`ToldAfterRemoval`), and a greeting about to be sent is the current status
  or of a client in `missed`. `BroadcastIsBounded` is the safety half of
  `BroadcastReturns`: the loop's index is at most `MaxConn + 1` (from the cap), so each
  step of a broadcast, of which there are at most `5 * MaxConn + 2`, lessens
  `StepsLeft`. Fairness alone is left for TLC.
- `Base64_proofs`: `EncodeIsRfc4648` and `DecodeInvertsEncode`, for every number of
  bytes: the digits of whole groups by arithmetic on the bits of three bytes
  (`DigitsOfTriple`), the padded last group by its two cases, and the decoder's search
  for the first padding character by where the encoder puts it. `Joined` and `Groups`
  are functions of an index, so no induction is needed.
- `LineProtocol_proofs` and `StatusPath_proofs`. The invariant (`LineInv`) gives every
  piece of the stream the line it was sent in and its place there (`Laid`): within a
  line places go up by one, and a later line begins after the end of the one before.
  A prefix, what follows it, and an append keep this. A message is the stream's front
  without newlines (`Indexes`), and what each branch of the handlers splits off is
  then found to be the argument of one line: for a number at the end of the message
  (`TailMeaning`) because after its keyword there are only digits and newlines, where no
  other line can begin; for texts and temperatures because a whole message begins with
  a whole line, and what follows it is a keyword (`KeywordIn`), which adds nothing to a
  number or to a decoded text. So a command obeyed is a line sent (`CommandMeaning`);
  that commands come in the order of the lines needs that a line that was obeyed is read
  to its end or being read (`AllRead`). Theorems: `StatusesAlwaysSent`, `WholeLinesAlwaysSent`,
  `TypeAlwaysOK`, `HeadersAreWellFormed`, `FramesAlwaysInStep`, `HandshakeAlwaysAccepted`
  (with the two theorems about base64) and `LastStatusAlwaysShown`: of whole status
  lines every message is a command, the last of its lines (`NumberAtEnd`), and the last
  frame on the way to a browser has the daemon's status (`ShownInv`) unless something
  raised between the two.

Induction over a message's pieces is needed once, for the removal of newlines. It is
done on a set of indexes with a least element (`WFMin`), for the prover cannot use an
induction theorem that takes a predicate.

Only model-checked: all liveness (`PhpStatusAnswered`, `ClosingIsErased`,
`DestructorReturns`, `BroadcastReturns`, `BatchReturns`, `LastStatusArrives`), for
fairness and ENABLED are beyond the prover.

## What is not modelled, and why

- Texts, temperatures, JSON, HTTP headers, logging: data no property tells apart.
- `Websockets` in pushserver.py: marked BROKEN, instantiated by nobody.
- `send_message`, `fonera_display_text`, `FoneraStatus.statusString`: no caller.
- config.py, the init script, CMake, SWIG, the manual tests: no program logic.
- SHA-1: third-party, pure, no state.
- The Twitter listener: it polls a service whose API is gone, shares no state with
  the rest, and its callback writes a log line; no property could be about it.
- The unused branches of StandardPush: `useThreads` is off in config.py, and
  `send_message` has no caller.
- Ctrl-C while a connection is accepted, or while a Fonera that hung up is
  disconnected: those steps are in no `try`, so it ends the daemon whatever step of
  them it hits, as `InterruptIdle` does. (The greeting of a Fonera is in a `try` of its
  own, where it is taken for a failed send.)
- A listener that is full of clients it has not accepted, and what the kernel queues
  (`listen`'s backlog): no property tells it apart from a client that comes later.

## Plan

Done: the daemon with its database and failures; the native server and its abstract
specification; the plain push thread; the line protocols and the browser's end,
composed; the safety of each, proved.

What is left is beyond the invariants of the runs:

1. The safety halves of the other liveness properties, as variants: `BatchReturns`,
   `DestructorReturns`.
2. An abstract specification of the plain push thread like `StatusFeed`, with the two
   ways of being stale as its exceptions, and that `StandardPush` implements it.
3. What a piece of a base64 text means, so that texts can be cut as numbers are.
