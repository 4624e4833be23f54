----------------------------- MODULE PushServer -----------------------------
(***************************************************************************)
(* nativews/push_server.cpp and its wrapper Websockets_beta4 (pushserver.  *)
(* py): a thread that runs the handlers of an io_service, fed by the       *)
(* daemon's main thread through io.post.                                   *)
(*                                                                         *)
(* Handlers run one at a time.  Posted ones run in the order of their      *)
(* posting; the completion of a read, a write or an accept may come        *)
(* between any two of them.  A message is the version of the dictionary it *)
(* carries; version 0 is the empty welcomeWs and the null welcomeHttp the  *)
(* server starts with, and whatever their memory holds before that.        *)
(*                                                                         *)
(* boost::asio, as the code uses it: async_write hands its data to the     *)
(* socket in one or more pieces.  While one piece is refused the writes of *)
(* a socket wait in line; a write whose piece was taken goes back to the   *)
(* end of the line with the rest, from a handler of its own.  Writing      *)
(* nothing completes at once.  Destroying a socket completes its read with *)
(* an error.                                                               *)
(***************************************************************************)
EXTENDS Integers, Sequences, FiniteSets

CONSTANTS
    Client,        \* connections, each with its node of the clients list
    MaxClients,    \* argument of the constructor
    GarbageLimits, \* what the field may hold before it is initialized
    MaxVersion,    \* BOUND: dictionaries published
    Pieces,        \* BOUND: pieces of the longest message
    Stalled        \* peers that may stop reading for ever

ASSUME PushServerAssumption ==
    /\ MaxClients \in Nat /\ GarbageLimits \subseteq Nat
    /\ MaxVersion \in Nat /\ Pieces \in Nat \ {0}
    /\ Stalled \subseteq Client

VARIABLES
    life,       \* how far the main thread has got with the object
    limit,      \* the maxClients field, as the server thread reads it
    published,  \* versions given to change_dictionary so far
    tasks,      \* handlers posted and not yet run
    welcome,    \* the version in welcomeWs and welcomeHttp
    clients,    \* the list
    sock,       \* what the list's node and asio hold for each client
    crashed     \* the process died of undefined behaviour

vars == <<life, limit, published, tasks, welcome, clients, sock, crashed>>

Version == 0 .. MaxVersion
Task == [kind : {"welcome", "send", "close"}, v : Version]
Write == [v : Version, left : 1 .. Pieces]

(* The node: upgraded, last, pending are connectionUpgraded, lastPacket    *)
(* and pendingWrites.  asio: reading is the outstanding read, "stale" when *)
(* its handler outlives the node; queue the writes in line at the socket,  *)
(* redo those about to go back there with the rest, ok and bad the         *)
(* completions whose handlers have yet to run.  Ghosts: heard is the last  *)
(* version a started write carries, torn that two messages got mixed.      *)
SockType ==
    [upgraded : BOOLEAN, last : BOOLEAN, pending : Int,
     reading : {"none", "pending", "stale"},
     queue : Seq(Write), redo : Seq(Write), ok : Nat, bad : Nat,
     heard : Version, torn : BOOLEAN]

NewSock ==
    [upgraded |-> FALSE, last |-> FALSE, pending |-> 0, reading |-> "none",
     queue |-> <<>>, redo |-> <<>>, ok |-> 0, bad |-> 0,
     heard |-> 0, torn |-> FALSE]

TypeOK ==
    /\ life \in {"ctor", "started", "open", "closing", "gone"}
    /\ limit \in {MaxClients} \cup GarbageLimits
    /\ published \in Version
    /\ tasks \in Seq(Task)
    /\ welcome \in Version
    /\ clients \subseteq Client
    /\ sock \in [Client -> SockType]
    /\ crashed \in BOOLEAN

Init ==
    /\ life = "ctor" /\ limit \in GarbageLimits
    /\ published = 0 /\ tasks = <<>> /\ welcome = 0
    /\ clients = {} /\ sock = [c \in Client |-> NewSock]
    /\ crashed = FALSE

-----------------------------------------------------------------------------
(* The main thread.                                                        *)

(* MUTANT of ConstructorReturns: one more than asked for. *)
ConstructorRoundsUp ==
    /\ life = "ctor" /\ ~crashed
    /\ life' = "started" /\ limit' = MaxClients + 1
    /\ UNCHANGED <<published, tasks, welcome, clients, sock, crashed>>

(* The constructor starts the server thread before it initializes the      *)
(* fields declared after it: welcomeWs, welcomeHttp and maxClients.        *)
ConstructorReturns ==
    /\ life = "ctor" /\ ~crashed
    /\ life' = "started" /\ limit' = MaxClients
    /\ UNCHANGED <<published, tasks, welcome, clients, sock, crashed>>

(* Websockets_beta4.__init__: welcomeMessage(start_dict), and no send. *)
FirstDictionary ==
    /\ life = "started" /\ ~crashed /\ published < MaxVersion
    /\ life' = "open"
    /\ published' = 1
    /\ tasks' = Append(tasks, [kind |-> "welcome", v |-> 1])
    /\ UNCHANGED <<limit, welcome, clients, sock, crashed>>

(* MUTANT of ChangeDictionary: send, then welcomeMessage. *)
ChangeDictionarySwapped ==
    /\ life = "open" /\ ~crashed /\ published < MaxVersion
    /\ published' = published + 1
    /\ tasks' = tasks \o << [kind |-> "send", v |-> published + 1],
                            [kind |-> "welcome", v |-> published + 1] >>
    /\ UNCHANGED <<life, limit, welcome, clients, sock, crashed>>

(* Websockets_beta4.change_dictionary: welcomeMessage, then send. *)
ChangeDictionary ==
    /\ life = "open" /\ ~crashed /\ published < MaxVersion
    /\ published' = published + 1
    /\ tasks' = tasks \o << [kind |-> "welcome", v |-> published + 1],
                            [kind |-> "send", v |-> published + 1] >>
    /\ UNCHANGED <<life, limit, welcome, clients, sock, crashed>>

(* Websockets_beta4.stop: the destructor posts onClose and joins. *)
Destroy ==
    /\ life = "open" /\ ~crashed
    /\ life' = "closing"
    /\ tasks' = Append(tasks, [kind |-> "close", v |-> 0])
    /\ UNCHANGED <<limit, published, welcome, clients, sock, crashed>>

-----------------------------------------------------------------------------
(* async_write and lastPacket, on what is held for one client.             *)

Started(s, v) ==
    [s EXCEPT !.pending = @ + 1, !.queue = Append(@, [v |-> v, left |-> Pieces])]

LastPacket(s, v) ==
    IF s.last THEN s ELSE [Started(s, v) EXCEPT !.last = TRUE]

(* lastPacket of an empty string: the write completes at once. *)
LastPacketEmpty(s) ==
    IF s.last THEN s
              ELSE [s EXCEPT !.last = TRUE, !.pending = @ + 1, !.ok = @ + 1]

-----------------------------------------------------------------------------
(* Handlers posted by the main thread.                                     *)

ServerRuns == life # "gone" /\ ~crashed

NextTask(kind) ==
    /\ ServerRuns /\ tasks # <<>> /\ Head(tasks).kind = kind
    /\ tasks' = Tail(tasks)

OnWelcomeMessage ==
    /\ NextTask("welcome")
    /\ welcome' = Head(tasks).v
    /\ UNCHANGED <<life, limit, published, clients, sock, crashed>>

Listening(c) == c \in clients /\ sock[c].upgraded /\ ~sock[c].last

(* MUTANT of OnSend: the write is not counted. *)
OnSendUncounted ==
    /\ NextTask("send")
    /\ sock' = [c \in Client |->
                  IF Listening(c)
                  THEN [Started(sock[c], Head(tasks).v) EXCEPT
                          !.heard = Head(tasks).v, !.pending = @ - 1]
                  ELSE sock[c]]
    /\ UNCHANGED <<life, limit, published, welcome, clients, crashed>>

(* MUTANT of OnSend: those who are no websocket are sent the message. *)
OnSendNotUpgraded ==
    /\ NextTask("send")
    /\ sock' = [c \in Client |->
                  IF c \in clients /\ ~sock[c].upgraded /\ ~sock[c].last
                  THEN [Started(sock[c], Head(tasks).v) EXCEPT !.heard = Head(tasks).v]
                  ELSE sock[c]]
    /\ UNCHANGED <<life, limit, published, welcome, clients, crashed>>

OnSend ==
    /\ NextTask("send")
    /\ sock' = [c \in Client |->
                  IF Listening(c)
                  THEN [Started(sock[c], Head(tasks).v) EXCEPT !.heard = Head(tasks).v]
                  ELSE sock[c]]
    /\ UNCHANGED <<life, limit, published, welcome, clients, crashed>>

(* MUTANT of OnClose: no exception, io.run goes on. *)
OnCloseReturns ==
    /\ NextTask("close")
    /\ clients' = {}
    /\ sock' = [c \in Client |-> NewSock]
    /\ UNCHANGED <<life, limit, published, welcome, crashed>>

(* clients.clear(), and an exception that ends io.run: no handler runs any *)
(* more, and the destructor's join returns.                                *)
OnClose ==
    /\ NextTask("close")
    /\ clients' = {}
    /\ sock' = [c \in Client |-> NewSock]
    /\ life' = "gone"
    /\ UNCHANGED <<limit, published, welcome, crashed>>

-----------------------------------------------------------------------------
(* Completions of accepts and reads.                                       *)

(* onConnect.  A connection beyond the limit, or one that failed, is       *)
(* dropped, and the next one awaited all the same.                         *)
OnConnect(c) ==
    /\ ServerRuns
    /\ c \notin clients /\ sock[c].reading = "none"
    /\ Cardinality(clients) <= limit
    /\ clients' = clients \cup {c}
    /\ sock' = [sock EXCEPT ![c] = [NewSock EXCEPT !.reading = "pending"]]
    /\ UNCHANGED <<life, limit, published, tasks, welcome, crashed>>

ReadCompletes(c) == ServerRuns /\ c \in clients /\ sock[c].reading = "pending"

(* onClientData with an error or an end of file, or with data on a         *)
(* websocket: the last packet, and no further read.                        *)
OnClientLeaves(c) ==
    /\ ReadCompletes(c)
    /\ sock' = [sock EXCEPT ![c] = LastPacketEmpty([@ EXCEPT !.reading = "none"])]
    /\ UNCHANGED <<life, limit, published, tasks, welcome, clients, crashed>>

(* onClientData on a request that is neither of the two below: 404. *)
OnBadRequest(c) ==
    /\ ReadCompletes(c) /\ ~sock[c].upgraded
    /\ sock' = [sock EXCEPT ![c] = LastPacket([@ EXCEPT !.reading = "none"], 0)]
    /\ UNCHANGED <<life, limit, published, tasks, welcome, clients, crashed>>

(* Reading welcomeWs or welcomeHttp before they are constructed gets some  *)
(* bytes or kills the process.                                             *)
Constructed == life # "ctor"

(* GET /data.json: *welcomeHttp is evaluated, null or not, unless a last   *)
(* packet is on its way already.                                           *)
OnGet(c) ==
    /\ ReadCompletes(c) /\ ~sock[c].upgraded
    /\ sock' = [sock EXCEPT ![c] = LastPacket([@ EXCEPT !.reading = "none"], welcome)]
    /\ crashed' \in IF sock[c].last THEN {FALSE}
                    ELSE IF Constructed THEN {welcome = 0} ELSE BOOLEAN
    /\ UNCHANGED <<life, limit, published, tasks, welcome, clients>>

(* MUTANT of OnUpgrade: nothing is read from a websocket. *)
OnUpgradeUnwatched(c) ==
    /\ ReadCompletes(c) /\ ~sock[c].upgraded
    /\ sock' = [sock EXCEPT ![c] = [Started(@, welcome) EXCEPT
                  !.upgraded = TRUE, !.heard = welcome, !.reading = "none"]]
    /\ UNCHANGED <<life, limit, published, tasks, welcome, clients, crashed>>

(* A websocket handshake: the welcome message follows the header in the    *)
(* same write, and a read watches for the peer's departure.                *)
OnUpgrade(c) ==
    /\ ReadCompletes(c) /\ ~sock[c].upgraded
    /\ sock' = [sock EXCEPT ![c] =
                  [Started(@, welcome) EXCEPT !.upgraded = TRUE, !.heard = welcome]]
    /\ crashed' \in IF Constructed THEN {FALSE} ELSE BOOLEAN
    /\ UNCHANGED <<life, limit, published, tasks, welcome, clients>>

(* onClientData for a node already erased, with an error: lastPacket reads *)
(* freed memory.  It still holds lastPacket true, or another client's node *)
(* by now, or the process dies.                                            *)
OnStaleRead(c) ==
    /\ ServerRuns /\ c \notin clients /\ sock[c].reading = "stale"
    /\ LET quiet == [sock EXCEPT ![c] = [@ EXCEPT !.reading = "none"]]
       IN  \/ sock' = quiet /\ UNCHANGED crashed
           \/ \E d \in clients :
                sock' = [quiet EXCEPT ![d] = LastPacketEmpty(@)] /\ UNCHANGED crashed
           \/ sock' = quiet /\ crashed' = TRUE
    /\ UNCHANGED <<life, limit, published, tasks, welcome, clients>>

-----------------------------------------------------------------------------
(* Writes: what asio does with them, and their completion.                 *)

PartWritten(w) == w.left < Pieces

(* The socket takes n pieces of the write in front.  The message is torn   *)
(* when another one of this socket has been written in part only.          *)
SocketTakes(c, n) ==
    LET s == sock[c]
        w == Head(s.queue)
        rest == [w EXCEPT !.left = @ - n]
        others == s.redo \o Tail(s.queue)
    IN  /\ ServerRuns /\ s.queue # <<>> /\ n \in 1 .. w.left
        /\ sock' = [sock EXCEPT ![c] =
             [s EXCEPT !.queue = Tail(@),
                       !.redo = IF n < w.left THEN Append(@, rest) ELSE @,
                       !.ok = IF n < w.left THEN @ ELSE @ + 1,
                       !.torn = @ \/ \E i \in DOMAIN others : PartWritten(others[i])]]
        /\ UNCHANGED <<life, limit, published, tasks, welcome, clients, crashed>>

SocketRefuses(c) ==
    /\ ServerRuns /\ sock[c].queue # <<>>
    /\ sock' = [sock EXCEPT ![c] = [sock[c] EXCEPT !.queue = Tail(@), !.bad = @ + 1]]
    /\ UNCHANGED <<life, limit, published, tasks, welcome, clients, crashed>>

(* asio's own handler between two pieces. *)
WriteGoesOn(c) ==
    /\ ServerRuns /\ sock[c].redo # <<>>
    /\ sock' = [sock EXCEPT ![c] =
                  [sock[c] EXCEPT !.queue = Append(@, Head(sock[c].redo)), !.redo = Tail(@)]]
    /\ UNCHANGED <<life, limit, published, tasks, welcome, clients, crashed>>

(* MUTANT of OnWriteCompleted: a failure is dealt with first, and returns. *)
OnWriteCompletedErrorFirst(c, ec) ==
    LET s == IF ec THEN [sock[c] EXCEPT !.bad = @ - 1, !.pending = @ - 1]
                   ELSE [sock[c] EXCEPT !.ok = @ - 1, !.pending = @ - 1]
        erased == ~ec /\ s.last /\ s.pending <= 0
    IN  /\ ServerRuns /\ IF ec THEN sock[c].bad > 0 ELSE sock[c].ok > 0
        /\ clients' = IF erased THEN clients \ {c} ELSE clients
        /\ sock' = [sock EXCEPT ![c] =
             IF erased
             THEN [s EXCEPT !.reading = IF @ = "pending" THEN "stale" ELSE @]
             ELSE IF ec THEN LastPacketEmpty(s) ELSE s]
        /\ UNCHANGED <<life, limit, published, tasks, welcome, crashed>>

(* onWriteCompleted.  Erasing the node destroys the socket. *)
OnWriteCompleted(c, ec) ==
    LET s == IF ec THEN [sock[c] EXCEPT !.bad = @ - 1, !.pending = @ - 1]
                   ELSE [sock[c] EXCEPT !.ok = @ - 1, !.pending = @ - 1]
        erased == s.last /\ s.pending <= 0
    IN  /\ ServerRuns /\ IF ec THEN sock[c].bad > 0 ELSE sock[c].ok > 0
        /\ clients' = IF erased THEN clients \ {c} ELSE clients
        /\ sock' = [sock EXCEPT ![c] =
             IF erased
             THEN [s EXCEPT !.reading = IF @ = "pending" THEN "stale" ELSE @]
             ELSE IF ec THEN LastPacketEmpty(s) ELSE s]
        /\ UNCHANGED <<life, limit, published, tasks, welcome, crashed>>

-----------------------------------------------------------------------------
MainThread == ConstructorReturns \/ FirstDictionary \/ ChangeDictionary \/ Destroy

RunTask == OnWelcomeMessage \/ OnSend \/ OnClose

Reads(c) ==
    \/ OnConnect(c) \/ OnClientLeaves(c)
    \/ OnBadRequest(c) \/ OnGet(c) \/ OnUpgrade(c) \/ OnStaleRead(c)

SocketAnswers(c) == SocketRefuses(c) \/ \E n \in 1 .. Pieces : SocketTakes(c, n)

ThreadWrites(c) == WriteGoesOn(c) \/ \E ec \in BOOLEAN : OnWriteCompleted(c, ec)

Next ==
    \/ MainThread \/ RunTask
    \/ \E c \in Client : Reads(c) \/ SocketAnswers(c) \/ ThreadWrites(c)

Spec == Init /\ [][Next]_vars

(* io.run keeps running whatever handler is ready; the socket of a peer    *)
(* that reads, or is gone, takes or refuses what is in line.  Nothing is   *)
(* assumed of the main thread, of new connections, or of a stalled peer.   *)
FairSpec ==
    /\ Spec
    /\ WF_vars(RunTask)
    /\ \A c \in Client : WF_vars(ThreadWrites(c))
    /\ \A c \in Client \ Stalled : WF_vars(SocketAnswers(c))

-----------------------------------------------------------------------------
(* Properties.                                                             *)

(* INVARIANT: pendingWrites counts exactly the writes asio still has to    *)
(* complete for a listed client, in line, between two pieces, or with      *)
(* their handler queued; so a node is erased only when no write handler    *)
(* can name it any more (push_server.cpp:263-268).                         *)
PendingWritesExact ==
    \A c \in Client :
      LET s == sock[c]
          outstanding == Len(s.queue) + Len(s.redo) + s.ok + s.bad
      IN  /\ s.pending = outstanding
          /\ c \notin clients => outstanding = 0

(* INVARIANT: no client leaks: a node of the list is either watched by a   *)
(* read, which notices when the peer leaves, or has its last packet on the *)
(* way, whose completion erases it.                                        *)
ListedIsWatched ==
    \A c \in clients : \/ sock[c].reading = "pending"
                       \/ sock[c].last /\ sock[c].pending > 0

(* INVARIANT: no open websocket misses an update: the last version a write *)
(* to it carries is the one in welcomeWs, or a send of that one is next in *)
(* line.  Only a websocket opened before the very first dictionary is left *)
(* without it, for nothing sends that one.                                 *)
NoMissedUpdate ==
    \A c \in Client : Listening(c) =>
      \/ sock[c].heard = welcome
      \/ tasks # <<>> /\ Head(tasks) = [kind |-> "send", v |-> welcome]
      \/ sock[c].heard = 0 /\ welcome = 1

(* INVARIANT, refuted: the handler of a read names a client of the list    *)
(* ("client id", push_server.h:149).                                       *)
ReadNamesClient == \A c \in Client : sock[c].reading # "stale"

(* INVARIANT, refuted where a message needs two pieces: a message is sent  *)
(* whole ("message to send to connected clients", push_server.h:51).       *)
MessagesWhole == \A c \in Client : ~sock[c].torn

(* LIVENESS: a client whose last packet is started is erased, unless its   *)
(* peer stalls or the server dies.                                         *)
ClosingIsErased ==
    \A c \in Client \ Stalled :
      (c \in clients /\ sock[c].last) ~> (c \notin clients \/ crashed)

(* LIVENESS: the destructor's join returns, whatever is queued before it.  *)
DestructorReturns == life = "closing" ~> (life = "gone" \/ crashed)

(* REFINEMENT: to its subscribers the server is the feed of StatusFeed;    *)
(* a client subscribes with its handshake and leaves with its last packet. *)
Feed == INSTANCE StatusFeed WITH
          cur <- welcome,
          heard <- [c \in Client |-> IF Listening(c) THEN sock[c].heard ELSE -1]
FeedSpec == Feed!FeedSpec
=============================================================================
