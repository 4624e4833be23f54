---------------------------- MODULE StandardPush ----------------------------
(***************************************************************************)
(* PushService and StandardPush of pushserver.py: the daemon's main thread *)
(* broadcasts the status to plain TCP clients while the push thread, in    *)
(* its own select loop, accepts, greets and drops them.  Both work on the  *)
(* same two lists, without a lock.                                         *)
(*                                                                         *)
(* A step is what a thread does without the other being able to interfere: *)
(* the interpreter switches threads between two list operations and inside *)
(* a send, not inside an append or a remove.  Accepted sockets block, so a *)
(* send waits while the socket's buffer is full.  list.remove raises for   *)
(* an absent element; a send on a closed or reset socket raises, and so    *)
(* does select on a list with a closed socket in it.  An exception in the  *)
(* main thread is caught by the daemon's handler; in the push thread it    *)
(* leaves run() and ends the thread.                                       *)
(***************************************************************************)
EXTENDS Naturals, Sequences, FiniteSets

LOCAL INSTANCE SequencesExt

CONSTANTS
    Client,   \* connections; MaxConn + 1 are enough, see Accept
    MaxConn,  \* srv_max_conn
    SndBuf,   \* BOUND: messages a socket takes before a send waits
    Stalled,  \* clients that may stop reading for ever
    SrvSock,  \* srv_sock
    None,     \* no connection
    Faults    \* "bind": the port is taken; "accept": accept raises

ASSUME PushAssumption ==
    /\ MaxConn \in Nat /\ SndBuf \in Nat \ {0}
    /\ IsFiniteSet(Client) /\ Cardinality(Client) > MaxConn
    /\ Stalled \subseteq Client
    /\ SrvSock \notin Client /\ None \notin Client /\ SrvSock # None
    /\ Faults \subseteq {"bind", "accept"}

VARIABLES
    \* StandardPush, shared by the two threads
    status,       \* self.status
    running,      \* self.running
    connections,  \* self.connections, in the order of the list
    events,       \* self.events
    open,         \* socket objects not closed yet
    \* The threads
    main,         \* at: what it does next; conn, iter: of broadcast_message
    failed,       \* the last change_dictionary raised: the websocket server,
                  \* which comes after StandardPush, was not given the news
    push,         \* at: what it does next; conn, greeting, ready: of run
    \* The clients
    reset,        \* clients whose connection broke: a send to them raises
    buffer,       \* messages sent and not yet read
    \* Ghosts
    current,      \* clients last told the status as it is
    missed        \* clients the last broadcast could not bring up to date

netVars == <<reset, buffer>>
listVars == <<connections, events, open>>
ghosts == <<current, missed>>
vars == <<status, running, listVars, main, failed, push, netVars, ghosts>>

Message == {"open", "close"}

MainAt == {"idle", "next", "send", "blocked", "removeConn", "removeEvent",
           "websocket", "gone"}
PushAt == {"init", "waiting", "batch", "watch", "list", "greet", "send", "blocked",
           "ungreetConn", "removeConn", "removeEvent", "dead", "ended"}

Listed == {connections[i] : i \in DOMAIN connections}

TypeOK ==
    /\ status \in BOOLEAN /\ running \in BOOLEAN /\ failed \in BOOLEAN
    /\ connections \in Seq(Client)
    /\ events \subseteq Client \cup {SrvSock}
    /\ open \subseteq Client \cup {SrvSock}
    /\ main \in [at : MainAt, conn : Client \cup {None}, iter : Nat]
    /\ push \in [at : PushAt, conn : Client \cup {None},
                 greeting : Message \cup {"none"}, ready : SUBSET (Client \cup {SrvSock})]
    /\ reset \subseteq Client
    /\ buffer \in [Client -> 0 .. SndBuf]
    /\ current \subseteq Client /\ missed \subseteq Client

(* PushService.starting: both services exist, and the push thread starts. *)
Init ==
    /\ status \in BOOLEAN /\ running = TRUE
    /\ connections = <<>> /\ events = {} /\ open = {SrvSock}
    /\ main = [at |-> "idle", conn |-> None, iter |-> 1] /\ failed = FALSE
    /\ push = [at |-> "init", conn |-> None, greeting |-> "none", ready |-> {}]
    /\ reset = {} /\ buffer = [c \in Client |-> 0]
    /\ current = {} /\ missed = {}

-----------------------------------------------------------------------------
(* Lists and sockets.                                                      *)

Position(c) == CHOOSE i \in DOMAIN connections : connections[i] = c

(* An exception leaves change_dictionary, or run(). *)
MainRaises == main' = [at |-> "idle", conn |-> None, iter |-> 1] /\ failed' = TRUE
PushDies == push' = [at |-> "dead", conn |-> None, greeting |-> "none", ready |-> {}]

MainGoes(label) == main' = [main EXCEPT !.at = label] /\ UNCHANGED failed
PushGoes(label) == push' = [push EXCEPT !.at = label]
PushBatch == push' = [push EXCEPT !.at = "batch", !.conn = None, !.greeting = "none"]

(* conn.close().  What the network knows of a closed connection matters    *)
(* only to the other thread, when that is inside a send on it.             *)
InSend(t, c) == t.at = "blocked" /\ t.conn = c
Close(c, other) ==
    /\ open' = open \ {c}
    /\ IF InSend(other, c) THEN UNCHANGED netVars
       ELSE reset' = reset \ {c} /\ buffer' = [buffer EXCEPT ![c] = 0]

(* connections.remove(c), for a listed c.  A for loop over a list keeps an *)
(* index: what is removed before it moves the next element into the part   *)
(* already visited, and the loop passes it over.                           *)
RemoveConnection(c) ==
    /\ connections' = RemoveAt(connections, Position(c))
    /\ missed' = IF /\ main.at \notin {"idle", "gone", "websocket"}
                    /\ Position(c) < main.iter /\ main.iter <= Len(connections)
                 THEN (missed \cup {connections[main.iter]}) \ {c} ELSE missed \ {c}
    /\ current' = current \ {c}

SendRaises(c) == c \in reset

(* MUTANT of SendFits: a send never waits. *)
SendFitsAlways(c) == c \notin reset

SendFits(c) == c \notin reset /\ buffer[c] < SndBuf

StatusString == IF status THEN "open" ELSE "close"

Sent(c, msg) ==
    /\ buffer' = [buffer EXCEPT ![c] = IF c \in open THEN @ + 1 ELSE 0]
    /\ current' = IF msg = StatusString /\ c \in Listed
                  THEN current \cup {c} ELSE current \ {c}
    /\ UNCHANGED <<reset, missed>>

-----------------------------------------------------------------------------
(* The main thread: PushService.change_dictionary.                         *)

MainAlone == UNCHANGED <<running, push>>

(* StandardPush.change_dictionary(s), up to the loop of broadcast_message. *)
(* A greeting that was read from the status before will be late.           *)
ChangeDictionary(s) ==
    /\ main.at = "idle"
    /\ status' = s
    /\ main' = [at |-> "next", conn |-> None, iter |-> 1]
    /\ missed' = IF push.at \in {"send", "blocked"} THEN {push.conn} ELSE {}
    /\ current' = IF s = status THEN current ELSE {}
    /\ MainAlone /\ UNCHANGED <<listVars, failed, netVars>>

(* MUTANT of NextConnection: the index stays where it is. *)
NextConnectionAgain ==
    /\ main.at = "next"
    /\ IF main.iter <= Len(connections)
       THEN main' = [main EXCEPT !.at = "send", !.conn = connections[main.iter]]
       ELSE main' = [main EXCEPT !.at = "websocket", !.conn = None]
    /\ MainAlone /\ UNCHANGED <<status, listVars, failed, netVars, ghosts>>

(* The loop of broadcast_message goes to its next element, or ends. *)
NextConnection ==
    /\ main.at = "next"
    /\ IF main.iter <= Len(connections)
       THEN main' = [at |-> "send", conn |-> connections[main.iter],
                     iter |-> main.iter + 1]
       ELSE main' = [main EXCEPT !.at = "websocket", !.conn = None]
    /\ MainAlone /\ UNCHANGED <<status, listVars, failed, netVars, ghosts>>

(* connection.send(msg).  Once inside, close() by the other thread does    *)
(* not take the descriptor away from it.                                   *)
BroadcastSend ==
    LET c == main.conn
    IN  /\ \/ main.at = "send" /\ c \in open
           \/ main.at = "blocked"
        /\ SendFits(c)
        /\ Sent(c, StatusString)
        /\ main' = [main EXCEPT !.at = "next", !.conn = None]
        /\ MainAlone /\ UNCHANGED <<status, listVars, failed>>

(* MUTANT of BroadcastWaits: a client whose buffer is full is passed over. *)
BroadcastWaitsNot ==
    /\ main.at = "send" /\ main.conn \in open
    /\ ~SendRaises(main.conn) /\ ~SendFits(main.conn)
    /\ main' = [main EXCEPT !.at = "next", !.conn = None]
    /\ MainAlone /\ UNCHANGED <<status, listVars, failed, netVars, ghosts>>

BroadcastWaits ==
    /\ main.at = "send" /\ main.conn \in open
    /\ ~SendRaises(main.conn) /\ ~SendFits(main.conn)
    /\ MainGoes("blocked")
    /\ MainAlone /\ UNCHANGED <<status, listVars, netVars, ghosts>>

(* The except clause: close, connections.remove, events.remove. *)
BroadcastSendFails ==
    LET c == main.conn
    IN  /\ \/ main.at = "send" /\ (c \notin open \/ SendRaises(c))
           \/ main.at = "blocked" /\ SendRaises(c)
        /\ Close(c, push)
        /\ MainGoes("removeConn")
        /\ MainAlone /\ UNCHANGED <<status, connections, events, ghosts>>

BroadcastRemoves ==
    /\ main.at = "removeConn"
    /\ IF main.conn \in Listed
       THEN RemoveConnection(main.conn) /\ MainGoes("removeEvent")
       ELSE MainRaises /\ UNCHANGED <<connections, ghosts>>
    /\ MainAlone /\ UNCHANGED <<status, events, open, netVars>>

(* MUTANT of BroadcastForgets: events.remove is missing. *)
BroadcastForgetsNothing ==
    /\ main.at = "removeEvent"
    /\ main' = [main EXCEPT !.at = "next", !.conn = None]
    /\ MainAlone /\ UNCHANGED <<status, listVars, failed, netVars, ghosts>>

BroadcastForgets ==
    /\ main.at = "removeEvent"
    /\ events' = events \ {main.conn}
    /\ IF main.conn \in events
       THEN main' = [main EXCEPT !.at = "next", !.conn = None] /\ UNCHANGED failed
       ELSE MainRaises
    /\ MainAlone /\ UNCHANGED <<status, connections, open, netVars, ghosts>>

(* Websockets_beta4.change_dictionary, after the broadcast has returned. *)
WebsocketChanges ==
    /\ main.at = "websocket"
    /\ main' = [main EXCEPT !.at = "idle", !.iter = 1] /\ failed' = FALSE
    /\ MainAlone /\ UNCHANGED <<status, listVars, netVars, ghosts>>

(* PushService.stopping: disconnect_all closes whatever is in the lists,   *)
(* then the process exits; the push thread may still run until it has.     *)
Stopping ==
    /\ main.at = "idle"
    /\ main' = [main EXCEPT !.at = "gone"]
    /\ running' = FALSE
    /\ open' = open \ (Listed \cup events)
    /\ UNCHANGED <<status, connections, events, failed, push, netVars, ghosts>>

-----------------------------------------------------------------------------
(* The push thread: run.                                                   *)

PushAlone == UNCHANGED <<status, running, main, failed>>

(* init_service: bind raises when the port is taken, by another process or *)
(* by what the last run of the daemon left in TIME_WAIT.                   *)
InitService ==
    /\ push.at = "init"
    /\ \/ PushGoes("batch") /\ events' = events \cup {SrvSock}
       \/ "bind" \in Faults /\ PushDies /\ UNCHANGED events
    /\ PushAlone /\ UNCHANGED <<connections, open, netVars, ghosts>>

(* while self.running, and the call of select, when a batch is done. *)
Select ==
    /\ push.at = "batch" /\ push.ready = {}
    /\ IF ~running THEN PushGoes("ended")
       ELSE IF ~(events \subseteq open) THEN PushDies
       ELSE push' = [push EXCEPT !.at = "waiting", !.ready = events]
    /\ PushAlone /\ UNCHANGED <<listVars, netVars, ghosts>>

(* select returns: somebody connects, writes something or closes its end. *)
SelectReturns ==
    /\ push.at = "waiting"
    /\ \E inReady \in SUBSET push.ready :
         inReady # {} /\ push' = [push EXCEPT !.at = "batch", !.ready = inReady]
    /\ PushAlone /\ UNCHANGED <<listVars, netVars, ghosts>>

(* accept, and the length that it finds.  The two appends come after it,  *)
(* each on its own, and the main thread removes in between.  The listening *)
(* socket was put into events first, so it comes before every connection.  *)
(* Identities are only names: a new connection takes one that no list and  *)
(* no thread holds, and what in_ready still has of its last owner, which   *)
(* the loop would pass over, is dropped with it.                           *)
Accepting == push.at = "batch" /\ SrvSock \in push.ready /\ SrvSock \in open

Admit(c) ==
    /\ c \notin Listed \cup events \cup {main.conn}
    /\ open' = open \cup {c}
    /\ push' = [push EXCEPT !.at = "watch", !.conn = c, !.ready = @ \ {SrvSock, c}]
    /\ PushAlone /\ UNCHANGED <<connections, events, netVars, ghosts>>

(* MUTANT of Accept: <= for <. *)
AcceptOneMore(c) == Accepting /\ Len(connections) <= MaxConn /\ Admit(c)

Accept(c) == Accepting /\ Len(connections) < MaxConn /\ Admit(c)

(* events.append(conn) *)
WatchConnection ==
    /\ push.at = "watch"
    /\ events' = events \cup {push.conn}
    /\ PushGoes("list")
    /\ PushAlone /\ UNCHANGED <<connections, open, netVars, ghosts>>

(* connections.append(conn) *)
ListConnection ==
    /\ push.at = "list"
    /\ connections' = Append(connections, push.conn)
    /\ PushGoes("greet")
    /\ PushAlone /\ UNCHANGED <<events, open, netVars, ghosts>>

(* server_full(conn) *)
ServerFull ==
    /\ Accepting /\ Len(connections) >= MaxConn
    /\ push' = [push EXCEPT !.ready = @ \ {SrvSock}]
    /\ PushAlone /\ UNCHANGED <<listVars, netVars, ghosts>>

AcceptRaises ==
    /\ push.at = "batch" /\ SrvSock \in push.ready
    /\ SrvSock \notin open \/ "accept" \in Faults
    /\ PushDies
    /\ PushAlone /\ UNCHANGED <<listVars, netVars, ghosts>>

(* send_client_msg(conn, statusString()): the status is read first. *)
ReadGreeting ==
    /\ push.at = "greet"
    /\ push' = [push EXCEPT !.at = "send", !.greeting = StatusString]
    /\ PushAlone /\ UNCHANGED <<listVars, netVars, ghosts>>

SendGreeting ==
    LET c == push.conn
    IN  /\ \/ push.at = "send" /\ c \in open
           \/ push.at = "blocked"
        /\ SendFits(c)
        /\ Sent(c, push.greeting)
        /\ PushBatch
        /\ PushAlone /\ UNCHANGED listVars

GreetingWaits ==
    /\ push.at = "send" /\ push.conn \in open
    /\ ~SendRaises(push.conn) /\ ~SendFits(push.conn)
    /\ PushGoes("blocked")
    /\ PushAlone /\ UNCHANGED <<listVars, netVars, ghosts>>

(* The except clause: events.remove, connections.remove, close. *)
GreetingFails ==
    LET c == push.conn
    IN  /\ \/ push.at = "send" /\ (c \notin open \/ SendRaises(c))
           \/ push.at = "blocked" /\ SendRaises(c)
        /\ events' = events \ {c}
        /\ IF c \in events THEN PushGoes("ungreetConn") ELSE PushDies
        /\ PushAlone /\ UNCHANGED <<connections, open, netVars, ghosts>>

UngreetConnection ==
    /\ push.at = "ungreetConn"
    /\ IF push.conn \in Listed
       THEN /\ RemoveConnection(push.conn) /\ PushBatch
            /\ Close(push.conn, main)
       ELSE PushDies /\ UNCHANGED <<connections, open, netVars, ghosts>>
    /\ PushAlone /\ UNCHANGED events

(* MUTANT of ClientHandler: an event that is in no list stays ready. *)
ClientHandlerAgain(c) ==
    /\ push.at = "batch" /\ SrvSock \notin push.ready /\ c \in push.ready
    /\ c \in Listed
    /\ Close(c, main)
    /\ push' = [push EXCEPT !.at = "removeConn", !.conn = c, !.ready = @ \ {c}]
    /\ PushAlone /\ UNCHANGED <<connections, events, ghosts>>

(* A ready client: who says anything, or leaves, is dropped.  One that the *)
(* main thread removed since select returned is passed over.               *)
ClientHandler(c) ==
    /\ push.at = "batch" /\ SrvSock \notin push.ready /\ c \in push.ready
    /\ IF c \in Listed
       THEN /\ Close(c, main)
            /\ push' = [push EXCEPT !.at = "removeConn", !.conn = c, !.ready = @ \ {c}]
       ELSE push' = [push EXCEPT !.ready = @ \ {c}] /\ UNCHANGED <<open, netVars>>
    /\ PushAlone /\ UNCHANGED <<connections, events, ghosts>>

HandlerRemoves ==
    /\ push.at = "removeConn"
    /\ IF push.conn \in Listed
       THEN RemoveConnection(push.conn) /\ PushGoes("removeEvent")
       ELSE PushDies /\ UNCHANGED <<connections, ghosts>>
    /\ PushAlone /\ UNCHANGED <<events, open, netVars>>

HandlerForgets ==
    /\ push.at = "removeEvent"
    /\ events' = events \ {push.conn}
    /\ IF push.conn \in events THEN PushBatch ELSE PushDies
    /\ PushAlone /\ UNCHANGED <<connections, open, netVars, ghosts>>

-----------------------------------------------------------------------------
(* The clients.                                                            *)

NetAlone == UNCHANGED <<status, running, listVars, main, failed, push>>

Watched == (events \cap open) \ {SrvSock}

(* The connection breaks: a send to it raises from now on. *)
Resets(c) ==
    /\ c \in Watched \cup {d \in Client : InSend(main, d) \/ InSend(push, d)}
    /\ c \notin reset
    /\ reset' = reset \cup {c}
    /\ NetAlone /\ UNCHANGED <<buffer, ghosts>>

Reads(c) ==
    /\ buffer[c] > 0 /\ c \notin reset
    /\ buffer' = [buffer EXCEPT ![c] = @ - 1]
    /\ NetAlone /\ UNCHANGED <<reset, ghosts>>

-----------------------------------------------------------------------------
Broadcast ==
    \/ NextConnection \/ BroadcastSend \/ BroadcastWaits \/ BroadcastSendFails
    \/ BroadcastRemoves \/ BroadcastForgets \/ WebsocketChanges

Run ==
    \/ InitService \/ Select \/ ServerFull \/ AcceptRaises
    \/ \E c \in Client : Accept(c) \/ ClientHandler(c)
    \/ WatchConnection \/ ListConnection \/ ReadGreeting \/ SendGreeting \/ GreetingWaits \/ GreetingFails
    \/ UngreetConnection
    \/ HandlerRemoves \/ HandlerForgets

Next ==
    \/ \E s \in BOOLEAN : ChangeDictionary(s)
    \/ Broadcast \/ Stopping \/ Run \/ SelectReturns
    \/ \E c \in Client : Resets(c) \/ Reads(c)

Spec == Init /\ [][Next]_vars

(* The interpreter lets both threads run, and a client that is not stalled *)
(* reads what it was sent, or its connection breaks.  A greeting that      *)
(* waits is not overtaken for ever by broadcasts to the same client, which *)
(* come one for each change.  Nothing is assumed of new clients, of the    *)
(* daemon's news, or of what a client says.                                *)
FairSpec ==
    /\ Spec
    /\ WF_vars(Broadcast) /\ WF_vars(Run) /\ SF_vars(SendGreeting)
    /\ \A c \in Client \ Stalled : WF_vars(Reads(c))

-----------------------------------------------------------------------------
(* Properties.                                                             *)

MainRemoves(c) == main.at \in {"removeConn", "removeEvent"} /\ main.conn = c
PushRemoves(c) ==
    /\ push.at \in {"ungreetConn", "removeConn", "removeEvent"}
    /\ push.conn = c
PushLists(c) == push.at = "list" /\ push.conn = c

(* INVARIANT: whatever the two threads' removals do to each other, and     *)
(* whichever of them raises, they leave a connection in both lists or in   *)
(* neither, and no closed socket in events, once neither is at work on it  *)
(* (broadcast_message, send_client_msg and client_handler of pushserver.   *)
(* py, which take it out of the two lists in different orders).            *)
ListsAgree ==
    \A c \in Client :
      \/ MainRemoves(c) \/ PushRemoves(c) \/ PushLists(c)
      \/ /\ c \in Listed <=> c \in events
         /\ c \in events /\ main.at # "gone" => c \in open

(* INVARIANT: the cap of run() holds although the length is read without a *)
(* lock, two steps before the connection is appended, and the main thread  *)
(* removes in between: only the thread that read it appends, and only one  *)
(* connection for each time it was read.                                   *)
CapRespected == Len(connections) <= MaxConn

(* INVARIANT: when a broadcast has returned, a listed client was last told *)
(* the current status, except for those the loop passed over because an    *)
(* element before them was removed, and one whose greeting was read from   *)
(* the status before.  Nothing else makes a client stale.                  *)
StaleExplained ==
    main.at = "idle" /\ ~failed =>
      \A c \in Listed :
        \/ c \in current
        \/ c \in missed
        \/ push.conn = c /\ push.at # "removeEvent"

(* INVARIANT, refuted: a client that cannot be sent to is an error that is *)
(* not fatal ("Failed a message to a client", pushserver.py:108, with      *)
(* fatal=False): the push thread survives it, until the daemon stops.      *)
PushSurvives == running => push.at # "dead"

(* A bound on what the main thread still does in a broadcast: at most five *)
(* steps for each index that the loop can still reach under the cap.       *)
StepsAt ==
    [send |-> 5, blocked |-> 4, removeConn |-> 3, removeEvent |-> 2,
     next |-> 1, websocket |-> 0]
StepsLeft == 5 * (MaxConn + 1 - main.iter) + StepsAt[main.at]

(* ACTION PROPERTY: a broadcast gets on.  Whatever the push thread appends *)
(* to the list or removes from it under the index, each step of the main   *)
(* thread in change_dictionary ends it or brings its end nearer, so that   *)
(* only a send which waits can hold the daemon's loop.                     *)
BroadcastGetsOn ==
    main.at \notin {"idle", "gone"} =>
      \/ main' = main \/ main'.at = "idle"
      \/ StepsLeft' \in Nat /\ StepsLeft' < StepsLeft
BroadcastAlwaysGetsOn == [][BroadcastGetsOn]_vars

(* LIVENESS: a broadcast comes to its end, however clients come and go     *)
(* under its index, unless a client that has stalled holds it in a send.   *)
BroadcastReturns ==
    main.at = "next" ~>
      main.at = "idle" \/ (main.at = "blocked" /\ main.conn \in Stalled)

(* LIVENESS: the push thread is back in select after whatever it found     *)
(* ready, has ended, or is held in the greeting of a client that stalled.  *)
BatchReturns ==
    push.at = "batch" ~>
      \/ push.at \in {"waiting", "dead", "ended"}
      \/ push.at = "blocked" /\ push.conn \in Stalled
=============================================================================
