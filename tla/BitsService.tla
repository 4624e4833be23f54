---------------------------- MODULE BitsService ----------------------------
(***************************************************************************)
(* bits_service.py: one thread that selects on the two listening sockets,  *)
(* the PHP clients and the one Fonera, and runs a handler per ready        *)
(* descriptor.  A handler is modelled query by query and send by send (pc  *)
(* names the call it is about to make), because MySQL, the clock, the      *)
(* peers and the operator act between two calls.  The threads it feeds     *)
(* (StandardPush and the websocket server) appear as what the last         *)
(* change_dictionary left in them.                                         *)
(*                                                                         *)
(* One line from a peer is one message here: recv returns what one send    *)
(* wrote.                                                                  *)
(***************************************************************************)
EXTENDS Database, FiniteSets

CONSTANTS
    Conns,      \* identities of accepted sockets, reused once forgotten
    Uids,       \* userids a peer may name; those outside Users do not exist
    PhpSock,    \* self.php_sock
    FoneraSock, \* self.fonera_sock
    None        \* no connection, no argument, no job

Listeners == {PhpSock, FoneraSock}

ASSUME ServiceAssumption ==
    /\ PhpSock # FoneraSock
    /\ PhpSock \notin Conns /\ FoneraSock \notin Conns /\ None \notin Conns
    /\ Users \subseteq Uids

VARIABLES
    daemon,       \* "up", or why it is not: see TypeOK
    pc,           \* "select", or the call the running handler makes next
    job,          \* the message being handled and who sent it
    ready,        \* what is left of in_ready
    held,         \* that call is a send, and its peer reads nothing
    events,       \* self.events
    phpConns,     \* self.php_connections
    foneraConn,   \* self.fonera_conn
    connected,    \* self.fonera.connected
    foneraStatus, \* self.fonera.status
    told,         \* ghost: the status last sent to the Fonera, or adopted from it
    missed,       \* ghost: Ctrl-C took from the Fonera a status it was to be told
    orphans,      \* ghost: Foneras that Ctrl-C left half disconnected
    std,          \* StandardPush.status
    ws            \* the dictionary the websocket server was last given

svcVars == <<daemon, pc, job, ready, held, events, phpConns, foneraConn, connected,
             foneraStatus, told, missed, orphans, std, ws>>
callVars == <<pc, job, held>>
connVars == <<events, phpConns, foneraConn, connected>>
ghostVars == <<told, missed, orphans>>
pushVars == <<std, ws>>
vars == <<dbVars, svcVars>>

(* What a peer may say, when int() understands the argument. *)
PhpMessage ==
    [cmd : {"status"}, arg : BOOLEAN]
      \cup [cmd : {"enter", "leave", "message"}, arg : Uids]
      \cup [cmd : {"sound"}, arg : {None}]
FoneraMessage ==
    [cmd : {"status"}, arg : BOOLEAN]
      \cup [cmd : {"enter", "leave"}, arg : Uids]
      \cup [cmd : {"temperature"}, arg : {None}]

Job(from, conn, m) == [from |-> from, conn |-> conn, cmd |-> m.cmd, arg |-> m.arg]
Jobs == {Job("php", c, m) : c \in Conns, m \in PhpMessage}
          \cup {Job("fonera", c, m) : c \in Conns, m \in FoneraMessage}

NewsDict == [status : BOOLEAN, temp : SUBSET Seconds, msg : SUBSET Seconds]

(* daemon: "off" not started or killed, "boot" __init__ or server() raised, *)
(* "signal" ended by Ctrl-C, "accept" and "handler" ended by an exception  *)
(* that left mainloop, out of accept() or out of a list.remove.            *)
TypeOK ==
    /\ DbTypeOK
    /\ daemon \in {"off", "up", "boot", "signal", "accept", "handler"}
    /\ pc \in {"select", "compare", "read", "insert", "logout", "adopt",
               "tell", "drop", "unlist", "exists", "present", "leave", "store",
               "push", "fonera"}
    /\ job \in Jobs \cup {None}
    /\ ready \subseteq Conns \cup Listeners
    /\ held \in BOOLEAN
    /\ events \subseteq Conns \cup Listeners
    /\ phpConns \subseteq Conns
    /\ foneraConn \in Conns \cup {None}
    /\ connected \in BOOLEAN
    /\ foneraStatus \in BOOLEAN
    /\ told \in BOOLEAN
    /\ missed \in BOOLEAN
    /\ orphans \subseteq Conns
    /\ std \in BOOLEAN
    /\ ws \in NewsDict

NoNews == [status |-> FALSE, temp |-> {}, msg |-> {}]

Init ==
    /\ DbInit
    /\ daemon = "off"
    /\ pc = "select" /\ job = None /\ ready = {} /\ held = FALSE
    /\ events = {} /\ phpConns = {}
    /\ foneraConn = None /\ connected = FALSE
    /\ foneraStatus = FALSE /\ told = FALSE /\ missed = FALSE /\ orphans = {}
    /\ std = FALSE /\ ws = NoNews

-----------------------------------------------------------------------------
(* Starting.                                                               *)

(* __init__, then server().  data_dict writes into what Database.status    *)
(* returns, which is a tuple when the Status table has no row: __init__    *)
(* raises, as it does when MySQL cannot be reached; server() raises when   *)
(* an address it binds is taken.                                           *)
Boot ==
    /\ daemon # "up"
    /\ \E up \in (IF statusRows = {} THEN {FALSE} ELSE {TRUE})
                    \cup (IF Faults \cap {"db", "bind"} # {} THEN {FALSE} ELSE {}) :
         /\ daemon' = IF up THEN "up" ELSE "boot"
         /\ events' = IF up THEN Listeners ELSE {}
    /\ foneraStatus' = DbStatus
    /\ std' = DbStatus
    /\ ws' = DataDict
    /\ link' = "up"
    /\ pc' = "select" /\ job' = None /\ ready' = {} /\ held' = FALSE
    /\ phpConns' = {} /\ foneraConn' = None /\ connected' = FALSE
    /\ told' = FALSE /\ missed' = FALSE /\ orphans' = {}
    /\ UNCHANGED <<statusRows, tempRows, msgRows, present, now>>

-----------------------------------------------------------------------------
(* Connections.                                                            *)

(* fonera_disconnect, when nothing but the end of the daemon can come      *)
(* between its statements.                                                 *)
FoneraDisconnect ==
    /\ connected' = FALSE
    /\ events' = events \ {foneraConn}
    /\ UNCHANGED <<phpConns, foneraConn>>

(* php_disconnect_client.  list.remove raises for an absent element, and   *)
(* the call is never inside a try: that ends mainloop.                     *)
PhpDisconnectClient(c) ==
    /\ phpConns' = phpConns \ {c}
    /\ events' = events \ {c}
    /\ daemon' = IF c \in phpConns /\ c \in events THEN daemon ELSE "handler"
    /\ UNCHANGED <<foneraConn, connected>>

-----------------------------------------------------------------------------
(* The end of a handler.                                                   *)

Continue(label) == pc' = label /\ held' = FALSE /\ UNCHANGED <<daemon, job, ready>>

(* The handler returns, with no change to the connections of its own. *)
Return ==
    pc' = "select" /\ job' = None /\ held' = FALSE /\ UNCHANGED <<daemon, ready>>

(* MUTANT of Failed: a PHP client is not dropped either. *)
FailedOnlyLogs ==
    /\ pc' = "select" /\ job' = None /\ held' = FALSE
    /\ UNCHANGED <<ready, daemon, connVars>>

(* A call raised: the bare except of the handler drops a PHP client, and   *)
(* only logs for the Fonera.  SystemExit and KeyboardInterrupt are caught  *)
(* too.                                                                    *)
Failed ==
    /\ pc' = "select" /\ job' = None /\ held' = FALSE /\ UNCHANGED ready
    /\ IF job.from = "php" THEN PhpDisconnectClient(job.conn)
                           ELSE UNCHANGED <<daemon, connVars>>

-----------------------------------------------------------------------------
(* mainloop: select, then the handler of each ready descriptor.            *)

Idle == daemon = "up" /\ pc = "select"
Running == daemon = "up" /\ pc # "select"

(* A socket object that nothing refers to any more. *)
Fresh(c) == c \notin events \cup ready \cup phpConns \cup {foneraConn}

(* select.  BOUND: a peer connects only while Conns has an identity for it. *)
SelectEvents ==
    /\ Idle /\ ready = {}
    /\ ready' \in SUBSET events \ {{}}
    /\ Cardinality(ready' \cap Listeners) <= Cardinality({c \in Conns : Fresh(c)})
    /\ UNCHANGED <<dbVars, daemon, callVars, connVars, foneraStatus, ghostVars, pushVars>>

(* in_ready keeps the order of self.events: the listening sockets, which   *)
(* were put there first, come before every connection.                     *)
NextReady(e) ==
    /\ Idle /\ e \in ready
    /\ e = FoneraSock => PhpSock \notin ready
    /\ e \in Conns => ready \cap Listeners = {}
    /\ ready' = ready \ {e}

AcceptPhp(c) ==
    /\ NextReady(PhpSock) /\ Fresh(c)
    /\ events' = events \cup {c}
    /\ phpConns' = phpConns \cup {c}
    /\ UNCHANGED <<dbVars, daemon, callVars, foneraConn, connected,
                   foneraStatus, ghostVars, pushVars>>

(* MUTANT of AcceptFonera: the connection before it stays in events. *)
AcceptFoneraKeepsOld(c) ==
    /\ NextReady(FoneraSock) /\ Fresh(c)
    /\ foneraConn' = c
    /\ \E sent \in BOOLEAN :
         /\ connected' = sent
         /\ events' = events \cup (IF sent THEN {c} ELSE {})
         /\ told' = IF sent THEN foneraStatus ELSE told
         /\ missed' = (missed /\ ~sent)
    /\ UNCHANGED <<dbVars, daemon, callVars, phpConns, foneraStatus, orphans, pushVars>>

(* MUTANT of AcceptFonera: the new one is not told the status. *)
AcceptFoneraUntold(c) ==
    /\ NextReady(FoneraSock) /\ Fresh(c)
    /\ foneraConn' = c /\ connected' = TRUE
    /\ events' = (IF connected THEN events \ {foneraConn} ELSE events) \cup {c}
    /\ UNCHANGED <<dbVars, daemon, callVars, phpConns, foneraStatus, ghostVars, pushVars>>

(* A new Fonera takes the place of the one before it, and is told the      *)
(* status at once; the send may fail already.  One step: no handler runs,  *)
(* so Ctrl-C ends the daemon (InterruptIdle), and the buffer of a new      *)
(* connection has room for a status.                                       *)
AcceptFonera(c) ==
    /\ NextReady(FoneraSock) /\ Fresh(c)
    /\ foneraConn' = c
    /\ \E sent \in BOOLEAN :
         /\ connected' = sent
         /\ events' = (IF connected THEN events \ {foneraConn} ELSE events)
                        \cup (IF sent THEN {c} ELSE {})
         /\ told' = IF sent THEN foneraStatus ELSE told
         /\ missed' = (missed /\ ~sent)
    /\ daemon' = IF connected => foneraConn \in events THEN daemon ELSE "handler"
    /\ UNCHANGED <<dbVars, callVars, phpConns, foneraStatus, orphans, pushVars>>

(* The peer is gone before accept(): on a non-blocking socket that raises, *)
(* and nothing in mainloop catches it.                                     *)
AcceptRaises(e) ==
    /\ "accept" \in Faults
    /\ e \in Listeners /\ NextReady(e)
    /\ daemon' = "accept"
    /\ UNCHANGED <<dbVars, callVars, connVars, foneraStatus, ghostVars, pushVars>>

IsFonera(c) == connected /\ c = foneraConn
IsPhp(c) == ~IsFonera(c) /\ c \in phpConns

(* Neither: the descriptor was ready when select returned, and an earlier  *)
(* handler of the same batch disconnected it; or it is an orphan.  Ctrl-C  *)
(* is swallowed here too.                                                  *)
UnexpectedEvent(c) ==
    /\ c \in Conns /\ NextReady(c) /\ ~IsFonera(c) /\ ~IsPhp(c)
    /\ \/ events' = events \ {c} /\ orphans' = orphans \ {c}
       \/ "interrupt" \in Faults /\ UNCHANGED <<events, orphans>>
    /\ UNCHANGED <<dbVars, daemon, callVars, phpConns, foneraConn, connected,
                   foneraStatus, told, missed, pushVars>>

(* The call a handler starts with. *)
FirstCall(from, m) ==
    CASE m.cmd = "status" -> IF from = "php" THEN "compare" ELSE "read"
      [] m.cmd \in {"enter", "leave", "message"} -> "exists"
      [] m.cmd = "temperature" -> "store"
      [] m.cmd = "sound" -> "fonera"

Receive(c, from, m) ==
    /\ NextReady(c)
    /\ IF from = "php" THEN IsPhp(c) ELSE IsFonera(c)
    /\ job' = Job(from, c, m)
    /\ pc' = FirstCall(from, m)
    /\ UNCHANGED <<dbVars, daemon, held, connVars, foneraStatus, ghostVars, pushVars>>

(* A command nobody knows, from either peer, and an argument int() refuses *)
(* from the Fonera: nothing but a log line.                                *)
ReceiveIgnored(c) ==
    /\ NextReady(c) /\ (IsPhp(c) \/ IsFonera(c))
    /\ UNCHANGED <<dbVars, daemon, callVars, connVars, foneraStatus, ghostVars, pushVars>>

(* An argument int() refuses from PHP, an end of file, a failed recv, one  *)
(* that Ctrl-C interrupts included.                                        *)
PhpHangsUp(c) ==
    /\ NextReady(c) /\ IsPhp(c)
    /\ PhpDisconnectClient(c)
    /\ UNCHANGED <<dbVars, callVars, foneraStatus, ghostVars, pushVars>>

FoneraHangsUp(c) ==
    /\ NextReady(c) /\ IsFonera(c)
    /\ daemon' = IF c \in events THEN daemon ELSE "handler"
    /\ FoneraDisconnect
    /\ UNCHANGED <<dbVars, callVars, foneraStatus, ghostVars, pushVars>>

-----------------------------------------------------------------------------
(* The calls a handler makes.                                              *)

(* A SELECT whose answer decides where the handler goes: to a label, or    *)
(* out of it ("select").                                                   *)
SelectThen(label) ==
    /\ Select(FALSE)
    /\ IF label = "select" THEN Return ELSE Continue(label)
    /\ UNCHANGED connVars

SelectFails == Select(TRUE) /\ Failed

(* php_message_handler: if self.db.status() != status *)
CompareStatus ==
    /\ Running /\ pc = "compare"
    /\ \/ SelectThen(IF DbStatus = job.arg THEN "select" ELSE "read")
       \/ SelectFails
    /\ UNCHANGED <<statusRows, tempRows, msgRows, present, now,
                   foneraStatus, ghostVars, pushVars>>

(* Database.status(s): curr_status = self.status().  When it is s already, *)
(* the Fonera's handler stops there; PHP's looks at no answer.             *)
ReadStatus ==
    /\ Running /\ pc = "read"
    /\ \/ SelectThen(IF DbStatus # job.arg THEN "insert"
                     ELSE IF job.from = "php" THEN "adopt" ELSE "select")
       \/ SelectFails
    /\ UNCHANGED <<statusRows, tempRows, msgRows, present, now,
                   foneraStatus, ghostVars, pushVars>>

(* MUTANT of StoreStatus: closing logs nobody out. *)
StoreStatusOnly ==
    /\ Running /\ pc = "insert"
    /\ \/ InsertStatus(job.arg, FALSE) /\ Continue("adopt") /\ UNCHANGED connVars
       \/ InsertStatus(job.arg, TRUE) /\ Failed
    /\ UNCHANGED <<tempRows, msgRows, present, now, foneraStatus, ghostVars, pushVars>>

(* Database.status(s): the INSERT. *)
StoreStatus ==
    /\ Running /\ pc = "insert"
    /\ \/ /\ InsertStatus(job.arg, FALSE)
          /\ Continue(IF job.arg THEN "adopt" ELSE "logout")
          /\ UNCHANGED connVars
       \/ InsertStatus(job.arg, TRUE) /\ Failed
    /\ UNCHANGED <<tempRows, msgRows, present, now, foneraStatus, ghostVars, pushVars>>

(* Database.status(False): force_logout_all. *)
ForceLogoutAll ==
    /\ Running /\ pc = "logout"
    /\ \/ LogOut(Users, FALSE) /\ Continue("adopt") /\ UNCHANGED connVars
       \/ LogOut(Users, TRUE) /\ Failed
    /\ UNCHANGED <<statusRows, tempRows, msgRows, now, foneraStatus, ghostVars, pushVars>>

(* self.fonera.status = status.  PHP's handler then tells the Fonera,      *)
(* which knows already when the change is its own.                         *)
AdoptStatus ==
    /\ Running /\ pc = "adopt"
    /\ foneraStatus' = job.arg
    /\ \/ job.from = "php" /\ Continue("tell") /\ UNCHANGED <<told, missed>>
       \/ job.from # "php" /\ Continue("push") /\ told' = job.arg /\ missed' = FALSE
    /\ UNCHANGED <<dbVars, connVars, orphans, pushVars>>

(* MUTANT of TellStatus: a Fonera whose send fails is kept. *)
TellStatusOrNot ==
    /\ Running /\ pc = "tell"
    /\ \/ connected /\ told' = job.arg /\ missed' = FALSE
       \/ UNCHANGED <<told, missed>>
    /\ Continue("push")
    /\ UNCHANGED <<dbVars, connVars, foneraStatus, orphans, pushVars>>

(* fonera_change_status: send_fonera_msg of the status to a connected      *)
(* Fonera.  When the send fails, or Ctrl-C interrupts it, it disconnects.  *)
TellStatus ==
    /\ Running /\ pc = "tell"
    /\ \/ connected /\ told' = job.arg /\ missed' = FALSE /\ Continue("push")
       \/ connected /\ UNCHANGED <<told, missed>> /\ Continue("drop")
       \/ ~connected /\ UNCHANGED <<told, missed>> /\ Continue("push")
    /\ UNCHANGED <<dbVars, connVars, foneraStatus, orphans, pushVars>>

(* MUTANT of DropFonera: the flag is not reset. *)
DropFoneraKeepsFlag ==
    /\ Running /\ pc = "drop"
    /\ Continue("unlist")
    /\ UNCHANGED <<dbVars, connVars, foneraStatus, ghostVars, pushVars>>

(* fonera_disconnect, out of send_fonera_msg: the flag. *)
DropFonera ==
    /\ Running /\ pc = "drop"
    /\ connected' = FALSE
    /\ Continue("unlist")
    /\ UNCHANGED <<dbVars, events, phpConns, foneraConn, foneraStatus, ghostVars,
                   pushVars>>

(* MUTANT of UnlistFonera: a Fonera that cannot be told ends the handler. *)
UnlistFoneraAndGiveUp ==
    /\ Running /\ pc = "unlist"
    /\ events' = events \ {foneraConn} /\ Return
    /\ UNCHANGED <<dbVars, phpConns, foneraConn, connected, foneraStatus, ghostVars,
                   pushVars>>

(* fonera_disconnect, out of send_fonera_msg: the list, and the close.  A  *)
(* status goes on to the others, a text or a sound was the last call.      *)
UnlistFonera ==
    /\ Running /\ pc = "unlist"
    /\ \/ /\ foneraConn \in events
          /\ events' = events \ {foneraConn}
          /\ IF job.cmd = "status" THEN Continue("push") ELSE Return
          /\ UNCHANGED <<phpConns, foneraConn, connected>>
       \/ foneraConn \notin events /\ Failed
    /\ UNCHANGED <<dbVars, foneraStatus, ghostVars, pushVars>>

(* user_exists *)
UserExists ==
    /\ Running /\ pc = "exists"
    /\ \/ SelectThen(IF job.arg \notin Users THEN "select"
                     ELSE IF job.cmd = "message" THEN "store" ELSE "present")
       \/ SelectFails
    /\ UNCHANGED <<statusRows, tempRows, msgRows, present, now,
                   foneraStatus, ghostVars, pushVars>>

(* user_logged_in, and what user_enter does with the answer.  The INSERT   *)
(* of a login passes args= to query, which has no such parameter: it       *)
(* raises TypeError before any SQL is run.                                 *)
UserLoggedIn ==
    LET leave == job.cmd = "leave"
        loggedIn == job.arg \in present
    IN  /\ Running /\ pc = "present"
        /\ \/ leave /\ SelectThen(IF loggedIn THEN "leave" ELSE "select")
           \/ ~leave /\ loggedIn /\ SelectThen("select")
           \/ ~leave /\ ~loggedIn /\ Select(FALSE) /\ Failed
           \/ SelectFails
        /\ UNCHANGED <<statusRows, tempRows, msgRows, present, now,
                       foneraStatus, ghostVars, pushVars>>

(* user_enter(uid, False): the UPDATE. *)
UserLeaves ==
    /\ Running /\ pc = "leave"
    /\ \/ LogOut({job.arg}, FALSE) /\ Return /\ UNCHANGED connVars
       \/ LogOut({job.arg}, TRUE) /\ Failed
    /\ UNCHANGED <<statusRows, tempRows, msgRows, now, foneraStatus, ghostVars, pushVars>>

(* store_msg *)
StoreMessage ==
    /\ Running /\ pc = "store" /\ job.cmd = "message"
    /\ \/ InsertMessage(job.arg, FALSE) /\ Continue("push") /\ UNCHANGED connVars
       \/ InsertMessage(job.arg, TRUE) /\ Failed
    /\ UNCHANGED <<statusRows, tempRows, present, now, foneraStatus, ghostVars, pushVars>>

(* store_temperature *)
StoreTemperature ==
    /\ Running /\ pc = "store" /\ job.cmd = "temperature"
    /\ \/ InsertTemperature(FALSE) /\ Continue("push") /\ UNCHANGED connVars
       \/ InsertTemperature(TRUE) /\ Failed
    /\ UNCHANGED <<statusRows, msgRows, present, now, foneraStatus, ghostVars, pushVars>>

(* push_update: data_dict, then PushService.change_dictionary, which gives *)
(* the dictionary to StandardPush and then to the websocket server.  A     *)
(* broadcast of StandardPush that races its own thread raises ValueError   *)
(* out of a list.remove, and the second one is never reached; nor is it    *)
(* when Ctrl-C comes between the two.                                      *)
PushUpdate ==
    /\ Running /\ pc = "push"
    /\ \/ /\ Select(FALSE)
          /\ std' = DbStatus /\ ws' = DataDict
          /\ IF job.cmd = "message" THEN Continue("fonera") ELSE Return
          /\ UNCHANGED connVars
       \/ /\ Faults \cap {"push", "interrupt"} # {}
          /\ Select(FALSE)
          /\ std' = DbStatus /\ UNCHANGED ws
          /\ Failed
       \/ SelectFails /\ UNCHANGED pushVars
    /\ UNCHANGED <<statusRows, tempRows, msgRows, present, now, foneraStatus, ghostVars>>

(* fonera_display_text_plain, or fonera_play_sound: the handler's last     *)
(* call, unless the send fails.                                            *)
TellFonera ==
    /\ Running /\ pc = "fonera"
    /\ Return \/ (connected /\ Continue("drop"))
    /\ UNCHANGED <<dbVars, connVars, foneraStatus, ghostVars, pushVars>>

(* A send to the Fonera, or one of the broadcast, waits: both are blocking *)
(* and have no timeout.  It ends when the peer reads again, or is gone, or *)
(* at Ctrl-C, which the except around it takes for a failed send.          *)
Stall ==
    /\ Running /\ ~held
    /\ (pc \in {"tell", "fonera"} /\ connected) \/ pc = "push"
    /\ held' = TRUE
    /\ UNCHANGED <<dbVars, daemon, pc, job, ready, connVars, foneraStatus, ghostVars,
                   pushVars>>

-----------------------------------------------------------------------------
(* The operator and the machine.                                           *)

(* SIGKILL or a power failure, between any two calls: the tables stay,     *)
(* and what the process had in memory is gone.                             *)
Kill ==
    /\ "kill" \in Faults /\ daemon = "up"
    /\ daemon' = "off"
    /\ pc' = "select" /\ job' = None /\ ready' = {} /\ held' = FALSE
    /\ events' = {} /\ phpConns' = {} /\ foneraConn' = None /\ connected' = FALSE
    /\ foneraStatus' = FALSE /\ told' = FALSE /\ missed' = FALSE /\ orphans' = {}
    /\ std' = FALSE /\ ws' = NoNews
    /\ UNCHANGED dbVars

(* Ctrl-C while no handler runs: disconnect() closes everything. *)
InterruptIdle ==
    /\ "interrupt" \in Faults /\ Idle
    /\ daemon' = "signal"
    /\ events' = {} /\ connected' = FALSE /\ phpConns' = {} /\ orphans' = {}
    /\ UNCHANGED <<dbVars, callVars, ready, foneraConn, foneraStatus, told, missed,
                   pushVars>>

(* Ctrl-C in a handler is one more exception its bare except swallows, and *)
(* the daemon goes on.  A Fonera about to be told the status is not told   *)
(* it; one about to leave events stays there, open and disconnected.       *)
InterruptHandler ==
    /\ "interrupt" \in Faults /\ Running /\ ~held
    /\ Failed
    /\ missed' = (missed \/ (job.cmd = "status" /\ pc \in {"tell", "drop"}))
    /\ orphans' = orphans \cup (IF pc = "unlist" THEN {foneraConn} ELSE {})
    /\ UNCHANGED <<dbVars, foneraStatus, told, pushVars>>

-----------------------------------------------------------------------------
HandlerStep ==
    \/ CompareStatus \/ ReadStatus \/ StoreStatus \/ ForceLogoutAll \/ AdoptStatus
    \/ TellStatus \/ DropFonera \/ UnlistFonera
    \/ UserExists \/ UserLoggedIn \/ UserLeaves
    \/ StoreMessage \/ StoreTemperature \/ PushUpdate \/ TellFonera

ReceiveMessage(c) ==
    \/ \E m \in PhpMessage : Receive(c, "php", m)
    \/ \E m \in FoneraMessage : Receive(c, "fonera", m)
    \/ ReceiveIgnored(c) \/ PhpHangsUp(c) \/ FoneraHangsUp(c)
    \/ UnexpectedEvent(c)

MainLoop ==
    \/ SelectEvents
    \/ \E c \in Conns : AcceptPhp(c) \/ AcceptFonera(c) \/ ReceiveMessage(c)
    \/ \E e \in Listeners : AcceptRaises(e)

Operator == Boot \/ Kill \/ InterruptIdle \/ InterruptHandler

Environment == DbEnvironment /\ UNCHANGED svcVars

Next == HandlerStep \/ Stall \/ MainLoop \/ Operator \/ Environment

Spec == Init /\ [][Next]_vars

(* A query in progress returns in the end, and so does a send, unless its  *)
(* peer holds it.                                                          *)
FairSpec == Spec /\ WF_vars(HandlerStep /\ ~held)

-----------------------------------------------------------------------------
(* Properties.                                                             *)

(* INVARIANT: select is called on exactly the listening sockets, the PHP   *)
(* clients, the Fonera's connection, and those Ctrl-C left there.  A       *)
(* closed socket left behind would make select raise, a live one left out  *)
(* would never be answered; events, php_connections and fonera_conn are    *)
(* kept in step by hand, in every handler and in every except clause of    *)
(* bits_service.py.                                                        *)
EventsConsistent ==
    daemon = "up" =>
      /\ events = Listeners \cup phpConns \cup orphans
                    \cup (IF connected \/ pc = "unlist" THEN {foneraConn} ELSE {})
      /\ connected => foneraConn \in Conns \ (phpConns \cup orphans)

(* INVARIANT: no list.remove of mainloop, outside every try, ever misses   *)
(* its element: neither a batch of in_ready gone stale, nor a Fonera       *)
(* dropped in the middle of a PHP command, ends the daemon.                *)
NoUncaughtError == daemon # "handler"

(* INVARIANT: when Database.status returns True, and so when a handler is  *)
(* about to adopt a status, the database holds that status ("if it returns *)
(* True the status was changed to the chosen one", bits_service.py:209).   *)
AdoptedIsRecorded ==
    Running /\ pc = "adopt" => DbStatus = job.arg

(* INVARIANT: between two handlers the status the daemon has is the one it *)
(* last sent to the connected Fonera, or adopted from it, whatever failed  *)
(* in the calls after self.fonera.status was assigned; only Ctrl-C,        *)
(* swallowed between that assignment and the end of the send or of the     *)
(* disconnection, can leave a Fonera behind.                               *)
FoneraTold == Idle /\ connected /\ ~missed => told = foneraStatus

(* INVARIANT, while nobody presses Ctrl-C: the same without the exception  *)
(* ("Avviso la fonera del cambio di stato", bits_service.py:274), over the *)
(* handlers, a Fonera that replaces another, and sends that fail.          *)
FoneraAlwaysKnows == Idle /\ connected => told = foneraStatus

(* INVARIANT, while nothing but sends and duplicate keys fails: between    *)
(* two handlers the daemon, StandardPush and the websocket server all      *)
(* serve what the database holds.                                          *)
StatusCoherent ==
    Idle => /\ foneraStatus = DbStatus
            /\ std = DbStatus
            /\ ws = DataDict

(* INVARIANT, while nothing but sends and duplicate keys fails: between    *)
(* two handlers nobody is present in a closed seat (force_logout_all).     *)
ClosedMeansEmpty == Idle /\ ~DbStatus => present = {}

(* ACTION, refuted: an enter command that ends without a fault leaves the  *)
(* user logged in ("login: When person entered", sql/bits2.sql:53).        *)
EnterLogsIn ==
    [][ (Running /\ pc = "present" /\ job.cmd = "enter" /\ pc' = "select")
          => job.arg \in present' ]_vars

(* INVARIANT, refuted: a seat with no Status row is served as closed       *)
(* ("closed if no data in db", database.py:52 and 60).                     *)
EmptyTableIsClosed == statusRows = {} => daemon # "boot"

(* LIVENESS: a PHP client that commands a status finds it recorded and     *)
(* served when its handler is done, or is disconnected; unless a peer that *)
(* reads nothing holds a send, and with it the daemon, for good.           *)
PhpStatusAnswered ==
    \A c \in Conns, s \in BOOLEAN :
        (Running /\ job = Job("php", c, [cmd |-> "status", arg |-> s]))
          ~> \/ Idle /\ (c \notin phpConns \/ (DbStatus = s /\ foneraStatus = s))
             \/ []held
=============================================================================
