--------------------- MODULE BitsServiceStatus_proofs ----------------------
(***************************************************************************)
(* Theorems about the status the daemon records, tells and serves.         *)
(***************************************************************************)
EXTENDS BitsService_proofs

(* What the queries return depends on the tables alone. *)
LEMMA TablesDecide ==
    /\ UNCHANGED statusRows => DbStatus' = DbStatus
    /\ UNCHANGED <<statusRows, tempRows, msgRows>> => DataDict' = DataDict
BY DEF DbStatus, DataDict, Latest

-----------------------------------------------------------------------------
(* What the Fonera was told.                                               *)

(* Between the assignment of self.fonera.status and the end of the send or *)
(* of the disconnection, a connected Fonera knows another status than the  *)
(* daemon; the handler is bound to tell it or to drop it, unless Ctrl-C    *)
(* ends the handler, which the ghost remembers.                            *)
ToldInv ==
    /\ pc = "tell" => job.cmd = "status" /\ job.arg = foneraStatus
    /\ pc = "unlist" => ~connected
    /\ connected /\ ~missed =>
         told = foneraStatus \/ (job.cmd = "status" /\ pc \in {"tell", "drop"})

(* AdoptStatus is a call of a handler of a status command. *)
StatusJobInv ==
    pc \in {"compare", "read", "insert", "logout", "adopt", "tell"} => job.cmd = "status"

LEMMA StatusJobStep == StatusJobInv /\ [Next]_vars => StatusJobInv'
<1> SUFFICES ASSUME StatusJobInv, [Next]_vars PROVE StatusJobInv'
  OBVIOUS
<1> DEFINE L == {"compare", "read", "insert", "logout", "adopt", "tell"}
<1>1. ASSUME pc' \in L => pc \in L /\ job' = job
      PROVE  StatusJobInv'
  BY <1>1 DEF StatusJobInv
<1>2. CASE HandlerStep
  BY <1>1, <1>2
     DEF HandlerStep, CompareStatus, ReadStatus, StoreStatus, ForceLogoutAll, AdoptStatus,
         TellStatus, DropFonera, UnlistFonera, UserExists, UserLoggedIn, UserLeaves,
         StoreMessage, StoreTemperature, PushUpdate, TellFonera, SelectThen,
         SelectFails, Return, Continue, Failed
<1>3. ASSUME NEW c \in Conns, NEW m, NEW from, Receive(c, from, m),
             \/ from = "php" /\ m \in PhpMessage
             \/ from = "fonera" /\ m \in FoneraMessage
      PROVE  StatusJobInv'
  <2>1. /\ job'.cmd = m.cmd /\ pc' = FirstCall(from, m)
        /\ FirstCall(from, m) \in {"compare", "read", "exists", "store", "fonera"}
        /\ FirstCall(from, m) \in {"compare", "read"} => m.cmd = "status"
    BY <1>3, JobOfMessage DEF Receive
  <2>2. QED
    BY <2>1 DEF StatusJobInv
<1>4. CASE MainLoop /\ UNCHANGED <<pc, job>>
  BY <1>1, <1>4
<1>5. CASE MainLoop
  BY <1>3, <1>4, <1>5
     DEF MainLoop, ReceiveMessage, SelectEvents, AcceptPhp, AcceptFonera, ReceiveIgnored,
         PhpHangsUp, FoneraHangsUp, UnexpectedEvent, AcceptRaises, callVars
<1>6. CASE Operator
  BY <1>1, <1>6
     DEF Operator, Boot, Kill, InterruptIdle, InterruptHandler, Failed, callVars
<1>7. CASE Stall \/ Environment \/ UNCHANGED vars
  BY <1>1, <1>7 DEF Stall, Environment, svcVars, vars
<1>8. QED
  BY <1>2, <1>5, <1>6, <1>7 DEF Next

LEMMA StatusJobAlways == Spec => []StatusJobInv
<1>1. Init => StatusJobInv
  BY DEF Init, StatusJobInv
<1>2. QED
  BY <1>1, StatusJobStep, PTL DEF Spec

LEMMA ToldInvStep == StatusJobInv /\ ToldInv /\ [Next]_vars => ToldInv'
<1> SUFFICES ASSUME StatusJobInv, ToldInv, [Next]_vars PROVE ToldInv'
  OBVIOUS
<1>1. ASSUME UNCHANGED <<foneraStatus, told, missed>>, connected' => connected,
             pc \notin {"tell", "drop"}, pc' \notin {"tell", "unlist"}
      PROVE  ToldInv'
  BY <1>1 DEF ToldInv
<1>2. Failed => (connected' => connected) /\ pc' = "select"
  BY DEF Failed, PhpDisconnectClient, connVars
<1>3. CASE AdoptStatus
  BY <1>3 DEF AdoptStatus, Continue, ToldInv, StatusJobInv, connVars
<1>4. CASE TellStatus
  BY <1>4 DEF TellStatus, Continue, ToldInv, connVars
<1>5. CASE DropFonera
  BY <1>5 DEF DropFonera, Continue, ToldInv
<1>6. CASE UnlistFonera
  <2>1. ~connected' /\ pc' \in {"select", "push"}
    BY <1>6, <1>2 DEF UnlistFonera, Continue, Return, ToldInv
  <2>2. QED
    BY <2>1 DEF ToldInv
<1>7. CASE TellFonera
  <2>1. /\ UNCHANGED <<foneraStatus, told, missed>> /\ connected' = connected
        /\ pc = "fonera" /\ pc' \in {"select", "drop"}
    BY <1>7 DEF TellFonera, Continue, Return, connVars, ghostVars
  <2>2. QED
    BY <2>1, <1>1
<1>8. CASE /\ HandlerStep
           /\ ~AdoptStatus /\ ~TellStatus /\ ~DropFonera /\ ~UnlistFonera /\ ~TellFonera
  <2>1. UNCHANGED <<foneraStatus, told, missed>> /\ pc \notin {"tell", "drop"}
    BY <1>8 DEF HandlerStep, CompareStatus, ReadStatus, StoreStatus, ForceLogoutAll,
         UserExists, UserLoggedIn, UserLeaves, StoreMessage, StoreTemperature,
         PushUpdate, ghostVars
  <2>2. \/ UNCHANGED connVars /\ pc' \notin {"tell", "unlist"}
        \/ Failed
    BY <1>8 DEF HandlerStep, CompareStatus, ReadStatus, StoreStatus, ForceLogoutAll,
         UserExists, UserLoggedIn, UserLeaves, StoreMessage, StoreTemperature,
         PushUpdate, SelectThen, SelectFails, Continue, Return
  <2>3. QED
    BY <1>1, <1>2, <2>1, <2>2 DEF connVars
<1>9. ASSUME NEW c \in Conns, AcceptFonera(c)
      PROVE  ToldInv'
  BY <1>9 DEF AcceptFonera, NextReady, Idle, ToldInv, callVars
<1>10. CASE MainLoop /\ ~\E c \in Conns : AcceptFonera(c)
  <2>1. /\ UNCHANGED <<foneraStatus, told, missed>> /\ pc = "select"
        /\ connected' => connected
        /\ pc' \notin {"tell", "unlist"}
    BY <1>10, JobOfMessage
       DEF MainLoop, ReceiveMessage, SelectEvents, AcceptPhp, Receive,
         ReceiveIgnored, PhpHangsUp, FoneraHangsUp, UnexpectedEvent, AcceptRaises,
         NextReady, Idle, PhpDisconnectClient, FoneraDisconnect, callVars, connVars,
         ghostVars
  <2>2. QED
    BY <1>1, <2>1
<1>11. CASE Boot \/ Kill \/ InterruptIdle
  BY <1>11 DEF Boot, Kill, InterruptIdle, Idle, ToldInv, callVars
<1>12. CASE InterruptHandler
  BY <1>12, <1>2 DEF InterruptHandler, ToldInv
<1>13. CASE Stall \/ Environment \/ UNCHANGED vars
  BY <1>13 DEF Stall, Environment, svcVars, vars, connVars, ghostVars, ToldInv
<1>14. QED
  BY <1>3, <1>4, <1>5, <1>6, <1>7, <1>8, <1>9, <1>10, <1>11, <1>12, <1>13
     DEF Next, MainLoop, Operator

(* Under every fault, over the calls of a status handler and of the        *)
(* disconnection in the middle of it: a connected Fonera is not left with  *)
(* a status the daemon does not have, except by a Ctrl-C that the handler  *)
(* swallowed before it had told it.                                        *)
THEOREM FoneraAlwaysTold == Spec => []FoneraTold
<1>1. Init => ToldInv
  BY DEF Init, ToldInv
<1>2. ToldInv => FoneraTold
  BY DEF ToldInv, FoneraTold, Idle
<1>3. QED
  BY <1>1, <1>2, StatusJobAlways, ToldInvStep, PTL DEF Spec

(* Without Ctrl-C the Fonera always knows, whatever else fails.            *)
THEOREM FoneraKnowsWithoutInterrupt ==
    ASSUME "interrupt" \notin Faults
    PROVE  Spec => []FoneraAlwaysKnows
<1>1. Init => ~missed
  BY DEF Init
<1>2. ~missed /\ [Next]_vars => ~missed'
  BY DEF Next, HandlerStep, CompareStatus, ReadStatus, StoreStatus, ForceLogoutAll,
         AdoptStatus, TellStatus, DropFonera, UnlistFonera, UserExists, UserLoggedIn,
         UserLeaves, StoreMessage, StoreTemperature, PushUpdate, TellFonera, Stall,
         MainLoop, ReceiveMessage, SelectEvents, AcceptPhp, AcceptFonera, Receive,
         ReceiveIgnored, PhpHangsUp, FoneraHangsUp, UnexpectedEvent, AcceptRaises,
         Operator, Boot, Kill, InterruptIdle, InterruptHandler, Environment, svcVars,
         vars, ghostVars
<1>3. ~missed /\ FoneraTold => FoneraAlwaysKnows
  BY DEF FoneraTold, FoneraAlwaysKnows
<1>4. QED
  BY <1>1, <1>2, <1>3, FoneraAlwaysTold, PTL DEF Spec

-----------------------------------------------------------------------------
(* What the database records.                                              *)

(* While the clock only goes forward no row is younger than now, so the    *)
(* row an INSERT stores is the one the next SELECT returns.                *)
RowsInv ==
    /\ \A r \in statusRows : r.ts <= now
    /\ OneStatusPerSecond

RecordedInv ==
    RowsInv /\ (pc \in {"logout", "adopt"} => DbStatus = job.arg)

(* The row of this second, the first and only one of it, is the latest. *)
LEMMA LatestIsInserted ==
    ASSUME DbTypeOK, RowsInv, NEW s \in BOOLEAN,
           \A r \in statusRows : r.ts # now,
           statusRows' = statusRows \cup {[ts |-> now, value |-> s]},
           UNCHANGED now
    PROVE  RowsInv' /\ DbStatus' = s
<1> DEFINE row == [ts |-> now, value |-> s]
<1>1. \A r \in statusRows : r.ts \in Nat /\ r.ts < now
  BY DatabaseAssumption DEF DbTypeOK, StatusRow, Seconds, RowsInv
<1>2. row.ts = now /\ row.value = s /\ now \in Nat
  BY DatabaseAssumption DEF DbTypeOK, Seconds
<1>3. RowsInv'
  BY <1>1, <1>2 DEF RowsInv, OneStatusPerSecond
<1>4. CASE s
  <2>1. row \in statusRows' /\ row.value
    BY <1>2, <1>4
  <2>2. \A q \in statusRows' : q.ts <= row.ts
    BY <1>1, <1>2
  <2>3. DbStatus'
    BY <2>1, <2>2 DEF DbStatus
  <2>4. QED
    BY <2>3, <1>3, <1>4
<1>5. CASE ~s
  <2>1. \A r \in statusRows' : r.value => r \in statusRows
    BY <1>2, <1>5
  <2>2. \A r \in statusRows' : r.value => ~(row.ts <= r.ts)
    BY <2>1, <1>1, <1>2
  <2>3. ~DbStatus'
    BY <2>2 DEF DbStatus
  <2>4. DbStatus' \in BOOLEAN
    BY DEF DbStatus
  <2>5. QED
    BY <2>3, <2>4, <1>3, <1>5
<1>6. QED
  BY <1>4, <1>5

(* InsertStatus that returns records s; one that raises keeps the rows in  *)
(* order all the same.                                                     *)
LEMMA InsertStatusRecords ==
    ASSUME DbTypeOK, RowsInv, NEW s \in BOOLEAN, NEW raised \in BOOLEAN,
           InsertStatus(s, raised), UNCHANGED now
    PROVE  /\ RowsInv'
           /\ ~raised => DbStatus' = s
<1>1. CASE UNCHANGED statusRows /\ raised
  BY <1>1 DEF RowsInv, OneStatusPerSecond
<1>2. CASE /\ \A r \in statusRows : r.ts # now
           /\ statusRows' = statusRows \cup {[ts |-> now, value |-> s]}
  BY <1>2, LatestIsInserted
<1>3. QED
  BY <1>1, <1>2 DEF InsertStatus, Insert

LEMMA RecordedInvStep ==
    ASSUME "clock" \notin Faults
    PROVE  TypeInv /\ RecordedInv /\ [Next]_vars => RecordedInv'
<1> SUFFICES ASSUME TypeInv, RecordedInv, [Next]_vars PROVE RecordedInv'
  OBVIOUS
<1>1. ASSUME UNCHANGED <<statusRows, now>>,
             pc' \in {"logout", "adopt"} => pc' = pc /\ job' = job
      PROVE  RecordedInv'
  BY <1>1, TablesDecide DEF RecordedInv, RowsInv, OneStatusPerSecond
<1>2. CASE ReadStatus
  <2>1. /\ UNCHANGED <<statusRows, now>>
        /\ pc' # "logout"
        /\ pc' = "adopt" => DbStatus = job.arg /\ job' = job
    BY <1>2 DEF ReadStatus, SelectThen, SelectFails, Return, Continue, Failed
  <2>2. QED
    BY <2>1, TablesDecide DEF RecordedInv, RowsInv, OneStatusPerSecond
<1>3. CASE StoreStatus
  <2>1. job.arg \in BOOLEAN
    BY <1>3 DEF TypeInv, JobInv, StoreStatus
  <2>2. CASE InsertStatus(job.arg, FALSE) /\ job' = job
    BY <1>3, <2>1, <2>2, InsertStatusRecords
       DEF StoreStatus, TypeInv, TypeOK, RecordedInv
  <2>3. CASE InsertStatus(job.arg, TRUE) /\ pc' = "select"
    BY <1>3, <2>1, <2>3, InsertStatusRecords
       DEF StoreStatus, TypeInv, TypeOK, RecordedInv
  <2>4. QED
    BY <1>3, <2>2, <2>3 DEF StoreStatus, Continue, Failed
<1>4. CASE ForceLogoutAll
  <2>1. /\ UNCHANGED <<statusRows, now>> /\ pc = "logout"
        /\ pc' \in {"logout", "adopt"} => job' = job
    BY <1>4 DEF ForceLogoutAll, Continue, Failed
  <2>2. QED
    BY <2>1, TablesDecide DEF RecordedInv, RowsInv, OneStatusPerSecond
<1>5. CASE HandlerStep /\ ~ReadStatus /\ ~StoreStatus /\ ~ForceLogoutAll
  <2>1. UNCHANGED <<statusRows, now>> /\ pc' \notin {"logout", "adopt"}
    BY <1>5 DEF HandlerStep, CompareStatus, AdoptStatus, TellStatus, DropFonera,
         UnlistFonera, UserExists, UserLoggedIn,
         UserLeaves, StoreMessage, StoreTemperature, PushUpdate, TellFonera,
         SelectThen, SelectFails, Return, Continue, Failed, dbVars
  <2>2. QED
    BY <1>1, <2>1
<1>6. ASSUME NEW c \in Conns, NEW m, NEW from, Receive(c, from, m),
             \/ from = "php" /\ m \in PhpMessage
             \/ from = "fonera" /\ m \in FoneraMessage
      PROVE  RecordedInv'
  <2>1. FirstCall(from, m) \notin {"logout", "adopt"}
    BY <1>6, JobOfMessage
  <2>2. QED
    BY <1>1, <1>6, <2>1 DEF Receive, dbVars
<1>7. CASE SelectEvents
  BY <1>1, <1>7 DEF SelectEvents, dbVars, callVars
<1>8. ASSUME NEW c \in Conns,
             \/ AcceptPhp(c) \/ AcceptFonera(c) \/ ReceiveIgnored(c)
             \/ PhpHangsUp(c) \/ FoneraHangsUp(c) \/ UnexpectedEvent(c)
      PROVE  RecordedInv'
  BY <1>1, <1>8 DEF AcceptPhp, AcceptFonera, ReceiveIgnored, PhpHangsUp,
       FoneraHangsUp, UnexpectedEvent, dbVars, callVars
<1>9. ASSUME NEW e \in Listeners, AcceptRaises(e)
      PROVE  RecordedInv'
  BY <1>1, <1>9 DEF AcceptRaises, dbVars, callVars
<1>10. CASE Operator
  BY <1>1, <1>10 DEF Operator, Boot, Kill, InterruptIdle, InterruptHandler, Failed, dbVars,
       callVars
<1>11. CASE Environment
  <2>1. CASE Tick
    <3>1. RowsInv'
      BY <2>1, DatabaseAssumption
         DEF Tick, RecordedInv, RowsInv, OneStatusPerSecond, TypeInv, TypeOK,
             DbTypeOK, StatusRow, Seconds
    <3>2. QED
      BY <1>11, <2>1, <3>1, TablesDecide DEF Tick, Environment, svcVars, RecordedInv
  <2>2. CASE LinkDrops
    BY <1>1, <1>11, <2>2 DEF LinkDrops, Environment, svcVars
  <2>3. QED
    BY <1>11, <2>1, <2>2 DEF Environment, DbEnvironment, ClockStepsBack
<1>12. CASE Stall \/ UNCHANGED vars
  BY <1>1, <1>12 DEF Stall, vars, dbVars, svcVars
<1>13. QED
  BY <1>2, <1>3, <1>4, <1>5, <1>6, <1>7, <1>8, <1>9, <1>10, <1>11, <1>12
     DEF Next, MainLoop, ReceiveMessage

LEMMA RecordedInvInit == Init => RecordedInv
BY DEF Init, DbInit, RecordedInv, RowsInv, OneStatusPerSecond

LEMMA RecordedInvAlways ==
    ASSUME "clock" \notin Faults
    PROVE  Spec => [](TypeInv /\ RecordedInv)
BY TypeInvAlways, RecordedInvInit, RecordedInvStep, PTL DEF Spec

(* As long as the clock does not step back, and whatever else fails, a     *)
(* status is adopted only when the database holds it.                      *)
THEOREM AdoptedIsAlwaysRecorded ==
    ASSUME "clock" \notin Faults
    PROVE  Spec => []AdoptedIsRecorded
<1>1. RecordedInv => AdoptedIsRecorded
  BY DEF RecordedInv, AdoptedIsRecorded
<1>2. QED
  BY <1>1, RecordedInvAlways, PTL

-----------------------------------------------------------------------------
(* What the daemon serves.                                                 *)

(* While the link never drops, no broadcast raises and no handler is       *)
(* interrupted, a handler that stored something goes on to push_update:    *)
(* the copies differ from the database only on the way there.              *)
Coherent == foneraStatus = DbStatus /\ std = DbStatus /\ ws = DataDict

(* On the way to push_update, dropping a Fonera that cannot be told included. *)
Ahead ==
    \/ pc \in {"logout", "adopt", "tell", "push"}
    \/ pc \in {"drop", "unlist"} /\ job.cmd = "status"

CoherentInv ==
    daemon = "up" =>
      /\ link = "up"
      /\ ~Ahead => Coherent
      /\ Ahead /\ pc \notin {"logout", "adopt"} => foneraStatus = DbStatus

LEMMA CoherentInvHandler ==
    ASSUME Faults \subseteq {"accept"}
    PROVE  TypeInv /\ EventsInv /\ StatusJobInv /\ RecordedInv /\ CoherentInv
             /\ HandlerStep => CoherentInv'
<1> SUFFICES ASSUME TypeInv, EventsInv, StatusJobInv, RecordedInv, CoherentInv,
                    HandlerStep
             PROVE  CoherentInv'
  OBVIOUS
<1>up. daemon = "up" /\ link = "up" /\ pc # "select"
  BY DEF CoherentInv, HandlerStep, Running, CompareStatus, ReadStatus, StoreStatus,
       ForceLogoutAll, AdoptStatus, TellStatus, DropFonera, UnlistFonera, UserExists,
       UserLoggedIn, UserLeaves, StoreMessage, StoreTemperature, PushUpdate, TellFonera
<1>nothing. "db" \notin Faults /\ "push" \notin Faults
  OBVIOUS
<1>1. ASSUME UNCHANGED <<statusRows, tempRows, msgRows, link, foneraStatus, std, ws>>,
             ~Ahead
      PROVE  CoherentInv'
  BY <1>1, <1>up, TablesDecide DEF CoherentInv, Coherent
<1>2. CASE CompareStatus \/ UserExists \/ UserLoggedIn \/ TellFonera \/ ReadStatus
  <2>1. UNCHANGED link
    BY <1>2, <1>up DEF CompareStatus, UserExists, UserLoggedIn, TellFonera, ReadStatus,
         SelectThen, SelectFails, Select, dbVars
  <2>2. ~Ahead
    BY <1>2 DEF Ahead, CompareStatus, UserExists, UserLoggedIn, TellFonera, ReadStatus
  <2>3. UNCHANGED <<statusRows, tempRows, msgRows, foneraStatus, std, ws>>
    BY <1>2 DEF CompareStatus, UserExists, UserLoggedIn, TellFonera, ReadStatus,
         dbVars, pushVars
  <2>4. QED
    BY <1>1, <2>1, <2>2, <2>3
<1>3. CASE UserLeaves
  <2>1. link' = "up"
    BY <1>3, <1>up, <1>nothing DEF UserLeaves, LogOut
  <2>2. QED
    BY <1>1, <1>3, <1>up, <2>1 DEF Ahead, UserLeaves, pushVars
<1>4. CASE StoreStatus
  <2>1. CASE InsertStatus(job.arg, FALSE) /\ pc' \in {"adopt", "logout"}
    BY <1>4, <1>up, <2>1 DEF InsertStatus, Insert, CoherentInv, Ahead
  <2>2. CASE InsertStatus(job.arg, TRUE)
    <3>1. UNCHANGED <<statusRows, link>>
      BY <2>2, <1>up, <1>nothing DEF InsertStatus, Insert
    <3>2. QED
      BY <1>1, <1>4, <3>1 DEF Ahead, StoreStatus, pushVars
  <2>3. QED
    BY <1>4, <2>1, <2>2 DEF StoreStatus, Continue
<1>5. CASE ForceLogoutAll
  <2>1. link' = "up" /\ pc' = "adopt"
    BY <1>5, <1>up, <1>nothing DEF ForceLogoutAll, LogOut, Continue
  <2>2. QED
    BY <2>1 DEF CoherentInv, Ahead
<1>6. CASE AdoptStatus
  <2>1. DbStatus' = DbStatus
    BY <1>6, TablesDecide DEF AdoptStatus, dbVars
  <2>2. foneraStatus' = DbStatus' /\ link' = "up" /\ pc' \in {"tell", "push"}
    BY <1>6, <2>1, <1>up DEF AdoptStatus, Continue, RecordedInv, dbVars
  <2>3. QED
    BY <2>2 DEF CoherentInv, Ahead
<1>61. CASE TellStatus \/ DropFonera \/ UnlistFonera
  <2>1. UNCHANGED <<statusRows, tempRows, msgRows, link, foneraStatus, std, ws>>
    BY <1>61 DEF TellStatus, DropFonera, UnlistFonera, dbVars, pushVars
  <2>2. CASE ~Ahead
    BY <1>1, <2>1, <2>2
  <2>3. CASE Ahead
    <3>1. foneraStatus = DbStatus /\ job.cmd = "status"
      BY <1>61, <1>up, <2>3
         DEF TellStatus, DropFonera, UnlistFonera, CoherentInv, Ahead, StatusJobInv
    <3>2. pc = "unlist" => foneraConn \in events
      BY <1>up DEF EventsInv, Listed
    <3>3. pc' \in {"drop", "unlist", "push"} /\ job' = job
      BY <1>61, <3>1, <3>2 DEF TellStatus, DropFonera, UnlistFonera, Continue
    <3>4. QED
      BY <1>up, <2>1, <3>1, <3>3, TablesDecide DEF CoherentInv, Ahead
  <2>4. QED
    BY <2>2, <2>3
<1>7. CASE StoreMessage
  <2>1. CASE InsertMessage(job.arg, FALSE) /\ pc' = "push"
    <3>1. link' = "up" /\ DbStatus' = DbStatus /\ foneraStatus' = foneraStatus
      BY <1>7, <2>1, <1>up, TablesDecide DEF StoreMessage, InsertMessage, Insert
    <3>2. foneraStatus = DbStatus
      BY <1>7, <1>up DEF StoreMessage, CoherentInv, Coherent, Ahead
    <3>3. QED
      BY <2>1, <3>1, <3>2 DEF CoherentInv, Ahead
  <2>2. CASE InsertMessage(job.arg, TRUE)
    <3>1. UNCHANGED <<msgRows, link>>
      BY <2>2, <1>up, <1>nothing DEF InsertMessage, Insert
    <3>2. QED
      BY <1>1, <1>7, <3>1 DEF Ahead, StoreMessage, pushVars
  <2>3. QED
    BY <1>7, <2>1, <2>2 DEF StoreMessage, Continue
<1>8. CASE StoreTemperature
  <2>1. CASE InsertTemperature(FALSE) /\ pc' = "push"
    <3>1. link' = "up" /\ DbStatus' = DbStatus /\ foneraStatus' = foneraStatus
      BY <1>8, <2>1, <1>up, TablesDecide DEF StoreTemperature, InsertTemperature, Insert
    <3>2. foneraStatus = DbStatus
      BY <1>8, <1>up DEF StoreTemperature, CoherentInv, Coherent, Ahead
    <3>3. QED
      BY <2>1, <3>1, <3>2 DEF CoherentInv, Ahead
  <2>2. CASE InsertTemperature(TRUE)
    <3>1. UNCHANGED <<tempRows, link>>
      BY <2>2, <1>up, <1>nothing DEF InsertTemperature, Insert
    <3>2. QED
      BY <1>1, <1>8, <3>1 DEF Ahead, StoreTemperature, pushVars
  <2>3. QED
    BY <1>8, <2>1, <2>2 DEF StoreTemperature, Continue
<1>9. CASE PushUpdate
  <2>1. DbStatus' = DbStatus /\ DataDict' = DataDict /\ foneraStatus' = foneraStatus
    BY <1>9, TablesDecide DEF PushUpdate
  <2>2. foneraStatus = DbStatus
    BY <1>9, <1>up DEF PushUpdate, CoherentInv, Ahead
  <2>3. link' = "up" /\ std' = DbStatus /\ ws' = DataDict
    BY <1>9, <1>up, <1>nothing DEF PushUpdate, SelectFails, Select
  <2>4. QED
    BY <2>1, <2>2, <2>3 DEF CoherentInv, Coherent
<1>10. QED
  BY <1>2, <1>3, <1>4, <1>5, <1>6, <1>61, <1>7, <1>8, <1>9 DEF HandlerStep

LEMMA CoherentInvStep ==
    ASSUME Faults \subseteq {"accept"}
    PROVE  TypeInv /\ EventsInv /\ StatusJobInv /\ RecordedInv /\ CoherentInv
             /\ [Next]_vars => CoherentInv'
<1> SUFFICES ASSUME TypeInv, EventsInv, StatusJobInv, RecordedInv, CoherentInv,
                    [Next]_vars
             PROVE  CoherentInv'
  OBVIOUS
<1>1. ASSUME UNCHANGED <<statusRows, tempRows, msgRows, link, foneraStatus, std, ws>>,
             daemon' = "up" => daemon = "up" /\ ~Ahead
      PROVE  CoherentInv'
  BY <1>1, TablesDecide DEF CoherentInv, Coherent
<1>2. CASE HandlerStep
  BY <1>2, CoherentInvHandler
<1>3. CASE MainLoop
  <2>1. UNCHANGED <<dbVars, foneraStatus, std, ws>> /\ daemon = "up" /\ pc = "select"
    BY <1>3 DEF MainLoop, ReceiveMessage, SelectEvents, AcceptPhp, AcceptFonera, Receive,
         ReceiveIgnored, PhpHangsUp, FoneraHangsUp, UnexpectedEvent, AcceptRaises,
         NextReady, Idle, pushVars
  <2>2. QED
    BY <1>1, <2>1 DEF dbVars, Ahead
<1>4. CASE Operator
  <2>1. CASE Boot
    BY <2>1, TablesDecide DEF Boot, Ahead, CoherentInv, Coherent
  <2>2. QED
    BY <1>4, <2>1 DEF Operator, Kill, InterruptIdle, InterruptHandler
<1>5. CASE Environment
  <2>1. CASE Tick
    BY <1>5, <2>1, TablesDecide
       DEF Tick, Environment, svcVars, CoherentInv, Coherent, Ahead
  <2>2. QED
    BY <1>5, <2>1 DEF Environment, DbEnvironment, ClockStepsBack, LinkDrops
<1>6. CASE Stall \/ UNCHANGED vars
  BY <1>6, TablesDecide
     DEF Stall, vars, dbVars, svcVars, pushVars, CoherentInv, Coherent, Ahead
<1>7. QED
  BY <1>2, <1>3, <1>4, <1>5, <1>6 DEF Next

(* While the link to MySQL holds, no broadcast raises and nobody           *)
(* interrupts a handler, the daemon, StandardPush and the websocket server *)
(* serve what the database holds, whatever the peers do and send.          *)
THEOREM StatusAlwaysCoherent ==
    ASSUME Faults \subseteq {"accept"}
    PROVE  Spec => []StatusCoherent
<1>1. "clock" \notin Faults
  OBVIOUS
<1>2. Init => CoherentInv
  BY DEF Init, CoherentInv
<1>3. CoherentInv => StatusCoherent
  BY DEF CoherentInv, Coherent, StatusCoherent, Idle, Ahead
<1>4. QED
  BY <1>1, <1>2, <1>3, EventsInvAlways, StatusJobAlways, RecordedInvAlways,
     CoherentInvStep, PTL DEF Spec

-----------------------------------------------------------------------------
(* Who is present in a closed seat.                                        *)

(* The INSERT of a closing status and force_logout_all are two queries:    *)
(* somebody is present in a closed seat only between them, in a handler    *)
(* that goes on to the second.                                             *)
EmptyInv ==
    /\ link = "up"
    /\ pc = "logout" => daemon = "up"
    /\ ~DbStatus /\ pc # "logout" => present = {}

(* A row that opens the seat never makes it look closed. *)
LEMMA OpenStays ==
    ASSUME NEW ts, statusRows' = statusRows \cup {[ts |-> ts, value |-> TRUE]},
           DbTypeOK, ts \in Seconds, DbStatus
    PROVE  DbStatus'
<1> DEFINE row == [ts |-> ts, value |-> TRUE]
<1>1. PICK r \in statusRows : r.value /\ \A q \in statusRows : q.ts <= r.ts
  BY DEF DbStatus
<1>2. r.ts \in Nat /\ ts \in Nat /\ row.ts = ts /\ row.value
  BY DatabaseAssumption DEF DbTypeOK, StatusRow, Seconds
<1>3. \A q \in statusRows : q.ts \in Nat
  BY DatabaseAssumption DEF DbTypeOK, StatusRow, Seconds
<1>4. r \in statusRows' /\ row \in statusRows'
  OBVIOUS
<1>5. CASE ts <= r.ts
  <2>1. \A q \in statusRows' : q.ts <= r.ts
    BY <1>1, <1>2, <1>5
  <2>2. QED
    BY <1>1, <1>4, <2>1 DEF DbStatus
<1>6. CASE r.ts <= ts
  <2>1. \A q \in statusRows' : q.ts <= row.ts
    BY <1>1, <1>2, <1>3, <1>6
  <2>2. QED
    BY <1>2, <1>4, <2>1 DEF DbStatus
<1>7. QED
  BY <1>2, <1>5, <1>6

LEMMA EmptyInvStep ==
    ASSUME Faults \cap {"db", "kill", "interrupt"} = {}
    PROVE  TypeInv /\ EmptyInv /\ [Next]_vars => EmptyInv'
<1> SUFFICES ASSUME TypeInv, EmptyInv, [Next]_vars PROVE EmptyInv'
  OBVIOUS
<1>0. /\ "db" \notin Faults /\ "kill" \notin Faults /\ "interrupt" \notin Faults
      /\ link = "up"
  BY DEF EmptyInv
<1>1. ASSUME UNCHANGED <<statusRows, link>>, present' \subseteq present,
             pc # "logout", pc' # "logout"
      PROVE  EmptyInv'
  BY <1>1, TablesDecide DEF EmptyInv
<1>2. CASE StoreStatus
  <2>1. /\ job.arg \in BOOLEAN /\ pc = "insert" /\ present' = present
        /\ DbTypeOK /\ now \in Seconds
    BY <1>2 DEF TypeInv, TypeOK, DbTypeOK, JobInv, StoreStatus
  <2>2. CASE InsertStatus(job.arg, FALSE) /\ Continue(IF job.arg THEN "adopt" ELSE "logout")
    <3>1. link' = "up" /\ statusRows' = statusRows \cup {[ts |-> now, value |-> job.arg]}
      BY <1>0, <2>2 DEF InsertStatus, Insert
    <3>2. CASE job.arg
      <4>1. job.arg = TRUE
        BY <2>1, <3>2
      <4>2. DbStatus => DbStatus'
        BY <2>1, <3>1, <4>1, OpenStays
      <4>3. pc' = "adopt"
        BY <2>2, <3>2 DEF Continue
      <4>4. QED
        BY <2>1, <3>1, <4>2, <4>3 DEF EmptyInv
    <3>3. CASE ~job.arg
      <4>1. pc' = "logout" /\ daemon' = "up"
        BY <1>2, <2>2, <3>3 DEF StoreStatus, Running, Continue
      <4>2. QED
        BY <3>1, <4>1 DEF EmptyInv
    <3>4. QED
      BY <3>2, <3>3
  <2>3. CASE InsertStatus(job.arg, TRUE) /\ Failed
    <3>1. UNCHANGED <<statusRows, link>> /\ pc' = "select"
      BY <1>0, <2>3 DEF InsertStatus, Insert, Failed
    <3>2. QED
      BY <1>1, <2>1, <3>1
  <2>4. QED
    BY <1>2, <2>2, <2>3 DEF StoreStatus
<1>3. CASE ForceLogoutAll
  <2>1. present' = present \ Users /\ link' = "up" /\ pc' = "adopt"
    BY <1>0, <1>3 DEF ForceLogoutAll, LogOut, Continue
  <2>2. QED
    BY <2>1 DEF EmptyInv, TypeInv, TypeOK, DbTypeOK
<1>4. CASE UserLeaves
  <2>1. /\ present' \subseteq present /\ link' = "up" /\ UNCHANGED statusRows
        /\ pc = "leave" /\ pc' = "select"
    BY <1>0, <1>4 DEF UserLeaves, LogOut, Return
  <2>2. QED
    BY <1>0, <1>1, <2>1
<1>5. CASE CompareStatus \/ ReadStatus \/ UserExists \/ UserLoggedIn \/ PushUpdate
  <2>1. /\ UNCHANGED <<statusRows, present>> /\ pc # "logout" /\ pc' # "logout"
        /\ \E raised \in BOOLEAN : Select(raised)
    BY <1>5 DEF CompareStatus, ReadStatus, UserExists, UserLoggedIn, PushUpdate,
         SelectThen, SelectFails, Return, Continue, Failed
  <2>2. link' = link
    BY <1>0, <2>1 DEF Select
  <2>3. QED
    BY <1>1, <2>1, <2>2
<1>6. CASE AdoptStatus \/ TellStatus \/ DropFonera \/ UnlistFonera \/ TellFonera
  BY <1>1, <1>6 DEF AdoptStatus, TellStatus, DropFonera, UnlistFonera, TellFonera,
       Continue, Return, Failed, dbVars
<1>7. CASE StoreMessage \/ StoreTemperature
  <2>1. UNCHANGED <<statusRows, present>> /\ pc # "logout" /\ pc' # "logout"
    BY <1>7 DEF StoreMessage, StoreTemperature, Continue, Failed
  <2>2. link' = link
    BY <1>0, <1>7
       DEF StoreMessage, StoreTemperature, InsertMessage, InsertTemperature, Insert
  <2>3. QED
    BY <1>1, <2>1, <2>2
<1>8. CASE MainLoop
  <2>1. UNCHANGED dbVars /\ pc = "select" /\ pc' # "logout"
    BY <1>8, JobOfMessage DEF MainLoop, ReceiveMessage, SelectEvents, AcceptPhp, AcceptFonera, Receive,
         ReceiveIgnored, PhpHangsUp, FoneraHangsUp, UnexpectedEvent, AcceptRaises,
         NextReady, Idle, callVars
  <2>2. QED
    BY <1>1, <2>1 DEF dbVars
<1>9. CASE Operator
  <2>1. UNCHANGED <<statusRows, present>> /\ link' = "up" /\ pc # "logout" /\ pc' = "select"
    BY <1>0, <1>9 DEF Operator, Boot, Kill, InterruptIdle, InterruptHandler, EmptyInv
  <2>2. QED
    BY <1>0, <1>1, <2>1
<1>10. CASE Environment
  <2>1. UNCHANGED <<statusRows, present, link, pc, daemon>>
    BY <1>0, <1>10 DEF Environment, DbEnvironment, Tick, ClockStepsBack, LinkDrops, svcVars
  <2>2. QED
    BY <2>1, TablesDecide DEF EmptyInv
<1>11. CASE Stall \/ UNCHANGED vars
  BY <1>11, TablesDecide DEF Stall, vars, dbVars, svcVars, EmptyInv
<1>12. QED
  BY <1>2, <1>3, <1>4, <1>5, <1>6, <1>7, <1>8, <1>9, <1>10, <1>11 DEF Next, HandlerStep

(* While MySQL answers and nobody kills or interrupts the daemon, a closed *)
(* seat is empty between two handlers (Database.status calls               *)
(* force_logout_all after the INSERT): whatever the clock, the sends, the  *)
(* broadcasts and the accepts do.                                          *)
THEOREM ClosedAlwaysMeansEmpty ==
    ASSUME Faults \cap {"db", "kill", "interrupt"} = {}
    PROVE  Spec => []ClosedMeansEmpty
<1>1. Init => EmptyInv
  <2>1. ASSUME Init PROVE EmptyInv
    <3>1. ASSUME NEW r \in statusRows, r.value PROVE DbStatus
      BY <2>1, <3>1 DEF Init, DbInit, DbStatus
    <3>2. QED
      BY <2>1, <3>1 DEF Init, DbInit, EmptyInv
  <2>2. QED
    BY <2>1
<1>2. EmptyInv => ClosedMeansEmpty
  BY DEF EmptyInv, ClosedMeansEmpty, Idle
<1>3. QED
  BY <1>1, <1>2, EmptyInvStep, TypeInvAlways, PTL DEF Spec
=============================================================================
