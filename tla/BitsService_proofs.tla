------------------------ MODULE BitsService_proofs -------------------------
(***************************************************************************)
(* Theorems about BitsService, for every set of connections and users, for *)
(* every MaxTime, and for every set of Faults their statements allow.      *)
(***************************************************************************)
EXTENDS BitsService, TLAPS

(* What a handler knows of its job, call by call: the argument of a status *)
(* command is a status, the author of a stored message exists, and a job   *)
(* of PHP comes from a client still listed.                                *)
JobInv ==
    pc # "select" =>
      /\ job \in Jobs
      /\ pc \in {"compare", "read", "insert", "logout", "adopt", "tell"} =>
           job.arg \in BOOLEAN
      /\ pc = "store" /\ job.cmd = "message" => job.arg \in Users

(* A Fonera that is connected, or about to be disconnected, has a socket. *)
FoneraInv == connected \/ pc \in {"drop", "unlist"} => foneraConn \in Conns

TypeInv == TypeOK /\ JobInv /\ FoneraInv

(* A message of a peer makes a job, and a status command carries a status. *)
LEMMA JobOfMessage ==
    ASSUME NEW c \in Conns, NEW from,
           NEW m, \/ from = "php" /\ m \in PhpMessage
                  \/ from = "fonera" /\ m \in FoneraMessage
    PROVE  /\ Job(from, c, m) \in Jobs
           /\ Job(from, c, m).arg = m.arg
           /\ Job(from, c, m).cmd = m.cmd
           /\ Job(from, c, m).conn = c
           /\ Job(from, c, m).from = from
           /\ m.cmd = "status" => m.arg \in BOOLEAN
           /\ FirstCall(from, m) \in {"compare", "read", "exists", "store", "fonera"}
           /\ FirstCall(from, m) \in {"compare", "read"} => m.cmd = "status"
           /\ FirstCall(from, m) = "store" => m.cmd = "temperature"
<1>1. Job(from, c, m) \in Jobs
  BY DEF Jobs
<1>2. m.cmd \in {"status", "enter", "leave", "message", "sound", "temperature"}
  BY DEF PhpMessage, FoneraMessage
<1>3. m.cmd = "status" => m.arg \in BOOLEAN
  BY DEF PhpMessage, FoneraMessage
<1>4. /\ Job(from, c, m).arg = m.arg
      /\ Job(from, c, m).cmd = m.cmd
      /\ Job(from, c, m).conn = c
      /\ Job(from, c, m).from = from
  BY DEF Job
<1>5. /\ FirstCall(from, m) \in {"compare", "read", "exists", "store", "fonera"}
      /\ FirstCall(from, m) \in {"compare", "read"} => m.cmd = "status"
      /\ FirstCall(from, m) = "store" => m.cmd = "temperature"
  BY <1>2 DEF FirstCall
<1>6. QED
  BY <1>1, <1>3, <1>4, <1>5

(* data_dict returns a dictionary. *)
LEMMA DataDictType ==
    ASSUME DbTypeOK
    PROVE  DataDict \in NewsDict /\ DbStatus \in BOOLEAN
<1>1. Latest(tempRows) \in SUBSET Seconds
  BY DEF DbTypeOK, Latest
<1>2. Latest({m.ts : m \in msgRows}) \in SUBSET Seconds
  <2>1. \A m \in msgRows : m.ts \in Seconds
    BY DEF DbTypeOK, MsgRow
  <2>2. QED
    BY <2>1 DEF Latest
<1>3. DbStatus \in BOOLEAN
  BY DEF DbStatus
<1>4. QED
  BY <1>1, <1>2, <1>3 DEF DataDict, NewsDict

LEMMA TypeInvInit == Init => TypeInv
<1> SUFFICES ASSUME Init PROVE TypeInv
  OBVIOUS
<1>1. DbTypeOK
  BY DatabaseAssumption DEF Init, DbInit, DbTypeOK, StatusRow, Seconds
<1>2. NoNews \in NewsDict
  BY DEF NoNews, NewsDict
<1>3. QED
  BY <1>1, <1>2 DEF Init, TypeInv, TypeOK, JobInv, FoneraInv

(* A label a handler may go on to, with what JobInv says of it. *)
LabelOK(label) ==
    /\ label \in {"compare", "read", "insert", "logout", "adopt", "tell", "drop",
                  "unlist", "exists", "present", "leave", "store", "push", "fonera"}
    /\ label \in {"compare", "read", "insert", "logout", "adopt", "tell"} =>
         job.arg \in BOOLEAN
    /\ label \in {"drop", "unlist"} => foneraConn \in Conns
    /\ label = "store" /\ job.cmd = "message" => job.arg \in Users

(* The part of TypeOK that the end of a call can change. *)
ControlOK ==
    /\ daemon \in {"off", "up", "boot", "signal", "accept", "handler"}
    /\ pc \in {"select", "compare", "read", "insert", "logout", "adopt", "tell",
               "drop", "unlist", "exists", "present", "leave", "store", "push",
               "fonera"}
    /\ job \in Jobs \cup {None}
    /\ ready \subseteq Conns \cup Listeners
    /\ held \in BOOLEAN
    /\ events \subseteq Conns \cup Listeners
    /\ phpConns \subseteq Conns
    /\ foneraConn \in Conns \cup {None}
    /\ connected \in BOOLEAN
    /\ JobInv
    /\ FoneraInv

(* The rest of TypeOK, what the handlers serve. *)
ServedOK ==
    /\ foneraStatus \in BOOLEAN
    /\ told \in BOOLEAN
    /\ missed \in BOOLEAN
    /\ orphans \subseteq Conns
    /\ std \in BOOLEAN
    /\ ws \in NewsDict

LEMMA TypeInvSplit ==
    /\ TypeInv <=> DbTypeOK /\ ControlOK /\ ServedOK
    /\ TypeInv' <=> DbTypeOK' /\ ControlOK' /\ ServedOK'
BY DEF TypeInv, TypeOK, ControlOK, ServedOK

(* The three ways a call of a handler ends keep that part. *)
LEMMA HandlerEndType ==
    ASSUME ControlOK, pc # "select",
           \/ \E label : LabelOK(label) /\ Continue(label) /\ UNCHANGED connVars
           \/ Return /\ UNCHANGED connVars
           \/ Failed
    PROVE  ControlOK'
<1>1. ASSUME NEW label, LabelOK(label), Continue(label), UNCHANGED connVars
      PROVE  ControlOK'
  BY <1>1 DEF ControlOK, JobInv, FoneraInv, LabelOK, Continue, connVars
<1>2. ASSUME Return, UNCHANGED connVars
      PROVE  ControlOK'
  BY <1>2 DEF ControlOK, JobInv, FoneraInv, Return, connVars
<1>3. ASSUME Failed
      PROVE  ControlOK'
  BY <1>3 DEF ControlOK, JobInv, FoneraInv, Failed, PhpDisconnectClient, connVars
<1>4. QED
  BY <1>1, <1>2, <1>3

(* The calls that only SELECT. *)
LEMMA SelectThenEnds ==
    ASSUME NEW label, pc # "select", ControlOK,
           label = "select" \/ LabelOK(label), SelectThen(label)
    PROVE  ControlOK' /\ link' \in {"up", "gone"}
<1>1. link' \in {"up", "gone"}
  BY DEF SelectThen, Select
<1>2. CASE label = "select"
  BY <1>1, <1>2, HandlerEndType DEF SelectThen
<1>3. CASE label # "select"
  BY <1>1, <1>3, HandlerEndType DEF SelectThen
<1>4. QED
  BY <1>2, <1>3

LEMMA SelectFailsEnds ==
    ASSUME pc # "select", ControlOK, SelectFails
    PROVE  ControlOK' /\ link' \in {"up", "gone"}
BY HandlerEndType DEF SelectFails, Select

(* The calls that write. *)
LEMMA LogOutType ==
    ASSUME DbTypeOK, NEW users, NEW raised, LogOut(users, raised)
    PROVE  present' \subseteq Users /\ link' \in {"up", "gone"}
BY DEF DbTypeOK, LogOut

LEMMA InsertType ==
    ASSUME DbTypeOK, NEW raised
    PROVE  /\ \A s \in BOOLEAN : InsertStatus(s, raised) =>
                statusRows' \subseteq StatusRow /\ link' \in {"up", "gone"}
           /\ InsertTemperature(raised) =>
                tempRows' \subseteq Seconds /\ link' \in {"up", "gone"}
           /\ \A u \in Users : InsertMessage(u, raised) =>
                msgRows' \subseteq MsgRow /\ link' \in {"up", "gone"}
<1>1. ASSUME NEW s \in BOOLEAN, InsertStatus(s, raised)
      PROVE  statusRows' \subseteq StatusRow /\ link' \in {"up", "gone"}
  <2>1. [ts |-> now, value |-> s] \in StatusRow
    BY DEF DbTypeOK, StatusRow
  <2>2. QED
    BY <1>1, <2>1 DEF InsertStatus, Insert, DbTypeOK
<1>2. ASSUME InsertTemperature(raised)
      PROVE  tempRows' \subseteq Seconds /\ link' \in {"up", "gone"}
  BY <1>2 DEF InsertTemperature, Insert, DbTypeOK
<1>3. ASSUME NEW u \in Users, InsertMessage(u, raised)
      PROVE  msgRows' \subseteq MsgRow /\ link' \in {"up", "gone"}
  <2>1. [user |-> u, ts |-> now] \in MsgRow
    BY DEF DbTypeOK, MsgRow
  <2>2. QED
    BY <1>3, <2>1 DEF InsertMessage, Insert, DbTypeOK
<1>4. QED
  BY <1>1, <1>2, <1>3

LEMMA TypeInvHandler == TypeInv /\ HandlerStep => TypeInv'
<1> SUFFICES ASSUME TypeInv, HandlerStep PROVE TypeInv'
  OBVIOUS
<1>ctl. ControlOK /\ DbTypeOK
  BY TypeInvSplit
<1>run. Running => pc # "select"
  BY DEF Running
<1>arg. job \in Jobs => job.from \in {"php", "fonera"}
  BY DEF Jobs, Job
<1>1. CASE CompareStatus
  <2>1. job.arg \in BOOLEAN
    BY <1>1, <1>ctl DEF CompareStatus, ControlOK, JobInv, FoneraInv
  <2>2. LabelOK("read")
    BY <2>1 DEF LabelOK
  <2>3. ControlOK' /\ link' \in {"up", "gone"}
    BY <1>1, <1>ctl, <1>run, <2>2, SelectThenEnds, SelectFailsEnds DEF CompareStatus
  <2>4. QED
    BY <1>1, <2>3, TypeInvSplit DEF CompareStatus, DbTypeOK, ServedOK, ghostVars, pushVars
<1>2. CASE ReadStatus
  <2>1. job.arg \in BOOLEAN
    BY <1>2, <1>ctl DEF ReadStatus, ControlOK, JobInv, FoneraInv
  <2>2. LabelOK("insert") /\ LabelOK("adopt")
    BY <2>1 DEF LabelOK
  <2>3. ControlOK' /\ link' \in {"up", "gone"}
    BY <1>2, <1>ctl, <1>run, <2>2, SelectThenEnds, SelectFailsEnds DEF ReadStatus
  <2>4. QED
    BY <1>2, <2>3, TypeInvSplit DEF ReadStatus, DbTypeOK, ServedOK, ghostVars, pushVars
<1>3. CASE StoreStatus
  <2>1. job.arg \in BOOLEAN
    BY <1>3, <1>ctl DEF StoreStatus, ControlOK, JobInv, FoneraInv
  <2>2. LabelOK("logout") /\ LabelOK("adopt")
    BY <2>1 DEF LabelOK
  <2>3. ControlOK'
    BY <1>3, <1>ctl, <1>run, <2>2, HandlerEndType DEF StoreStatus
  <2>4. statusRows' \subseteq StatusRow /\ link' \in {"up", "gone"}
    BY <1>3, <1>ctl, <2>1, InsertType DEF StoreStatus
  <2>5. QED
    BY <1>3, <2>3, <2>4, TypeInvSplit DEF StoreStatus, DbTypeOK, ServedOK, ghostVars, pushVars
<1>4. CASE ForceLogoutAll
  <2>1. job.arg \in BOOLEAN
    BY <1>4, <1>ctl DEF ForceLogoutAll, ControlOK, JobInv, FoneraInv
  <2>2. LabelOK("adopt")
    BY <2>1 DEF LabelOK
  <2>3. ControlOK'
    BY <1>4, <1>ctl, <1>run, <2>2, HandlerEndType DEF ForceLogoutAll
  <2>4. present' \subseteq Users /\ link' \in {"up", "gone"}
    BY <1>4, <1>ctl, LogOutType DEF ForceLogoutAll
  <2>5. QED
    BY <1>4, <2>3, <2>4, TypeInvSplit DEF ForceLogoutAll, DbTypeOK, ServedOK, ghostVars, pushVars
<1>5. CASE AdoptStatus
  <2>1. job.arg \in BOOLEAN
    BY <1>5, <1>ctl DEF AdoptStatus, ControlOK, JobInv, FoneraInv
  <2>2. LabelOK("tell") /\ LabelOK("push")
    BY <2>1 DEF LabelOK
  <2>3. ControlOK'
    BY <1>5, <1>ctl, <1>run, <2>2, HandlerEndType DEF AdoptStatus
  <2>4. told' \in BOOLEAN /\ missed' \in BOOLEAN
    BY <1>5, <2>1, TypeInvSplit DEF AdoptStatus, ServedOK
  <2>5. QED
    BY <1>5, <2>1, <2>3, <2>4, TypeInvSplit
       DEF AdoptStatus, DbTypeOK, ServedOK, dbVars, pushVars
<1>51. CASE TellStatus
  <2>1. job.arg \in BOOLEAN
    BY <1>51, <1>ctl DEF TellStatus, ControlOK, JobInv, FoneraInv
  <2>2. LabelOK("push") /\ (connected => LabelOK("drop"))
    BY <1>ctl DEF LabelOK, ControlOK, FoneraInv
  <2>3. ControlOK'
    BY <1>51, <1>ctl, <1>run, <2>2, HandlerEndType DEF TellStatus
  <2>4. told' \in BOOLEAN /\ missed' \in BOOLEAN
    BY <1>51, <2>1, TypeInvSplit DEF TellStatus, ServedOK
  <2>5. QED
    BY <1>51, <2>3, <2>4, TypeInvSplit
       DEF TellStatus, DbTypeOK, ServedOK, dbVars, pushVars
<1>52. CASE DropFonera
  <2>1. ControlOK'
    BY <1>52, <1>ctl DEF DropFonera, Continue, ControlOK, JobInv, FoneraInv
  <2>2. QED
    BY <1>52, <2>1, TypeInvSplit
       DEF DropFonera, DbTypeOK, ServedOK, dbVars, pushVars, ghostVars
<1>53. CASE UnlistFonera
  <2>1. Failed => ControlOK'
    BY <1>53, <1>ctl, <1>run, HandlerEndType DEF UnlistFonera
  <2>2. ~Failed => ControlOK'
    BY <1>53, <1>ctl DEF UnlistFonera, Continue, Return, ControlOK, JobInv, FoneraInv
  <2>3. QED
    BY <1>53, <2>1, <2>2, TypeInvSplit
       DEF UnlistFonera, DbTypeOK, ServedOK, dbVars, pushVars, ghostVars
<1>6. CASE UserExists
  <2>1. job.arg \in Users => LabelOK("store")
    BY DEF LabelOK
  <2>2. LabelOK("present")
    BY DEF LabelOK
  <2>3. ControlOK' /\ link' \in {"up", "gone"}
    BY <1>6, <1>ctl, <1>run, <2>1, <2>2, SelectThenEnds, SelectFailsEnds DEF UserExists
  <2>4. QED
    BY <1>6, <2>3, TypeInvSplit DEF UserExists, DbTypeOK, ServedOK, ghostVars, pushVars
<1>7. CASE UserLoggedIn
  <2>1. LabelOK("leave")
    BY DEF LabelOK
  <2>2. ControlOK' /\ link' \in {"up", "gone"}
    <3>1. Select(FALSE) => link' \in {"up", "gone"}
      BY DEF Select
    <3>2. QED
      BY <1>7, <1>ctl, <1>run, <2>1, <3>1, SelectThenEnds, SelectFailsEnds, HandlerEndType
         DEF UserLoggedIn
  <2>3. QED
    BY <1>7, <2>2, TypeInvSplit DEF UserLoggedIn, DbTypeOK, ServedOK, ghostVars, pushVars
<1>8. CASE UserLeaves
  <2>1. ControlOK'
    BY <1>8, <1>ctl, <1>run, HandlerEndType DEF UserLeaves
  <2>2. present' \subseteq Users /\ link' \in {"up", "gone"}
    BY <1>8, <1>ctl, LogOutType DEF UserLeaves
  <2>3. QED
    BY <1>8, <2>1, <2>2, TypeInvSplit DEF UserLeaves, DbTypeOK, ServedOK, ghostVars, pushVars
<1>9. CASE StoreMessage
  <2>1. job.arg \in Users
    BY <1>9, <1>ctl DEF StoreMessage, ControlOK, JobInv, FoneraInv
  <2>2. LabelOK("push")
    BY DEF LabelOK
  <2>3. ControlOK'
    BY <1>9, <1>ctl, <1>run, <2>2, HandlerEndType DEF StoreMessage
  <2>4. msgRows' \subseteq MsgRow /\ link' \in {"up", "gone"}
    BY <1>9, <1>ctl, <2>1, InsertType DEF StoreMessage
  <2>5. QED
    BY <1>9, <2>3, <2>4, TypeInvSplit DEF StoreMessage, DbTypeOK, ServedOK, ghostVars, pushVars
<1>10. CASE StoreTemperature
  <2>1. LabelOK("push")
    BY DEF LabelOK
  <2>2. ControlOK'
    BY <1>10, <1>ctl, <1>run, <2>1, HandlerEndType DEF StoreTemperature
  <2>3. tempRows' \subseteq Seconds /\ link' \in {"up", "gone"}
    BY <1>10, <1>ctl, InsertType DEF StoreTemperature
  <2>4. QED
    BY <1>10, <2>2, <2>3, TypeInvSplit DEF StoreTemperature, DbTypeOK, ServedOK, ghostVars, pushVars
<1>11. CASE PushUpdate
  <2>1. LabelOK("fonera")
    BY DEF LabelOK
  <2>2. ControlOK'
    BY <1>11, <1>ctl, <1>run, <2>1, HandlerEndType, SelectFailsEnds DEF PushUpdate
  <2>3. link' \in {"up", "gone"}
    BY <1>11, <1>ctl DEF PushUpdate, SelectFails, Select, DbTypeOK
  <2>4. std' \in BOOLEAN /\ ws' \in NewsDict
    BY <1>11, <1>ctl, DataDictType, TypeInvSplit DEF PushUpdate, ServedOK, ghostVars, pushVars
  <2>5. QED
    BY <1>11, <2>2, <2>3, <2>4, TypeInvSplit DEF PushUpdate, DbTypeOK, ServedOK, ghostVars
<1>12. CASE TellFonera
  <2>1. connected => LabelOK("drop")
    BY <1>ctl DEF LabelOK, ControlOK, FoneraInv
  <2>2. ControlOK'
    BY <1>12, <1>ctl, <1>run, <2>1, HandlerEndType DEF TellFonera
  <2>3. QED
    BY <1>12, <2>2, TypeInvSplit
       DEF TellFonera, DbTypeOK, ServedOK, dbVars, pushVars, ghostVars
<1>13. QED
  BY <1>1, <1>2, <1>3, <1>4, <1>5, <1>51, <1>52, <1>53, <1>6, <1>7, <1>8, <1>9,
     <1>10, <1>11, <1>12 DEF HandlerStep

LEMMA TypeInvStall == TypeInv /\ Stall => TypeInv'
BY DEF Stall, TypeInv, TypeOK, DbTypeOK, JobInv, FoneraInv, dbVars, connVars, ghostVars,
       pushVars

LEMMA TypeInvMainLoop == TypeInv /\ MainLoop => TypeInv'
<1> SUFFICES ASSUME TypeInv, MainLoop PROVE TypeInv'
  OBVIOUS
<1> USE DEF ControlOK, JobInv, FoneraInv, NextReady, Idle, callVars, connVars, ghostVars, dbVars,
            pushVars
<1>ctl. ControlOK
  BY TypeInvSplit
<1>1. CASE SelectEvents
  <2>1. ControlOK'
    BY <1>1, <1>ctl DEF SelectEvents
  <2>2. QED
    BY <1>1, <2>1, TypeInvSplit DEF SelectEvents, DbTypeOK, ServedOK
<1>2. ASSUME NEW c \in Conns, AcceptPhp(c)
      PROVE  TypeInv'
  <2>1. ControlOK'
    BY <1>2, <1>ctl DEF AcceptPhp
  <2>2. QED
    BY <1>2, <2>1, TypeInvSplit DEF AcceptPhp, DbTypeOK, ServedOK
<1>3. ASSUME NEW c \in Conns, AcceptFonera(c)
      PROVE  TypeInv'
  <2>1. ControlOK'
    BY <1>3, <1>ctl DEF AcceptFonera
  <2>2. QED
    BY <1>3, <2>1, TypeInvSplit DEF AcceptFonera, DbTypeOK, ServedOK
<1>4. ASSUME NEW c \in Conns, NEW m, NEW from, Receive(c, from, m),
             \/ from = "php" /\ m \in PhpMessage
             \/ from = "fonera" /\ m \in FoneraMessage
      PROVE  TypeInv'
  <2>1. /\ Job(from, c, m) \in Jobs
        /\ Job(from, c, m).arg = m.arg
        /\ Job(from, c, m).cmd = m.cmd
        /\ m.cmd = "status" => m.arg \in BOOLEAN
        /\ FirstCall(from, m) \in {"compare", "read", "exists", "store", "fonera"}
        /\ FirstCall(from, m) \in {"compare", "read"} => m.cmd = "status"
        /\ FirstCall(from, m) = "store" => m.cmd = "temperature"
    BY <1>4, JobOfMessage
  <2>2. ControlOK'
    BY <1>4, <1>ctl, <2>1 DEF Receive
  <2>3. QED
    BY <1>4, <2>2, TypeInvSplit DEF Receive, DbTypeOK, ServedOK
<1>5. ASSUME NEW c \in Conns, ReceiveIgnored(c)
      PROVE  TypeInv'
  <2>1. ControlOK'
    BY <1>5, <1>ctl DEF ReceiveIgnored
  <2>2. QED
    BY <1>5, <2>1, TypeInvSplit DEF ReceiveIgnored, DbTypeOK, ServedOK
<1>6. ASSUME NEW c \in Conns, PhpHangsUp(c)
      PROVE  TypeInv'
  <2>1. ControlOK'
    BY <1>6, <1>ctl DEF PhpHangsUp, PhpDisconnectClient
  <2>2. QED
    BY <1>6, <2>1, TypeInvSplit DEF PhpHangsUp, DbTypeOK, ServedOK
<1>7. ASSUME NEW c \in Conns, FoneraHangsUp(c)
      PROVE  TypeInv'
  <2>1. ControlOK'
    BY <1>7, <1>ctl DEF FoneraHangsUp, FoneraDisconnect
  <2>2. QED
    BY <1>7, <2>1, TypeInvSplit DEF FoneraHangsUp, DbTypeOK, ServedOK
<1>8. ASSUME NEW c \in Conns, UnexpectedEvent(c)
      PROVE  TypeInv'
  <2>1. ControlOK'
    BY <1>8, <1>ctl DEF UnexpectedEvent
  <2>2. QED
    BY <1>8, <2>1, TypeInvSplit DEF UnexpectedEvent, DbTypeOK, ServedOK
<1>9. ASSUME NEW e \in Listeners, AcceptRaises(e)
      PROVE  TypeInv'
  <2>1. ControlOK'
    BY <1>9, <1>ctl DEF AcceptRaises
  <2>2. QED
    BY <1>9, <2>1, TypeInvSplit DEF AcceptRaises, DbTypeOK, ServedOK
<1>10. QED
  BY <1>1, <1>2, <1>3, <1>4, <1>5, <1>6, <1>7, <1>8, <1>9 DEF MainLoop, ReceiveMessage

LEMMA TypeInvOperator == TypeInv /\ Operator => TypeInv'
<1> SUFFICES ASSUME TypeInv, Operator PROVE TypeInv'
  OBVIOUS
<1>ctl. ControlOK /\ DbTypeOK
  BY TypeInvSplit
<1>1. CASE Boot
  <2>1. ControlOK'
    BY <1>1, <1>ctl DEF Boot, ControlOK, JobInv, FoneraInv
  <2>2. ServedOK'
    BY <1>1, <1>ctl, DataDictType DEF Boot, ServedOK
  <2>3. QED
    BY <1>1, <2>1, <2>2, TypeInvSplit DEF Boot, DbTypeOK
<1>2. CASE Kill
  <2>1. ControlOK'
    BY <1>2, <1>ctl DEF Kill, ControlOK, JobInv, FoneraInv
  <2>2. NoNews \in NewsDict
    BY DEF NoNews, NewsDict
  <2>3. QED
    BY <1>2, <2>1, <2>2, TypeInvSplit DEF Kill, DbTypeOK, ServedOK, dbVars
<1>3. CASE InterruptIdle
  <2>1. ControlOK'
    BY <1>3, <1>ctl DEF InterruptIdle, ControlOK, JobInv, FoneraInv, callVars
  <2>2. QED
    BY <1>3, <2>1, TypeInvSplit DEF InterruptIdle, DbTypeOK, ServedOK, dbVars, pushVars
<1>4. CASE InterruptHandler
  <2>1. ControlOK'
    BY <1>4, <1>ctl, HandlerEndType DEF InterruptHandler, Running
  <2>2. missed' \in BOOLEAN
    BY <1>4, TypeInvSplit DEF InterruptHandler, ServedOK
  <2>3. orphans' \subseteq Conns
    <3>1. pc = "unlist" => foneraConn \in Conns
      BY <1>ctl DEF ControlOK, FoneraInv
    <3>2. QED
      BY <1>4, <3>1, TypeInvSplit DEF InterruptHandler, ServedOK
  <2>4. QED
    BY <1>4, <2>1, <2>2, <2>3, TypeInvSplit
       DEF InterruptHandler, DbTypeOK, ServedOK, dbVars, pushVars
<1>5. QED
  BY <1>1, <1>2, <1>3, <1>4 DEF Operator

LEMMA TypeInvEnvironment == TypeInv /\ Environment => TypeInv'
<1> SUFFICES ASSUME TypeInv, Environment PROVE TypeInv'
  OBVIOUS
<1>1. ControlOK' /\ ServedOK'
  BY TypeInvSplit DEF Environment, svcVars, ControlOK, JobInv, FoneraInv, ServedOK
<1>2. DbTypeOK'
  <2>1. CASE Tick
    BY <2>1, DatabaseAssumption, TypeInvSplit DEF Tick, DbTypeOK, Seconds
  <2>2. CASE ClockStepsBack
    BY <2>2, TypeInvSplit DEF ClockStepsBack, DbTypeOK
  <2>3. CASE LinkDrops
    BY <2>3, TypeInvSplit DEF LinkDrops, DbTypeOK
  <2>4. QED
    BY <2>1, <2>2, <2>3 DEF Environment, DbEnvironment
<1>3. QED
  BY <1>1, <1>2, TypeInvSplit

LEMMA TypeInvStep == TypeInv /\ [Next]_vars => TypeInv'
<1>1. TypeInv /\ UNCHANGED vars => TypeInv'
  BY DEF vars, dbVars, svcVars, TypeInv, TypeOK, DbTypeOK, JobInv, FoneraInv
<1>2. QED
  BY <1>1, TypeInvHandler, TypeInvStall, TypeInvMainLoop, TypeInvOperator,
     TypeInvEnvironment DEF Next

LEMMA TypeInvAlways == Spec => []TypeInv
BY TypeInvInit, TypeInvStep, PTL DEF Spec

(* Every variable of the daemon keeps its type, whatever fails. *)
THEOREM TypeCorrect == Spec => []TypeOK
<1>1. TypeInv => TypeOK
  BY DEF TypeInv
<1>2. QED
  BY <1>1, TypeInvAlways, PTL

-----------------------------------------------------------------------------
(* The descriptors.                                                        *)

(* The lists agree all along a handler, because every handler that         *)
(* disconnects somebody does so in calls that go together; the client a    *)
(* handler may have to drop is still listed when it comes to that.         *)
Listed ==
    /\ events = Listeners \cup phpConns \cup orphans
                  \cup (IF connected \/ pc = "unlist" THEN {foneraConn} ELSE {})
    /\ connected \/ pc = "unlist" => foneraConn \in Conns \ (phpConns \cup orphans)
    /\ orphans \cap phpConns = {}
    /\ pc = "unlist" => ~connected
    /\ pc = "drop" => connected

EventsInv ==
    /\ daemon = "up" => Listed
    /\ NoUncaughtError
    /\ Running /\ job.from = "php" => job.conn \in phpConns

LEMMA EventsInvInit == Init => EventsInv
BY DEF Init, EventsInv, NoUncaughtError, Running

(* php_disconnect_client finds its client in both lists. *)
LEMMA PhpDisconnectKeeps ==
    ASSUME TypeInv, EventsInv, daemon = "up",
           NEW c \in phpConns, PhpDisconnectClient(c)
    PROVE  /\ daemon' = "up"
           /\ phpConns' = phpConns \ {c}
           /\ UNCHANGED <<foneraConn, connected>>
           /\ events' = Listeners \cup phpConns' \cup orphans
                          \cup (IF connected \/ pc = "unlist" THEN {foneraConn} ELSE {})
<1>1. /\ phpConns \subseteq Conns
      /\ c \in events /\ c \notin Listeners /\ c \notin orphans
      /\ connected \/ pc = "unlist" => c # foneraConn
  BY ServiceAssumption DEF TypeInv, TypeOK, EventsInv, Listed, Listeners
<1>2. daemon' = "up"
  BY <1>1 DEF PhpDisconnectClient
<1>3. QED
  BY <1>1, <1>2 DEF PhpDisconnectClient, EventsInv, Listed

(* The ways a call of a handler ends, of those that disconnect no Fonera. *)
LEMMA HandlerEndKeepsEvents ==
    ASSUME TypeInv, EventsInv, Running, pc # "unlist", UNCHANGED orphans,
           \/ /\ UNCHANGED <<daemon, job, connVars>>
              /\ pc' # "unlist"
              /\ pc' = "drop" => connected
           \/ Return /\ UNCHANGED connVars
           \/ Failed
    PROVE  EventsInv'
<1>1. ASSUME UNCHANGED <<daemon, job, connVars>>, pc' # "unlist",
             pc' = "drop" => connected
      PROVE  EventsInv'
  BY <1>1 DEF EventsInv, Listed, NoUncaughtError, Running, connVars
<1>2. ASSUME Return, UNCHANGED connVars
      PROVE  EventsInv'
  BY <1>2 DEF EventsInv, Listed, NoUncaughtError, Running, Return, connVars
<1>3. ASSUME Failed
      PROVE  EventsInv'
  <2>1. pc' = "select" /\ daemon = "up"
    BY <1>3 DEF Failed, Running
  <2>2. CASE job.from = "php"
    <3>1. /\ daemon' = "up"
          /\ phpConns' = phpConns \ {job.conn}
          /\ UNCHANGED <<foneraConn, connected>>
          /\ events' = Listeners \cup phpConns' \cup orphans
                         \cup (IF connected THEN {foneraConn} ELSE {})
      BY <1>3, <2>1, <2>2, PhpDisconnectKeeps DEF EventsInv, Failed
    <3>2. QED
      BY <2>1, <3>1 DEF EventsInv, Listed, NoUncaughtError, Running
  <2>3. CASE job.from # "php"
    BY <1>3, <2>1, <2>3 DEF EventsInv, Listed, NoUncaughtError, Running, Failed, connVars
  <2>4. QED
    BY <2>2, <2>3
<1>4. QED
  BY <1>1, <1>2, <1>3

LEMMA EventsInvHandler == TypeInv /\ EventsInv /\ HandlerStep => EventsInv'
<1> SUFFICES ASSUME TypeInv, EventsInv, HandlerStep PROVE EventsInv'
  OBVIOUS
<1> USE DEF ghostVars
<1>1. CASE CompareStatus
  BY <1>1, HandlerEndKeepsEvents DEF CompareStatus, Continue, SelectThen, SelectFails
<1>2. CASE ReadStatus
  BY <1>2, HandlerEndKeepsEvents DEF ReadStatus, Continue, SelectThen, SelectFails
<1>3. CASE StoreStatus
  BY <1>3, HandlerEndKeepsEvents DEF StoreStatus, Continue
<1>4. CASE ForceLogoutAll
  BY <1>4, HandlerEndKeepsEvents DEF ForceLogoutAll, Continue
<1>5. CASE AdoptStatus
  BY <1>5, HandlerEndKeepsEvents DEF AdoptStatus, Continue
<1>6. CASE TellStatus
  BY <1>6, HandlerEndKeepsEvents DEF TellStatus, Continue
<1>7. CASE DropFonera
  BY <1>7 DEF DropFonera, Continue, Running, EventsInv, Listed, NoUncaughtError
<1>8. CASE UnlistFonera
  <2>1. /\ daemon = "up" /\ ~connected /\ foneraConn \in events
        /\ foneraConn \notin Listeners \cup phpConns \cup orphans
    BY <1>8, ServiceAssumption DEF UnlistFonera, Running, EventsInv, Listed, Listeners
  <2>2. /\ events' = events \ {foneraConn}
        /\ UNCHANGED <<daemon, phpConns, foneraConn, connected, orphans>>
        /\ \/ pc' = "push" /\ job' = job
           \/ pc' = "select"
    BY <1>8, <2>1 DEF UnlistFonera, Continue, Return
  <2>3. events' = Listeners \cup phpConns' \cup orphans'
    BY <1>8, <2>1, <2>2 DEF UnlistFonera, EventsInv, Listed
  <2>4. QED
    BY <1>8, <2>1, <2>2, <2>3
       DEF UnlistFonera, Running, EventsInv, Listed, NoUncaughtError
<1>9. CASE UserExists
  BY <1>9, HandlerEndKeepsEvents DEF UserExists, Continue, SelectThen, SelectFails
<1>10. CASE UserLoggedIn
  BY <1>10, HandlerEndKeepsEvents DEF UserLoggedIn, Continue, SelectThen, SelectFails
<1>11. CASE UserLeaves
  BY <1>11, HandlerEndKeepsEvents DEF UserLeaves, Continue
<1>12. CASE StoreMessage
  BY <1>12, HandlerEndKeepsEvents DEF StoreMessage, Continue
<1>13. CASE StoreTemperature
  BY <1>13, HandlerEndKeepsEvents DEF StoreTemperature, Continue
<1>14. CASE PushUpdate
  BY <1>14, HandlerEndKeepsEvents DEF PushUpdate, Continue, SelectFails
<1>15. CASE TellFonera
  BY <1>15, HandlerEndKeepsEvents DEF TellFonera, Continue
<1>16. QED
  BY <1>1, <1>2, <1>3, <1>4, <1>5, <1>6, <1>7, <1>8, <1>9, <1>10, <1>11, <1>12,
     <1>13, <1>14, <1>15 DEF HandlerStep

LEMMA EventsInvMainLoop == TypeInv /\ EventsInv /\ MainLoop => EventsInv'
<1> SUFFICES ASSUME TypeInv, EventsInv, MainLoop PROVE EventsInv'
  OBVIOUS
<1> USE DEF EventsInv, Listed, NoUncaughtError, NextReady, Idle, Running, callVars,
            ghostVars
<1>1. CASE SelectEvents
  BY <1>1 DEF SelectEvents, connVars
<1>2. ASSUME NEW c \in Conns, AcceptPhp(c)
      PROVE  EventsInv'
  BY <1>2 DEF AcceptPhp, Fresh
<1>3. ASSUME NEW c \in Conns, AcceptFonera(c)
      PROVE  EventsInv'
  <2>1. /\ connected => foneraConn \notin Listeners \cup phpConns \cup orphans
        /\ c \notin phpConns \cup orphans \cup Listeners
        /\ daemon' = "up" /\ UNCHANGED <<phpConns, orphans>> /\ pc' = "select"
    BY <1>3, ServiceAssumption DEF AcceptFonera, Fresh, Listeners
  <2>2. events' = Listeners \cup phpConns' \cup orphans'
                    \cup (IF connected' THEN {foneraConn'} ELSE {})
    BY <1>3, <2>1 DEF AcceptFonera
  <2>3. QED
    BY <1>3, <2>1, <2>2 DEF AcceptFonera
<1>4. ASSUME NEW c \in Conns, NEW m, NEW from, Receive(c, from, m),
             \/ from = "php" /\ m \in PhpMessage
             \/ from = "fonera" /\ m \in FoneraMessage
      PROVE  EventsInv'
  <2>1. job'.from = from /\ job'.conn = c
    BY <1>4 DEF Receive, Job
  <2>2. from = "php" => c \in phpConns
    BY <1>4 DEF Receive, IsPhp
  <2>3. FirstCall(from, m) \notin {"drop", "unlist"}
    BY <1>4, JobOfMessage
  <2>4. QED
    BY <1>4, <2>1, <2>2, <2>3 DEF Receive, connVars
<1>5. ASSUME NEW c \in Conns, ReceiveIgnored(c)
      PROVE  EventsInv'
  BY <1>5 DEF ReceiveIgnored, connVars
<1>6. ASSUME NEW c \in Conns, PhpHangsUp(c)
      PROVE  EventsInv'
  BY <1>6, PhpDisconnectKeeps DEF PhpHangsUp, IsPhp
<1>7. ASSUME NEW c \in Conns, FoneraHangsUp(c)
      PROVE  EventsInv'
  <2>1. foneraConn \notin Listeners
    BY <1>7, ServiceAssumption DEF FoneraHangsUp, IsFonera, Listeners
  <2>2. QED
    BY <1>7, <2>1 DEF FoneraHangsUp, FoneraDisconnect, IsFonera
<1>8. ASSUME NEW c \in Conns, UnexpectedEvent(c)
      PROVE  EventsInv'
  <2>1. c \notin Listeners \cup phpConns /\ (connected => c # foneraConn)
    BY <1>8, ServiceAssumption DEF UnexpectedEvent, IsFonera, IsPhp, Listeners
  <2>2. QED
    BY <1>8, <2>1 DEF UnexpectedEvent
<1>9. ASSUME NEW e \in Listeners, AcceptRaises(e)
      PROVE  EventsInv'
  BY <1>9 DEF AcceptRaises
<1>10. QED
  BY <1>1, <1>2, <1>3, <1>4, <1>5, <1>6, <1>7, <1>8, <1>9 DEF MainLoop, ReceiveMessage

LEMMA EventsInvOperator == TypeInv /\ EventsInv /\ Operator => EventsInv'
<1> SUFFICES ASSUME TypeInv, EventsInv, Operator PROVE EventsInv'
  OBVIOUS
<1>1. CASE Boot
  BY <1>1 DEF Boot, EventsInv, Listed, NoUncaughtError, Running
<1>2. CASE Kill \/ InterruptIdle
  BY <1>2 DEF Kill, InterruptIdle, EventsInv, NoUncaughtError, Running
<1>3. CASE InterruptHandler
  <2>1. CASE pc # "unlist"
    <3>1. UNCHANGED orphans
      BY <1>3, <2>1 DEF InterruptHandler
    <3>2. QED
      BY <1>3, <2>1, <3>1, HandlerEndKeepsEvents DEF InterruptHandler
  <2>2. CASE pc = "unlist"
    <3>1. /\ daemon = "up" /\ ~connected /\ pc' = "select"
          /\ orphans' = orphans \cup {foneraConn}
          /\ foneraConn \in Conns \ phpConns
      BY <1>3, <2>2 DEF InterruptHandler, Running, Failed, EventsInv, Listed
    <3>2. CASE job.from = "php"
      <4>1. /\ daemon' = "up"
            /\ phpConns' = phpConns \ {job.conn}
            /\ UNCHANGED <<foneraConn, connected>>
            /\ events' = Listeners \cup phpConns' \cup orphans \cup {foneraConn}
        BY <1>3, <2>2, <3>1, <3>2, PhpDisconnectKeeps
           DEF InterruptHandler, EventsInv, Failed
      <4>2. QED
        BY <3>1, <4>1 DEF EventsInv, Listed, NoUncaughtError, Running
    <3>3. CASE job.from # "php"
      BY <1>3, <2>2, <3>1, <3>3
         DEF InterruptHandler, EventsInv, Listed, NoUncaughtError, Running, Failed, connVars
    <3>4. QED
      BY <3>2, <3>3
  <2>3. QED
    BY <2>1, <2>2
<1>4. QED
  BY <1>1, <1>2, <1>3 DEF Operator

LEMMA EventsInvStep == TypeInv /\ EventsInv /\ [Next]_vars => EventsInv'
<1>1. EventsInv /\ UNCHANGED svcVars => EventsInv'
  BY DEF svcVars, EventsInv, Listed, NoUncaughtError, Running
<1>2. EventsInv /\ Stall => EventsInv'
  BY DEF Stall, EventsInv, Listed, NoUncaughtError, Running, connVars, ghostVars
<1>3. QED
  BY <1>1, <1>2, EventsInvHandler, EventsInvMainLoop, EventsInvOperator
     DEF Next, Environment, vars

LEMMA EventsInvAlways == Spec => [](TypeInv /\ EventsInv)
BY TypeInvAlways, EventsInvInit, EventsInvStep, PTL DEF Spec

(* Whatever fails, and wherever Ctrl-C strikes, select is called on        *)
(* exactly the sockets that are open: the listed ones, and a Fonera that   *)
(* was being disconnected when Ctrl-C came.                                *)
THEOREM EventsAlwaysConsistent == Spec => []EventsConsistent
<1>1. EventsInv => EventsConsistent
  BY DEF EventsInv, Listed, EventsConsistent
<1>2. QED
  BY <1>1, EventsInvAlways, PTL

(* Whatever fails, no list.remove ends the daemon. *)
THEOREM NoListRemoveRaises == Spec => []NoUncaughtError
<1>1. EventsInv => NoUncaughtError
  BY DEF EventsInv
<1>2. QED
  BY <1>1, EventsInvAlways, PTL
=============================================================================
