------------------------------ MODULE Database ------------------------------
(***************************************************************************)
(* The MySQL tables of sql/bits2.sql that the daemon reads and writes, and *)
(* the queries of database.py.  A query is one step: it is one transaction *)
(* (execute, then commit), and the link to MySQL can be lost between any   *)
(* two of them.  Who calls which query, and in which order, is the         *)
(* business of the module that EXTENDS this one.                           *)
(*                                                                         *)
(* A timestamp is a whole second (common.py formats seconds) and it is the *)
(* primary key, or a part of it, of every table: two rows of one second    *)
(* cannot both be stored.  Payloads (temperatures, texts) are abstracted:  *)
(* a row is told from another one by its key.                              *)
(***************************************************************************)
EXTENDS Naturals

CONSTANTS
    Users,      \* the userids of table Users
    MaxTime,    \* BOUND: the clock stops after this second
    Faults      \* what may go wrong in this instance

ASSUME DatabaseAssumption ==
    /\ MaxTime \in Nat
    /\ Faults \subseteq {"db", "clock", "push", "kill", "interrupt", "accept", "bind"}

VARIABLES
    statusRows,   \* table Status:      records [ts, value]
    tempRows,     \* table Temperature: the timestamps of the one sensor
    msgRows,      \* table Message:     records [user, ts]
    present,      \* table Presence:    users with a row whose logout is null
    now,          \* the second timestamp() formats
    link          \* self.connection: "up", or "gone" since a query last used it

dbVars == <<statusRows, tempRows, msgRows, present, now, link>>

Seconds == 0 .. MaxTime
StatusRow == [ts : Seconds, value : BOOLEAN]
MsgRow == [user : Users, ts : Seconds]

DbTypeOK ==
    /\ statusRows \subseteq StatusRow
    /\ tempRows \subseteq Seconds
    /\ msgRows \subseteq MsgRow
    /\ present \subseteq Users
    /\ now \in Seconds
    /\ link \in {"up", "gone"}

(* A closed seat with nobody in it, an open one, or a table never written. *)
DbInit ==
    /\ statusRows \in {{}} \cup {{[ts |-> 0, value |-> v]} : v \in BOOLEAN}
    /\ tempRows = {}
    /\ msgRows = {}
    /\ present \in {p \in SUBSET Users : p # {} => \E r \in statusRows : r.value}
    /\ now = 0
    /\ link = "up"

-----------------------------------------------------------------------------
(* What the SELECTs return.                                                *)

(* SELECT value ... ORDER BY timestamp DESC LIMIT 1, False when no row. *)
DbStatus ==
    \E r \in statusRows : r.value /\ \A q \in statusRows : q.ts <= r.ts

(* ORDER BY timestamp DESC LIMIT 1: a singleton, or empty when no row. *)
Latest(seconds) == {t \in seconds : \A u \in seconds : u <= t}

(* BitsService.data_dict, when none of its SELECTs raises. *)
DataDict ==
    [status |-> DbStatus,
     temp   |-> Latest(tempRows),
     msg    |-> Latest({m.ts : m \in msgRows})]

-----------------------------------------------------------------------------
(* The outcomes of Database.query.  A lost link is found out by the query  *)
(* that uses it: query reconnects, runs the bare SQL text again, and       *)
(* returns the first cursor.  If MySQL cannot be reached, connect raises   *)
(* SystemExit, and the link stays gone.                                    *)

(* A SELECT found the link up, or (second form) got it back: the rows are  *)
(* in the second cursor, fetchall on the first one raises.                 *)
Select(raised) ==
    \/ ~raised /\ link = "up" /\ UNCHANGED link
    \/ raised /\ link = "gone" /\ link' \in {"up", "gone"}

(* MUTANT of Insert: INSERT IGNORE, a duplicate is no error. *)
InsertIgnore(table, row, duplicate, raised) ==
    /\ ~raised
    /\ link = "up"
    /\ table' = IF duplicate THEN table ELSE table \cup {row}
    /\ UNCHANGED link

(* An INSERT goes through executemany with its parameters apart; run again *)
(* without them it is a syntax error, so a lost link always loses the row. *)
(* When the answer to the commit is what was lost, the row is stored and   *)
(* the call raises all the same.                                           *)
Insert(table, row, duplicate, raised) ==
    \/ /\ ~raised
       /\ link = "up" /\ ~duplicate
       /\ table' = table \cup {row}
       /\ UNCHANGED link
    \/ /\ raised
       /\ link = "up" /\ duplicate
       /\ UNCHANGED <<table, link>>
    \/ /\ raised
       /\ link = "gone" /\ link' \in {"up", "gone"}
       /\ UNCHANGED table
    \/ /\ raised
       /\ "db" \in Faults /\ link = "up" /\ ~duplicate
       /\ table' = table \cup {row}
       /\ link' \in {"up", "gone"}

(* An UPDATE carries its values in the SQL text: run again it does its     *)
(* work.  It raises when MySQL cannot be reached the second time.          *)
LogOut(users, raised) ==
    \/ /\ ~raised
       /\ present' = present \ users
       /\ link' = "up"
    \/ /\ raised
       /\ link = "gone"
       /\ UNCHANGED <<present, link>>
    \/ /\ raised
       /\ "db" \in Faults /\ link = "up"
       /\ present' = present \ users
       /\ link' = "gone"

-----------------------------------------------------------------------------
(* The INSERTs of database.py, each with the primary key of its table.     *)

(* MUTANT of InsertStatus: the timestamp is rounded up. *)
InsertStatusLate(s, raised) ==
    Insert(statusRows, [ts |-> now + 1, value |-> s],
           \E r \in statusRows : r.ts = now + 1, raised)

InsertStatus(s, raised) ==
    Insert(statusRows, [ts |-> now, value |-> s],
           \E r \in statusRows : r.ts = now, raised)

InsertTemperature(raised) == Insert(tempRows, now, now \in tempRows, raised)

InsertMessage(u, raised) ==
    Insert(msgRows, [user |-> u, ts |-> now],
           [user |-> u, ts |-> now] \in msgRows, raised)

-----------------------------------------------------------------------------
(* The clock and the link, which change under the daemon's feet.           *)

Tick ==
    /\ now < MaxTime
    /\ now' = now + 1
    /\ UNCHANGED <<statusRows, tempRows, msgRows, present, link>>

(* The end of summer time, or an NTP correction: localtime goes back. *)
ClockStepsBack ==
    /\ "clock" \in Faults
    /\ now' \in {t \in Seconds : t < now}
    /\ UNCHANGED <<statusRows, tempRows, msgRows, present, link>>

LinkDrops ==
    /\ "db" \in Faults
    /\ link = "up"
    /\ link' = "gone"
    /\ UNCHANGED <<statusRows, tempRows, msgRows, present, now>>

DbEnvironment == Tick \/ ClockStepsBack \/ LinkDrops

-----------------------------------------------------------------------------
(* INVARIANT of the tables: at most one Status row per second, the primary *)
(* key of sql/bits2.sql, which the INSERT of database.py runs into.        *)
OneStatusPerSecond ==
    \A q, r \in statusRows : q.ts = r.ts => q = r
=============================================================================
