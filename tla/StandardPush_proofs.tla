------------------------ MODULE StandardPush_proofs ------------------------
(***************************************************************************)
(* Theorems about StandardPush, for every number of clients, every cap and *)
(* every size of the sockets' buffers.                                     *)
(***************************************************************************)
EXTENDS StandardPush, SequenceTheorems, TLAPS

LOCAL INSTANCE SequencesExt

-----------------------------------------------------------------------------
(* The list of connections.                                                *)

LEMMA RemoveAtFacts ==
    ASSUME NEW S, NEW s \in Seq(S), NEW i \in 1 .. Len(s)
    PROVE  /\ RemoveAt(s, i) \in Seq(S)
           /\ Len(RemoveAt(s, i)) = Len(s) - 1
           /\ \A j \in 1 .. Len(s) - 1 :
                RemoveAt(s, i)[j] = IF j < i THEN s[j] ELSE s[j + 1]
<1> DEFINE a == SubSeq(s, 1, i - 1)
           b == SubSeq(s, i + 1, Len(s))
<1>1. a \in Seq(S) /\ Len(a) = i - 1 /\ \A j \in 1 .. i - 1 : a[j] = s[j]
  BY SubSeqProperties
<1>2. b \in Seq(S) /\ Len(b) = Len(s) - i /\ \A j \in 1 .. Len(s) - i : b[j] = s[i + j]
  BY SubSeqProperties
<1>3. RemoveAt(s, i) = a \o b
  BY DEF RemoveAt
<1> HIDE DEF a, b
<1>4. PICK n \in Nat : n = Len(s)
  OBVIOUS
<1>5. i \in 1 .. n
  BY <1>4
<1>6. a \o b \in Seq(S) /\ Len(a \o b) = Len(a) + Len(b)
  BY <1>1, <1>2, ConcatProperties
<1>7. Len(a) = i - 1 /\ Len(b) = n - i
  BY <1>1, <1>2, <1>4
<1>8. Len(a \o b) = n - 1
  BY <1>5, <1>6, <1>7
<1>9. ASSUME NEW j \in 1 .. n - 1
      PROVE  (a \o b)[j] = IF j < i THEN s[j] ELSE s[j + 1]
  <2>1. (a \o b)[j] = IF j <= Len(a) THEN a[j] ELSE b[j - Len(a)]
    BY <1>1, <1>2, <1>6, <1>8, ConcatProperties
  <2>2. CASE j < i
    BY <1>1, <1>5, <1>7, <2>1, <2>2
  <2>3. CASE j >= i
    <3>1. (a \o b)[j] = b[j - (i - 1)]
      BY <1>5, <1>7, <2>1, <2>3
    <3>2. j - (i - 1) \in 1 .. n - i /\ i + (j - (i - 1)) = j + 1
      BY <1>5, <2>3
    <3>3. b[j - (i - 1)] = s[i + (j - (i - 1))]
      BY <1>2, <1>4, <3>2
    <3>4. ~(j < i)
      BY <1>5, <2>3
    <3>5. QED
      BY <3>1, <3>2, <3>3, <3>4
  <2>4. j < i \/ j >= i
    BY <1>5
  <2>5. QED
    BY <2>2, <2>3, <2>4
<1>10. QED
  BY <1>3, <1>4, <1>6, <1>8, <1>9

NoDuplicates ==
    \A i, j \in 1 .. Len(connections) : connections[i] = connections[j] => i = j

LEMMA PositionFacts ==
    ASSUME connections \in Seq(Client), NEW c \in Listed
    PROVE  /\ Position(c) \in 1 .. Len(connections)
           /\ connections[Position(c)] = c
BY DEF Position, Listed

LEMMA ListedFacts ==
    ASSUME connections \in Seq(Client)
    PROVE  /\ Listed \subseteq Client
           /\ \A i \in 1 .. Len(connections) : connections[i] \in Listed
BY DEF Listed

(* What connections.remove leaves: the list, its members and their order.  *)
LEMMA RemoveConnectionFacts ==
    ASSUME connections \in Seq(Client), NEW c \in Listed, RemoveConnection(c)
    PROVE  /\ connections' \in Seq(Client)
           /\ Len(connections') = Len(connections) - 1
           /\ \A j \in 1 .. Len(connections') :
                connections'[j] = IF j < Position(c) THEN connections[j]
                                  ELSE connections[j + 1]
<1>1. Position(c) \in 1 .. Len(connections)
  BY PositionFacts
<1>2. connections' = RemoveAt(connections, Position(c))
  BY DEF RemoveConnection
<1>3. Len(connections) \in Nat
  OBVIOUS
<1>4. QED
  BY <1>1, <1>2, <1>3, RemoveAtFacts

LEMMA RemoveConnectionForgets ==
    ASSUME connections \in Seq(Client), NoDuplicates,
           NEW c \in Listed, RemoveConnection(c)
    PROVE  /\ NoDuplicates'
           /\ Listed' = Listed \ {c}
<1> DEFINE old(j) == IF j < Position(c) THEN j ELSE j + 1
<1>1. PICK n \in Nat : n = Len(connections)
  OBVIOUS
<1>2. /\ Position(c) \in 1 .. n /\ connections[Position(c)] = c
      /\ connections' \in Seq(Client) /\ Len(connections') = n - 1
  BY <1>1, PositionFacts, RemoveConnectionFacts
<1>3. \A j \in 1 .. n - 1 :
         /\ old(j) \in 1 .. n /\ old(j) # Position(c)
         /\ connections'[j] = connections[old(j)]
  BY <1>1, <1>2, RemoveConnectionFacts
<1>4. \A j, k \in 1 .. n - 1 : old(j) = old(k) => j = k
  BY <1>2
<1>5. \A i \in 1 .. n : i # Position(c) => \E j \in 1 .. n - 1 : old(j) = i
  <2>1. SUFFICES ASSUME NEW i \in 1 .. n, i # Position(c)
                 PROVE  \E j \in 1 .. n - 1 : old(j) = i
    OBVIOUS
  <2>2. CASE i < Position(c)
    <3>1. i \in 1 .. n - 1 /\ old(i) = i
      BY <1>2, <2>2
    <3>2. QED
      BY <3>1
  <2>3. CASE i > Position(c)
    <3>1. i - 1 \in 1 .. n - 1 /\ old(i - 1) = i
      BY <1>2, <2>3
    <3>2. QED
      BY <3>1
  <2>4. QED
    BY <1>2, <2>1, <2>2, <2>3
<1> HIDE DEF old
<1>6. NoDuplicates'
  <2>1. SUFFICES ASSUME NEW j \in 1 .. n - 1, NEW k \in 1 .. n - 1,
                        connections'[j] = connections'[k]
                 PROVE  j = k
    BY <1>2 DEF NoDuplicates
  <2>2. connections[old(j)] = connections[old(k)]
    BY <1>3, <2>1
  <2>3. old(j) = old(k)
    BY <1>1, <1>3, <2>2 DEF NoDuplicates
  <2>4. QED
    BY <1>4, <2>3
<1>7. ASSUME NEW d \in Listed'
      PROVE  d \in Listed /\ d # c
  <2>1. PICK j \in 1 .. n - 1 : connections'[j] = d
    BY <1>2 DEF Listed
  <2>2. d = connections[old(j)] /\ old(j) \in 1 .. n /\ old(j) # Position(c)
    BY <1>3, <2>1
  <2>3. d # c
    BY <1>1, <1>2, <2>2 DEF NoDuplicates
  <2>4. QED
    BY <1>1, <2>2, <2>3, ListedFacts
<1>8. ASSUME NEW d \in Listed, d # c
      PROVE  d \in Listed'
  <2>1. PICK i \in 1 .. n : connections[i] = d
    BY <1>1 DEF Listed
  <2>2. i # Position(c)
    BY <1>2, <1>8, <2>1
  <2>3. PICK j \in 1 .. n - 1 : old(j) = i
    BY <1>5, <2>2
  <2>4. connections'[j] = d
    BY <1>3, <2>1, <2>3
  <2>5. QED
    BY <1>2, <2>4 DEF Listed
<1>9. QED
  BY <1>6, <1>7, <1>8

LEMMA ListConnectionLists ==
    ASSUME connections \in Seq(Client), NoDuplicates,
           NEW c \in Client, c = push.conn, c \notin Listed, ListConnection
    PROVE  /\ connections' \in Seq(Client)
           /\ Len(connections') = Len(connections) + 1
           /\ \A j \in 1 .. Len(connections) : connections'[j] = connections[j]
           /\ connections'[Len(connections')] = c
           /\ NoDuplicates'
           /\ Listed' = Listed \cup {c}
<1>1. PICK n \in Nat : n = Len(connections)
  OBVIOUS
<1>2. /\ connections' \in Seq(Client) /\ Len(connections') = n + 1
      /\ \A j \in 1 .. n : connections'[j] = connections[j]
      /\ connections'[n + 1] = c
  BY <1>1, AppendProperties DEF ListConnection
<1>4. NoDuplicates'
  BY <1>1, <1>2, ListedFacts DEF NoDuplicates
<1>5. Listed' = Listed \cup {c}
  <2>1. DOMAIN connections' = 1 .. n + 1 /\ DOMAIN connections = 1 .. n
    BY <1>1, <1>2
  <2>2. Listed' \subseteq Listed \cup {c}
    BY <1>2, <2>1 DEF Listed
  <2>3. Listed \subseteq Listed' /\ c \in Listed'
    BY <1>2, <2>1 DEF Listed
  <2>4. QED
    BY <2>2, <2>3
<1>6. QED
  BY <1>1, <1>2, <1>4, <1>5

-----------------------------------------------------------------------------
(* Types.                                                                  *)

MainBusy == {"send", "blocked", "removeConn", "removeEvent"}
PushBusy == {"watch", "list", "greet", "send", "blocked", "ungreetConn", "removeConn", "removeEvent"}

(* A thread holds a connection exactly while it is at work on one. *)
Labels ==
    /\ main.at \in MainBusy => main.conn \in Client
    /\ main.at \notin MainBusy => main.conn = None
    /\ main.iter >= 1
    /\ push.at \in PushBusy => push.conn \in Client
    /\ push.at \notin PushBusy => push.conn = None

TypeInv == TypeOK /\ Labels

MainType == [at : MainAt, conn : Client \cup {None}, iter : Nat]
PushType ==
    [at : PushAt, conn : Client \cup {None}, greeting : Message \cup {"none"},
     ready : SUBSET (Client \cup {SrvSock})]

LEMMA TypeInvInit == Init => TypeInv
<1> SUFFICES ASSUME Init PROVE TypeInv
  OBVIOUS
<1>1. connections \in Seq(Client) /\ buffer \in [Client -> 0 .. SndBuf]
  BY PushAssumption DEF Init
<1>2. main \in MainType /\ push \in PushType
  BY DEF Init, MainType, PushType, MainAt, PushAt
<1>3. Labels
  BY DEF Init, Labels, MainBusy, PushBusy
<1>4. QED
  BY <1>1, <1>2, <1>3 DEF Init, TypeInv, TypeOK, MainType, PushType

LEMMA StatusStringType == status \in BOOLEAN => StatusString \in Message
BY DEF StatusString, Message

LEMMA CloseType ==
    ASSUME TypeInv, NEW c \in Client, NEW t, Close(c, t)
    PROVE  /\ open' \subseteq Client \cup {SrvSock}
           /\ reset' \subseteq Client
           /\ buffer' \in [Client -> 0 .. SndBuf]
BY PushAssumption DEF Close, TypeInv, TypeOK, netVars

LEMMA SentType ==
    ASSUME TypeInv, NEW c \in Client, NEW msg, SendFits(c), Sent(c, msg)
    PROVE  /\ buffer' \in [Client -> 0 .. SndBuf]
           /\ reset' \subseteq Client
           /\ current' \subseteq Client /\ missed' \subseteq Client
BY PushAssumption DEF Sent, SendFits, TypeInv, TypeOK

LEMMA RemoveConnectionType ==
    ASSUME TypeInv, NEW c \in Listed, RemoveConnection(c)
    PROVE  /\ connections' \in Seq(Client)
           /\ current' \subseteq Client /\ missed' \subseteq Client
<1>1. connections \in Seq(Client) /\ main.iter \in Nat /\ main.iter >= 1
  BY DEF TypeInv, TypeOK, Labels
<1>2. connections' \in Seq(Client)
  BY <1>1, RemoveConnectionFacts
<1>3. main.iter <= Len(connections) => connections[main.iter] \in Client
  BY <1>1
<1>4. QED
  BY <1>2, <1>3 DEF RemoveConnection, TypeInv, TypeOK

LEMMA MainRaisesType ==
    ASSUME MainRaises
    PROVE  main' \in MainType /\ failed' \in BOOLEAN /\ main'.at = "idle"
             /\ main'.conn = None /\ main'.iter = 1
BY DEF MainRaises, MainType, MainAt

LEMMA PushDiesType ==
    ASSUME PushDies
    PROVE  push' \in PushType /\ push'.at = "dead" /\ push'.conn = None
BY DEF PushDies, PushType, PushAt

LEMMA TypeInvChangeDictionary ==
    ASSUME TypeInv, NEW s \in BOOLEAN, ChangeDictionary(s)
    PROVE  TypeInv'
BY DEF ChangeDictionary, MainAlone, listVars, netVars, TypeInv, TypeOK, Labels,
       MainBusy, PushBusy, MainAt

LEMMA TypeInvBroadcast == TypeInv /\ Broadcast => TypeInv'
<1> SUFFICES ASSUME TypeInv, Broadcast PROVE TypeInv'
  OBVIOUS
<1> USE DEF TypeInv, TypeOK, Labels, MainBusy, PushBusy, MainAt
<1>1. CASE NextConnection
  <2>1. main.iter <= Len(connections) => connections[main.iter] \in Client
    OBVIOUS
  <2>2. CASE main.iter <= Len(connections)
    <3>1. main' = [at |-> "send", conn |-> connections[main.iter], iter |-> main.iter + 1]
      BY <1>1, <2>2 DEF NextConnection
    <3>2. QED
      BY <1>1, <2>1, <2>2, <3>1 DEF NextConnection, MainAlone, listVars, netVars, ghosts
  <2>3. CASE ~(main.iter <= Len(connections))
    <3>1. main' = [main EXCEPT !.at = "websocket", !.conn = None]
      BY <1>1, <2>3 DEF NextConnection
    <3>2. QED
      BY <1>1, <3>1 DEF NextConnection, MainAlone, listVars, netVars, ghosts
  <2>4. QED
    BY <2>2, <2>3
<1>2. CASE BroadcastSend
  <2>1. main.conn \in Client
    BY <1>2 DEF BroadcastSend
  <2>2. QED
    BY <1>2, <2>1, SentType DEF BroadcastSend, MainAlone, listVars
<1>3. CASE BroadcastWaits
  BY <1>3 DEF BroadcastWaits, MainGoes, MainAlone, listVars, netVars, ghosts
<1>4. CASE BroadcastSendFails
  <2>1. main.conn \in Client
    BY <1>4 DEF BroadcastSendFails
  <2>2. QED
    BY <1>4, <2>1, CloseType DEF BroadcastSendFails, MainGoes, MainAlone, ghosts
<1>5. CASE BroadcastRemoves
  <2>1. CASE main.conn \in Listed
    BY <1>5, <2>1, RemoveConnectionType
       DEF BroadcastRemoves, MainGoes, MainAlone, netVars
  <2>2. CASE main.conn \notin Listed
    BY <1>5, <2>2, MainRaisesType DEF BroadcastRemoves, MainType, MainAlone, netVars, ghosts
  <2>3. QED
    BY <2>1, <2>2
<1>6. CASE BroadcastForgets
  <2>1. CASE main.conn \in events
    BY <1>6, <2>1 DEF BroadcastForgets, MainAlone, netVars, ghosts
  <2>2. CASE main.conn \notin events
    BY <1>6, <2>2, MainRaisesType DEF BroadcastForgets, MainType, MainAlone, netVars, ghosts
  <2>3. QED
    BY <2>1, <2>2
<1>7. CASE WebsocketChanges
  <2>1. main' = [main EXCEPT !.at = "idle", !.iter = 1] /\ failed' = FALSE
    BY <1>7 DEF WebsocketChanges
  <2>2. QED
    <3>1. main.conn = None
      BY <1>7 DEF WebsocketChanges
    <3>2. main' = [at |-> "idle", conn |-> None, iter |-> 1]
      BY <2>1, <3>1
    <3>3. UNCHANGED <<status, running, push, listVars, netVars, ghosts>>
      BY <1>7 DEF WebsocketChanges, MainAlone
    <3>4. failed' \in BOOLEAN
      BY <2>1
    <3>5. main' \in MainType
      BY <3>2 DEF MainType
    <3>6. Labels'
      BY <3>2, <3>3
    <3>7. QED
      BY <3>3, <3>4, <3>5, <3>6 DEF MainType, listVars, netVars, ghosts
<1>8. QED
  BY <1>1, <1>2, <1>3, <1>4, <1>5, <1>6, <1>7 DEF Broadcast

LEMMA TypeInvStopping == TypeInv /\ Stopping => TypeInv'
BY DEF Stopping, netVars, ghosts, TypeInv, TypeOK, Labels, MainBusy, PushBusy, MainAt

LEMMA TypeInvRun == TypeInv /\ Run => TypeInv'
<1> SUFFICES ASSUME TypeInv, Run PROVE TypeInv'
  OBVIOUS
<1> USE DEF TypeInv, TypeOK, Labels, MainBusy, PushBusy, PushAt
<1>1. CASE InitService
  BY <1>1, PushDiesType
     DEF InitService, PushType, PushGoes, PushAlone, netVars, ghosts
<1>2. CASE Select
  BY <1>2, PushDiesType
     DEF Select, PushType, PushGoes, PushAlone, listVars, netVars, ghosts
<1>3. CASE ServerFull
  BY <1>3 DEF ServerFull, Accepting, PushAlone, listVars, netVars, ghosts
<1>4. CASE AcceptRaises
  BY <1>4, PushDiesType DEF AcceptRaises, PushType, PushAlone, listVars, netVars, ghosts
<1>5. ASSUME NEW c \in Client, Accept(c)
      PROVE  TypeInv'
  <2>1. push' \in PushType /\ push'.at = "watch" /\ push'.conn = c
    BY <1>5 DEF Accept, Admit, PushType
  <2>2. QED
    BY <1>5, <2>1, PushAssumption DEF Accept, Admit, PushType, PushAlone, netVars, ghosts
<1>6. ASSUME NEW c \in Client, ClientHandler(c)
      PROVE  TypeInv'
  <2>1. CASE c \in Listed
    <3>1. push' = [push EXCEPT !.at = "removeConn", !.conn = c, !.ready = @ \ {c}]
            /\ Close(c, main)
      BY <1>6, <2>1 DEF ClientHandler
    <3>2. push' \in PushType /\ push'.at = "removeConn" /\ push'.conn = c
      BY <3>1 DEF PushType
    <3>3. QED
      BY <1>6, <3>1, <3>2, CloseType, PushAssumption DEF ClientHandler, PushType, PushAlone, ghosts
  <2>2. CASE c \notin Listed
    BY <1>6, <2>2 DEF ClientHandler, PushAlone, netVars, ghosts
  <2>3. QED
    BY <2>1, <2>2
<1>7. CASE ReadGreeting
  BY <1>7, StatusStringType DEF ReadGreeting, PushAlone, listVars, netVars, ghosts
<1>8. CASE SendGreeting
  <2>1. push.conn \in Client
    BY <1>8 DEF SendGreeting
  <2>2. QED
    BY <1>8, <2>1, SentType DEF SendGreeting, PushBatch, PushAlone, listVars
<1>9. CASE GreetingWaits
  BY <1>9 DEF GreetingWaits, PushGoes, PushAlone, listVars, netVars, ghosts
<1>10. CASE GreetingFails
  BY <1>10, PushDiesType
     DEF GreetingFails, PushType, PushGoes, PushAlone, netVars, ghosts
<1>11. CASE UngreetConnection
  <2>1. CASE push.conn \in Listed
    <3>1. push.conn \in Client
      BY <1>11 DEF UngreetConnection
    <3>2. QED
      BY <1>11, <2>1, <3>1, RemoveConnectionType, CloseType
         DEF UngreetConnection, PushBatch, PushAlone
  <2>2. CASE push.conn \notin Listed
    BY <1>11, <2>2, PushDiesType
       DEF UngreetConnection, PushType, PushAlone, netVars, ghosts
  <2>3. QED
    BY <2>1, <2>2
<1>12. CASE HandlerRemoves
  <2>1. CASE push.conn \in Listed
    BY <1>12, <2>1, RemoveConnectionType DEF HandlerRemoves, PushGoes, PushAlone, netVars
  <2>2. CASE push.conn \notin Listed
    BY <1>12, <2>2, PushDiesType
       DEF HandlerRemoves, PushType, PushAlone, netVars, ghosts
  <2>3. QED
    BY <2>1, <2>2
<1>13. CASE HandlerForgets
  BY <1>13, PushDiesType
     DEF HandlerForgets, PushType, PushBatch, PushAlone, netVars, ghosts
<1>14. CASE WatchConnection
  BY <1>14 DEF WatchConnection, PushGoes, PushAlone, netVars, ghosts
<1>15. CASE ListConnection
  <2>1. connections' \in Seq(Client)
    BY <1>15, AppendProperties DEF ListConnection
  <2>2. QED
    BY <1>15, <2>1 DEF ListConnection, PushGoes, PushAlone, netVars, ghosts
<1>16. QED
  BY <1>1, <1>2, <1>3, <1>4, <1>5, <1>6, <1>7, <1>8, <1>9, <1>10, <1>11, <1>12,
     <1>13, <1>14, <1>15 DEF Run

LEMMA TypeInvNet ==
    ASSUME TypeInv, SelectReturns \/ \E c \in Client : Resets(c) \/ Reads(c)
    PROVE  TypeInv'
<1> USE DEF TypeInv, TypeOK, Labels, MainBusy, PushBusy
<1>1. CASE SelectReturns
  BY <1>1 DEF SelectReturns, PushAlone, listVars, netVars, ghosts, PushAt
<1>2. ASSUME NEW c \in Client, Resets(c)
      PROVE  TypeInv'
  BY <1>2 DEF Resets, NetAlone, listVars, ghosts
<1>3. ASSUME NEW c \in Client, Reads(c)
      PROVE  TypeInv'
  BY <1>3, PushAssumption DEF Reads, NetAlone, listVars, ghosts
<1>4. QED
  BY <1>1, <1>2, <1>3

LEMMA TypeInvStep == TypeInv /\ [Next]_vars => TypeInv'
<1>1. TypeInv /\ UNCHANGED vars => TypeInv'
  BY DEF vars, listVars, netVars, ghosts, TypeInv, TypeOK, Labels
<1>2. QED
  BY <1>1, TypeInvChangeDictionary, TypeInvBroadcast, TypeInvStopping, TypeInvRun,
     TypeInvNet DEF Next

LEMMA TypeInvAlways == Spec => []TypeInv
BY TypeInvInit, TypeInvStep, PTL DEF Spec

(* Type correctness. *)
THEOREM TypeCorrect == Spec => []TypeOK
<1>1. TypeInv => TypeOK
  BY DEF TypeInv
<1>2. QED
  BY <1>1, TypeInvAlways, PTL

-----------------------------------------------------------------------------
(* The cap.                                                                *)

(* Once the length has been read there is room for the connection until it *)
(* is appended: the main thread can only make more.                        *)
RoomLeft == push.at \in {"watch", "list"} => Len(connections) < MaxConn

CapInv == CapRespected /\ RoomLeft

LEMMA CapStep == TypeInv /\ CapInv /\ [Next]_vars => CapInv'
<1> SUFFICES ASSUME TypeInv, CapInv, [Next]_vars PROVE CapInv'
  OBVIOUS
<1> USE DEF CapInv, CapRespected, RoomLeft
<1>1. /\ connections \in Seq(Client) /\ MaxConn \in Nat
      /\ Len(connections) \in Nat /\ push \in PushType
  BY PushAssumption DEF TypeInv, TypeOK, PushType
<1>2. ASSUME UNCHANGED connections,
             push'.at \in {"watch", "list"} => push.at \in {"watch", "list"}
      PROVE  CapInv'
  BY <1>2
<1>3. ASSUME NEW c \in Listed, RemoveConnection(c),
             push'.at \in {"watch", "list"} => push.at \in {"watch", "list"}
      PROVE  CapInv'
  <2>1. Len(connections') = Len(connections) - 1
    BY <1>1, <1>3, RemoveConnectionFacts
  <2>2. QED
    BY <1>1, <1>3, <2>1
<1>4. ASSUME NEW c \in Client, Accept(c)
      PROVE  CapInv'
  BY <1>1, <1>4 DEF Accept, Admit
<1>5. CASE ListConnection
  <2>1. push.at = "list" /\ push'.at = "greet" /\ Len(connections') = Len(connections) + 1
    BY <1>1, <1>5, AppendProperties DEF ListConnection, PushGoes, PushType, TypeInv,
       Labels, PushBusy
  <2>2. QED
    BY <1>1, <2>1
<1>6. CASE \E s \in BOOLEAN : ChangeDictionary(s)
  BY <1>2, <1>6 DEF ChangeDictionary, MainAlone, listVars
<1>7. CASE Broadcast
  BY <1>2, <1>3, <1>7
     DEF Broadcast, NextConnection, BroadcastSend, BroadcastWaits, BroadcastSendFails,
         BroadcastRemoves, BroadcastForgets, WebsocketChanges, MainAlone, listVars
<1>8. CASE Run
  <2>1. CASE UngreetConnection \/ HandlerRemoves
    <3>1. push'.at \notin {"watch", "list"}
      BY <1>1, <2>1, PushDiesType
         DEF UngreetConnection, HandlerRemoves, PushBatch, PushGoes, PushType
    <3>2. QED
      BY <1>2, <1>3, <2>1, <3>1 DEF UngreetConnection, HandlerRemoves
  <2>2. CASE WatchConnection
    BY <1>2, <2>2 DEF WatchConnection
  <2>3. ASSUME NEW c \in Client, ClientHandler(c)
        PROVE  CapInv'
    BY <1>1, <1>2, <2>3 DEF ClientHandler, PushType
  <2>4. CASE InitService \/ Select \/ ServerFull \/ AcceptRaises
    BY <1>1, <1>2, <2>4, PushDiesType
       DEF InitService, Select, ServerFull, Accepting, AcceptRaises, PushGoes, PushType,
           listVars
  <2>5. CASE ReadGreeting \/ SendGreeting \/ GreetingWaits \/ GreetingFails \/ HandlerForgets
    BY <1>1, <1>2, <2>5, PushDiesType
       DEF ReadGreeting, SendGreeting, GreetingWaits, GreetingFails, HandlerForgets,
           PushBatch, PushGoes, PushType, listVars
  <2>6. QED
    BY <1>4, <1>5, <1>8, <2>1, <2>2, <2>3, <2>4, <2>5 DEF Run
<1>9. CASE Stopping \/ SelectReturns \/ (\E c \in Client : Resets(c) \/ Reads(c))
  BY <1>1, <1>2, <1>9
     DEF Stopping, SelectReturns, Resets, Reads, NetAlone, listVars, PushType
<1>10. CASE UNCHANGED vars
  BY <1>2, <1>10 DEF vars, listVars
<1>11. QED
  BY <1>6, <1>7, <1>8, <1>9, <1>10 DEF Next

(* There are never more connections than srv_max_conn, although the length *)
(* is read without a lock and the two appends come after it.               *)
THEOREM CapAlwaysRespected == Spec => []CapRespected
<1>1. Init => CapInv
  BY PushAssumption DEF Init, CapInv, CapRespected, RoomLeft
<1>2. CapInv => CapRespected
  BY DEF CapInv
<1>3. QED
  BY <1>1, <1>2, CapStep, TypeInvAlways, PTL DEF Spec

-----------------------------------------------------------------------------
(* The end of a broadcast.                                                 *)

(* The loop's index does not outrun the cap: it moves on only past an      *)
(* element, and there are at most MaxConn.                                 *)
IterInv == main.iter <= MaxConn + 1

LEMMA BroadcastStepGetsOn ==
    ASSUME TypeInv, CapRespected, IterInv, Broadcast
    PROVE  IterInv' /\ BroadcastGetsOn
<1> USE DEF StepsLeft, StepsAt, BroadcastGetsOn, IterInv
<1>1. /\ main \in MainType /\ MaxConn \in Nat /\ main.iter \in Nat /\ main.iter >= 1
      /\ Len(connections) \in Nat /\ Len(connections) <= MaxConn
  BY PushAssumption DEF TypeInv, TypeOK, Labels, MainType, CapRespected
<1>2. MainRaises => IterInv' /\ BroadcastGetsOn
  BY <1>1 DEF MainRaises
<1>3. CASE NextConnection
  <2>1. CASE main.iter <= Len(connections)
    <3>1. main.at = "next" /\ main'.at = "send" /\ main'.iter = main.iter + 1
      BY <1>3, <2>1 DEF NextConnection
    <3>2. StepsLeft = 5 * (MaxConn + 1 - main.iter) + 1
            /\ StepsLeft' = 5 * (MaxConn + 1 - (main.iter + 1)) + 5
      BY <3>1
    <3>3. QED
      BY <1>1, <2>1, <3>1, <3>2
  <2>2. CASE ~(main.iter <= Len(connections))
    <3>1. main.at = "next" /\ main'.at = "websocket" /\ main'.iter = main.iter
      BY <1>1, <1>3, <2>2 DEF NextConnection, MainType
    <3>2. QED
      BY <1>1, <3>1
  <2>3. QED
    BY <2>1, <2>2
<1>4. CASE BroadcastSend
  <2>1. main.at \in {"send", "blocked"} /\ main'.at = "next" /\ main'.iter = main.iter
    BY <1>1, <1>4 DEF BroadcastSend, MainType
  <2>2. QED
    BY <1>1, <2>1
<1>5. CASE BroadcastWaits
  <2>1. main.at = "send" /\ main'.at = "blocked" /\ main'.iter = main.iter
    BY <1>1, <1>5 DEF BroadcastWaits, MainGoes, MainType
  <2>2. QED
    BY <1>1, <2>1
<1>6. CASE BroadcastSendFails
  <2>1. /\ main.at \in {"send", "blocked"}
        /\ main'.at = "removeConn" /\ main'.iter = main.iter
    BY <1>1, <1>6 DEF BroadcastSendFails, MainGoes, MainType
  <2>2. QED
    BY <1>1, <2>1
<1>7. CASE BroadcastRemoves
  <2>1. CASE main.conn \in Listed
    <3>1. main.at = "removeConn" /\ main'.at = "removeEvent" /\ main'.iter = main.iter
      BY <1>1, <1>7, <2>1 DEF BroadcastRemoves, MainGoes, MainType
    <3>2. QED
      BY <1>1, <3>1
  <2>2. CASE main.conn \notin Listed
    BY <1>2, <1>7, <2>2 DEF BroadcastRemoves
  <2>3. QED
    BY <2>1, <2>2
<1>8. CASE BroadcastForgets
  <2>1. CASE main.conn \in events
    <3>1. main.at = "removeEvent" /\ main'.at = "next" /\ main'.iter = main.iter
      BY <1>1, <1>8, <2>1 DEF BroadcastForgets, MainType
    <3>2. QED
      BY <1>1, <3>1
  <2>2. CASE main.conn \notin events
    BY <1>2, <1>8, <2>2 DEF BroadcastForgets
  <2>3. QED
    BY <2>1, <2>2
<1>9. CASE WebsocketChanges
  BY <1>1, <1>9 DEF WebsocketChanges, MainType
<1>10. QED
  BY <1>3, <1>4, <1>5, <1>6, <1>7, <1>8, <1>9 DEF Broadcast

LEMMA StepGetsOn ==
    ASSUME TypeInv, CapRespected, IterInv, [Next]_vars
    PROVE  IterInv' /\ BroadcastGetsOn
<1> USE DEF BroadcastGetsOn, IterInv
<1>1. main \in MainType /\ MaxConn \in Nat
  BY PushAssumption DEF TypeInv, TypeOK, MainType
<1>2. CASE \E s \in BOOLEAN : ChangeDictionary(s)
  <2>1. main.at = "idle" /\ main'.iter = 1
    BY <1>2 DEF ChangeDictionary
  <2>2. QED
    BY <1>1, <2>1
<1>3. CASE Stopping
  <2>1. main.at = "idle" /\ main'.iter = main.iter
    BY <1>1, <1>3 DEF Stopping, MainType
  <2>2. QED
    BY <2>1
<1>4. CASE Run
  <2>1. UNCHANGED main
    BY <1>4 DEF Run, InitService, Select, ServerFull, AcceptRaises, Accept, Admit,
                WatchConnection, ListConnection, ClientHandler, ReadGreeting, SendGreeting, GreetingWaits, GreetingFails,
                UngreetConnection, HandlerRemoves, HandlerForgets, PushAlone
  <2>2. QED
    BY <2>1
<1>5. CASE SelectReturns \/ (\E c \in Client : Resets(c) \/ Reads(c)) \/ UNCHANGED vars
  <2>1. UNCHANGED main
    BY <1>5 DEF SelectReturns, PushAlone, Resets, Reads, NetAlone, vars
  <2>2. QED
    BY <2>1
<1>6. QED
  BY <1>2, <1>3, <1>4, <1>5, BroadcastStepGetsOn DEF Next

(* A broadcast takes the main thread at most 5 * MaxConn + 2 steps:        *)
(* however many clients the push thread accepts and drops meanwhile, each  *)
(* step of broadcast_message ends it or brings its end nearer.             *)
THEOREM BroadcastIsBounded == Spec => BroadcastAlwaysGetsOn
<1>1. Init => IterInv
  BY PushAssumption DEF Init, IterInv
<1>2. Spec => [](TypeInv /\ CapRespected)
  BY TypeInvAlways, CapAlwaysRespected, PTL
<1>3. TypeInv /\ CapRespected /\ IterInv /\ [Next]_vars => IterInv' /\ BroadcastGetsOn
  BY StepGetsOn
<1>4. QED
  BY <1>1, <1>2, <1>3, PTL DEF Spec, BroadcastAlwaysGetsOn

-----------------------------------------------------------------------------
(* The two lists.  A connection is in one of them only while the thread    *)
(* that took it out of the other is about to take it out of this one, or   *)
(* run() is about to append it to the other; when both threads remove it,  *)
(* whoever is second finds nothing and raises.                             *)

HalfRemoved(c) ==
    /\ c \in Listed /\ c \notin events => push.at = "ungreetConn" /\ push.conn = c
    /\ c \in events /\ c \notin Listed =>
         \/ main.at = "removeEvent" /\ main.conn = c
         \/ push.at = "removeEvent" /\ push.conn = c
         \/ push.at = "list" /\ push.conn = c

ClosedWatched(c) ==
    c \in events /\ main.at # "gone" => c \in open \/ MainRemoves(c) \/ PushRemoves(c)

Removed ==
    /\ main.at = "removeEvent" => main.conn \notin Listed
    /\ push.at = "removeEvent" => push.conn \notin Listed
    /\ push.at = "ungreetConn" => push.conn \notin events

(* The main thread cannot get hold of a connection not yet appended. *)
Admitted ==
    push.at \in {"watch", "list"} =>
      /\ push.conn \notin Listed /\ push.conn # main.conn
      /\ push.at = "list" => push.conn \in events
      /\ main.at # "gone" => push.conn \in open

ListsInv ==
    /\ NoDuplicates
    /\ \A c \in Client : HalfRemoved(c)
    /\ \A c \in Client : ClosedWatched(c)
    /\ Removed
    /\ Admitted

LEMMA ListsInvInit == Init => ListsInv
BY DEF Init, ListsInv, NoDuplicates, HalfRemoved, ClosedWatched, Removed, Admitted, Listed

LEMMA ListsInvAgree == ListsInv => ListsAgree
BY DEF ListsInv, HalfRemoved, ClosedWatched, ListsAgree, PushRemoves, PushLists, MainRemoves

(* What a step that touches no list does. *)
LEMMA ListsInvKept ==
    ASSUME TypeInv, ListsInv, UNCHANGED <<connections, events>>,
           open \subseteq open',
           main'.at = "removeEvent" <=> main.at = "removeEvent",
           main'.at = "removeConn" <=> main.at = "removeConn",
           main.at = "gone" => main'.at = "gone",
           main.at \in {"removeConn", "removeEvent"} => main'.conn = main.conn,
           push'.at = "removeEvent" <=> push.at = "removeEvent",
           push'.at = "removeConn" <=> push.at = "removeConn",
           push'.at = "ungreetConn" <=> push.at = "ungreetConn",
           push.at \in {"removeConn", "removeEvent", "ungreetConn"} => push'.conn = push.conn,
           push.at \in {"watch", "list"} => UNCHANGED push,
           push'.at \in {"watch", "list"} => UNCHANGED push,
           main'.conn \in Listed \cup {None, main.conn}
    PROVE  ListsInv'
<1>1. Listed' = Listed
  BY DEF Listed
<1>2. NoDuplicates'
  BY DEF ListsInv, NoDuplicates
<1>3. Removed'
  BY <1>1 DEF ListsInv, Removed
<1>4. ASSUME NEW c \in Client
      PROVE  HalfRemoved(c)' /\ ClosedWatched(c)'
  BY <1>1 DEF ListsInv, HalfRemoved, ClosedWatched, MainRemoves, PushRemoves
<1>5. Admitted'
  BY <1>1, PushAssumption DEF ListsInv, Admitted, TypeInv, Labels, PushBusy
<1>6. QED
  BY <1>2, <1>3, <1>4, <1>5 DEF ListsInv

LEMMA ListsInvBroadcast == TypeInv /\ ListsInv /\ Broadcast => ListsInv'
<1> SUFFICES ASSUME TypeInv, ListsInv, Broadcast PROVE ListsInv'
  OBVIOUS
<1> USE DEF MainAlone, listVars, ghosts
<1>0. /\ main \in MainType /\ push \in PushType
      /\ connections \in Seq(Client) /\ NoDuplicates
  BY DEF TypeInv, TypeOK, MainType, PushType, ListsInv
<1>1. CASE NextConnection
  <2>1. main.at = "next" /\ UNCHANGED <<connections, events, open, push>>
    BY <1>1 DEF NextConnection
  <2>2. main'.at = "send" \/ main' = [main EXCEPT !.at = "websocket", !.conn = None]
    BY <1>1 DEF NextConnection
  <2>3. main'.at \in {"send", "websocket"}
    BY <1>0, <2>2 DEF MainType
  <2>4. main'.conn \in Listed \cup {None}
    <3>1. CASE main.iter <= Len(connections)
      <4>1. main.iter \in 1 .. Len(connections)
        BY <1>0, <3>1 DEF TypeInv, Labels, MainType
      <4>2. main'.conn = connections[main.iter]
        BY <1>1, <3>1 DEF NextConnection
      <4>3. QED
        BY <1>0, <4>1, <4>2, ListedFacts
    <3>2. CASE ~(main.iter <= Len(connections))
      BY <1>0, <1>1, <3>2 DEF NextConnection, MainType
    <3>3. QED
      BY <3>1, <3>2
  <2>5. QED
    BY <2>1, <2>3, <2>4, ListsInvKept
<1>2. CASE BroadcastSend
  BY <1>0, <1>2, ListsInvKept DEF BroadcastSend, MainType
<1>3. CASE BroadcastWaits
  BY <1>0, <1>3, ListsInvKept DEF BroadcastWaits, MainGoes, MainType
<1>4. CASE BroadcastSendFails
  <2>1. /\ main' = [main EXCEPT !.at = "removeConn"]
        /\ UNCHANGED <<connections, events, push>>
        /\ open' = open \ {main.conn}
        /\ main.at \in {"send", "blocked"}
    BY <1>4 DEF BroadcastSendFails, MainGoes, Close
  <2>2. main'.at = "removeConn" /\ main'.conn = main.conn
    BY <1>0, <2>1 DEF MainType
  <2>3. Listed' = Listed /\ NoDuplicates'
    BY <1>0, <2>1 DEF Listed, NoDuplicates
  <2>4. Removed' /\ Admitted'
    BY <2>1, <2>2, <2>3 DEF ListsInv, Removed, Admitted
  <2>5. ASSUME NEW c \in Client
        PROVE  HalfRemoved(c)' /\ ClosedWatched(c)'
    BY <2>1, <2>2, <2>3
       DEF ListsInv, HalfRemoved, ClosedWatched, MainRemoves, PushRemoves
  <2>6. QED
    BY <2>3, <2>4, <2>5 DEF ListsInv
<1>5. CASE BroadcastRemoves
  <2>1. main.at = "removeConn" /\ UNCHANGED <<push, events, open>>
    BY <1>5 DEF BroadcastRemoves
  <2>2. CASE main.conn \in Listed
    <3>1. RemoveConnection(main.conn) /\ main' = [main EXCEPT !.at = "removeEvent"]
      BY <1>5, <2>2 DEF BroadcastRemoves, MainGoes
    <3>2. main'.at = "removeEvent" /\ main'.conn = main.conn
      BY <1>0, <3>1 DEF MainType
    <3>3. NoDuplicates' /\ Listed' = Listed \ {main.conn}
      BY <1>0, <2>2, <3>1, RemoveConnectionForgets
    <3>4. Removed' /\ Admitted'
      BY <2>1, <3>2, <3>3 DEF ListsInv, Removed, Admitted
    <3>5. ASSUME NEW c \in Client
          PROVE  HalfRemoved(c)' /\ ClosedWatched(c)'
      BY <2>1, <3>2, <3>3
         DEF ListsInv, HalfRemoved, ClosedWatched, MainRemoves, PushRemoves
    <3>6. QED
      BY <3>3, <3>4, <3>5 DEF ListsInv
  <2>3. CASE main.conn \notin Listed
    <3>1. main'.at = "idle" /\ main'.conn = None /\ UNCHANGED connections
      BY <1>5, <2>3, MainRaisesType DEF BroadcastRemoves
    <3>2. Listed' = Listed /\ NoDuplicates'
      BY <1>0, <3>1 DEF Listed, NoDuplicates
    <3>3. Removed' /\ Admitted'
      BY <2>1, <3>1, <3>2, PushAssumption
         DEF ListsInv, Removed, Admitted, TypeInv, Labels, PushBusy
    <3>4. ASSUME NEW c \in Client
          PROVE  HalfRemoved(c)' /\ ClosedWatched(c)'
      BY <2>1, <2>3, <3>1, <3>2
         DEF ListsInv, Admitted, HalfRemoved, ClosedWatched, MainRemoves, PushRemoves
    <3>5. QED
      BY <3>2, <3>3, <3>4 DEF ListsInv
  <2>4. QED
    BY <2>2, <2>3
<1>6. CASE BroadcastForgets
  <2>1. /\ main.at = "removeEvent" /\ events' = events \ {main.conn}
        /\ UNCHANGED <<connections, open, push>>
    BY <1>6 DEF BroadcastForgets
  <2>2. main'.at \in {"next", "idle"} /\ main'.conn = None
    BY <1>0, <1>6, MainRaisesType DEF BroadcastForgets, MainType
  <2>3. Listed' = Listed /\ NoDuplicates'
    BY <1>0, <2>1 DEF Listed, NoDuplicates
  <2>4. Removed' /\ Admitted'
    BY <2>1, <2>2, <2>3, PushAssumption
       DEF ListsInv, Removed, Admitted, TypeInv, Labels, PushBusy
  <2>5. ASSUME NEW c \in Client
        PROVE  HalfRemoved(c)' /\ ClosedWatched(c)'
    BY <2>1, <2>2, <2>3
       DEF ListsInv, Removed, Admitted, HalfRemoved, ClosedWatched, MainRemoves, PushRemoves
  <2>6. QED
    BY <2>3, <2>4, <2>5 DEF ListsInv
<1>7. CASE WebsocketChanges
  BY <1>0, <1>7, ListsInvKept DEF WebsocketChanges, MainType
<1>8. QED
  BY <1>1, <1>2, <1>3, <1>4, <1>5, <1>6, <1>7 DEF Broadcast

LEMMA ListsInvRun == TypeInv /\ ListsInv /\ Run => ListsInv'
<1> SUFFICES ASSUME TypeInv, ListsInv, Run PROVE ListsInv'
  OBVIOUS
<1> USE DEF PushAlone, listVars
<1>0. /\ push \in PushType /\ connections \in Seq(Client) /\ NoDuplicates
      /\ SrvSock \notin Client
  BY PushAssumption DEF TypeInv, TypeOK, PushType, ListsInv
<1> DEFINE InvOf(c) == HalfRemoved(c)' /\ ClosedWatched(c)'
<1>1. CASE InitService
  <2>1. /\ push.at = "init" /\ push'.at \in {"batch", "dead"}
        /\ UNCHANGED <<connections, open, main>>
        /\ \A c \in Client : c \in events' <=> c \in events
    BY <1>0, <1>1, PushDiesType DEF InitService, PushGoes, PushType
  <2>2. Listed' = Listed /\ NoDuplicates'
    BY <1>0, <2>1 DEF Listed, NoDuplicates
  <2>3. Removed' /\ Admitted' /\ \A c \in Client : InvOf(c)
    BY <2>1, <2>2
       DEF ListsInv, Removed, Admitted, HalfRemoved, ClosedWatched, MainRemoves, PushRemoves
  <2>4. QED
    BY <2>2, <2>3 DEF ListsInv
<1>2. CASE Select
  BY <1>0, <1>2, PushDiesType, ListsInvKept DEF Select, PushGoes, PushType
<1>3. CASE ServerFull
  BY <1>0, <1>3, ListsInvKept DEF ServerFull, Accepting, PushType
<1>4. CASE AcceptRaises
  BY <1>4, PushDiesType, ListsInvKept DEF AcceptRaises
<1>5. ASSUME NEW d \in Client, Accept(d)
      PROVE  ListsInv'
  <2>1. /\ push.at = "batch" /\ push'.at = "watch" /\ push'.conn = d
        /\ open' = open \cup {d} /\ UNCHANGED <<main, connections, events>>
        /\ d \notin Listed /\ d # main.conn
    BY <1>0, <1>5 DEF Accept, Accepting, Admit, PushType
  <2>2. NoDuplicates' /\ Listed' = Listed
    BY <1>0, <2>1 DEF Listed, NoDuplicates
  <2>3. Removed' /\ Admitted'
    BY <2>1, <2>2 DEF ListsInv, Removed, Admitted
  <2>4. \A c \in Client : InvOf(c)
    BY <2>1, <2>2 DEF ListsInv, HalfRemoved, ClosedWatched, MainRemoves, PushRemoves
  <2>5. QED
    BY <2>2, <2>3, <2>4 DEF ListsInv
<1>6. ASSUME NEW d \in Client, ClientHandler(d)
      PROVE  ListsInv'
  <2>1. CASE d \in Listed
    <3>1. /\ push.at = "batch" /\ push'.at = "removeConn" /\ push'.conn = d
          /\ open' = open \ {d} /\ UNCHANGED <<connections, events, main>>
      BY <1>0, <1>6, <2>1 DEF ClientHandler, Close, PushType
    <3>2. Listed' = Listed /\ NoDuplicates'
      BY <1>0, <3>1 DEF Listed, NoDuplicates
    <3>3. Removed' /\ Admitted' /\ \A c \in Client : InvOf(c)
      BY <3>1, <3>2
         DEF ListsInv, Removed, Admitted, HalfRemoved, ClosedWatched, MainRemoves, PushRemoves
    <3>4. QED
      BY <3>2, <3>3 DEF ListsInv
  <2>2. CASE d \notin Listed
    BY <1>0, <1>6, <2>2, ListsInvKept DEF ClientHandler, PushType
  <2>3. QED
    BY <2>1, <2>2
<1>7. CASE ReadGreeting
  BY <1>0, <1>7, ListsInvKept DEF ReadGreeting, PushType
<1>8. CASE SendGreeting
  BY <1>0, <1>8, ListsInvKept DEF SendGreeting, PushBatch, PushType
<1>9. CASE GreetingWaits
  BY <1>0, <1>9, ListsInvKept DEF GreetingWaits, PushGoes, PushType
<1>10. CASE GreetingFails
  <2>1. /\ push.at \in {"send", "blocked"} /\ events' = events \ {push.conn}
        /\ UNCHANGED <<connections, open, main>>
        /\ IF push.conn \in events
           THEN push'.at = "ungreetConn" /\ push'.conn = push.conn
           ELSE push'.at = "dead"
    BY <1>0, <1>10, PushDiesType DEF GreetingFails, PushGoes, PushType
  <2>2. Listed' = Listed /\ NoDuplicates'
    BY <1>0, <2>1 DEF Listed, NoDuplicates
  <2>3. Removed' /\ Admitted' /\ \A c \in Client : InvOf(c)
    BY <2>1, <2>2
       DEF ListsInv, Removed, Admitted, HalfRemoved, ClosedWatched, MainRemoves, PushRemoves
  <2>4. QED
    BY <2>2, <2>3 DEF ListsInv
<1>11. CASE UngreetConnection
  <2>1. push.at = "ungreetConn" /\ UNCHANGED <<events, main>>
    BY <1>11 DEF UngreetConnection
  <2>2. CASE push.conn \in Listed
    <3>1. /\ RemoveConnection(push.conn) /\ push'.at = "batch"
          /\ open' = open \ {push.conn}
      BY <1>0, <1>11, <2>2 DEF UngreetConnection, PushBatch, Close, PushType
    <3>2. NoDuplicates' /\ Listed' = Listed \ {push.conn}
      BY <1>0, <2>2, <3>1, RemoveConnectionForgets
    <3>3. Removed' /\ Admitted' /\ \A c \in Client : InvOf(c)
      BY <2>1, <3>1, <3>2
         DEF ListsInv, Removed, Admitted, HalfRemoved, ClosedWatched, MainRemoves, PushRemoves
    <3>4. QED
      BY <3>2, <3>3 DEF ListsInv
  <2>3. CASE push.conn \notin Listed
    <3>1. push'.at = "dead" /\ UNCHANGED <<connections, open>>
      BY <1>11, <2>3, PushDiesType DEF UngreetConnection
    <3>2. Listed' = Listed /\ NoDuplicates'
      BY <1>0, <3>1 DEF Listed, NoDuplicates
    <3>3. Removed' /\ Admitted' /\ \A c \in Client : InvOf(c)
      BY <2>1, <2>3, <3>1, <3>2
         DEF ListsInv, Removed, Admitted, HalfRemoved, ClosedWatched, MainRemoves, PushRemoves
    <3>4. QED
      BY <3>2, <3>3 DEF ListsInv
  <2>4. QED
    BY <2>2, <2>3
<1>12. CASE HandlerRemoves
  <2>1. push.at = "removeConn" /\ UNCHANGED <<events, open, main>>
    BY <1>12 DEF HandlerRemoves
  <2>2. CASE push.conn \in Listed
    <3>1. /\ RemoveConnection(push.conn)
          /\ push'.at = "removeEvent" /\ push'.conn = push.conn
      BY <1>0, <1>12, <2>2 DEF HandlerRemoves, PushGoes, PushType
    <3>2. NoDuplicates' /\ Listed' = Listed \ {push.conn}
      BY <1>0, <2>2, <3>1, RemoveConnectionForgets
    <3>3. Removed' /\ Admitted' /\ \A c \in Client : InvOf(c)
      BY <2>1, <3>1, <3>2
         DEF ListsInv, Removed, Admitted, HalfRemoved, ClosedWatched, MainRemoves, PushRemoves
    <3>4. QED
      BY <3>2, <3>3 DEF ListsInv
  <2>3. CASE push.conn \notin Listed
    <3>1. push'.at = "dead" /\ UNCHANGED connections
      BY <1>12, <2>3, PushDiesType DEF HandlerRemoves
    <3>2. Listed' = Listed /\ NoDuplicates'
      BY <1>0, <3>1 DEF Listed, NoDuplicates
    <3>3. Removed' /\ Admitted' /\ \A c \in Client : InvOf(c)
      BY <2>1, <2>3, <3>1, <3>2
         DEF ListsInv, Removed, Admitted, HalfRemoved, ClosedWatched, MainRemoves, PushRemoves
    <3>4. QED
      BY <3>2, <3>3 DEF ListsInv
  <2>4. QED
    BY <2>2, <2>3
<1>13. CASE HandlerForgets
  <2>1. /\ push.at = "removeEvent" /\ events' = events \ {push.conn}
        /\ push'.at \in {"batch", "dead"}
        /\ UNCHANGED <<connections, open, main>>
    BY <1>0, <1>13, PushDiesType DEF HandlerForgets, PushBatch, PushType
  <2>2. Listed' = Listed /\ NoDuplicates'
    BY <1>0, <2>1 DEF Listed, NoDuplicates
  <2>3. Removed' /\ Admitted' /\ \A c \in Client : InvOf(c)
    BY <2>1, <2>2
       DEF ListsInv, Removed, Admitted, HalfRemoved, ClosedWatched, MainRemoves, PushRemoves
  <2>4. QED
    BY <2>2, <2>3 DEF ListsInv
<1>14. CASE WatchConnection
  <2>1. /\ push.at = "watch" /\ push'.at = "list" /\ push'.conn = push.conn
        /\ events' = events \cup {push.conn} /\ UNCHANGED <<main, connections, open>>
    BY <1>0, <1>14 DEF WatchConnection, PushGoes, PushType
  <2>2. NoDuplicates' /\ Listed' = Listed
    BY <1>0, <2>1 DEF Listed, NoDuplicates
  <2>3. Removed' /\ Admitted'
    BY <2>1, <2>2 DEF ListsInv, Removed, Admitted
  <2>4. \A c \in Client : InvOf(c)
    BY <2>1, <2>2
       DEF ListsInv, Admitted, HalfRemoved, ClosedWatched, MainRemoves, PushRemoves
  <2>5. QED
    BY <2>2, <2>3, <2>4 DEF ListsInv
<1>15. CASE ListConnection
  <2>1. /\ push.at = "list" /\ push'.at = "greet" /\ push.conn \in Client
        /\ UNCHANGED <<main, events, open>>
    BY <1>0, <1>15 DEF ListConnection, PushGoes, PushType, TypeInv, Labels, PushBusy
  <2>2. push.conn \notin Listed /\ push.conn \in events /\ push.conn # main.conn
    BY <2>1 DEF ListsInv, Admitted
  <2>3. NoDuplicates' /\ Listed' = Listed \cup {push.conn}
    BY <1>0, <1>15, <2>1, <2>2, ListConnectionLists
  <2>4. Removed' /\ Admitted'
    BY <2>1, <2>2, <2>3 DEF ListsInv, Removed, Admitted
  <2>5. \A c \in Client : InvOf(c)
    BY <2>1, <2>2, <2>3 DEF ListsInv, HalfRemoved, ClosedWatched, MainRemoves, PushRemoves
  <2>6. QED
    BY <2>3, <2>4, <2>5 DEF ListsInv
<1>16. QED
  BY <1>1, <1>2, <1>3, <1>4, <1>5, <1>6, <1>7, <1>8, <1>9, <1>10, <1>11, <1>12,
     <1>13, <1>14, <1>15 DEF Run

LEMMA ListsInvStep == TypeInv /\ ListsInv /\ [Next]_vars => ListsInv'
<1> SUFFICES ASSUME TypeInv, ListsInv, [Next]_vars PROVE ListsInv'
  OBVIOUS
<1> USE DEF listVars
<1>0. main \in MainType /\ push \in PushType
  BY DEF TypeInv, TypeOK, MainType, PushType
<1>1. CASE \E s \in BOOLEAN : ChangeDictionary(s)
  BY <1>1, ListsInvKept DEF ChangeDictionary, MainAlone
<1>2. CASE Stopping
  <2>1. /\ main.at = "idle" /\ main'.at = "gone" /\ main'.conn = main.conn
        /\ UNCHANGED <<connections, events, push>>
    BY <1>0, <1>2 DEF Stopping, MainType
  <2>2. Listed' = Listed /\ NoDuplicates'
    BY <2>1 DEF Listed, NoDuplicates, ListsInv
  <2>3. Removed' /\ Admitted' /\ \A c \in Client : HalfRemoved(c)' /\ ClosedWatched(c)'
    BY <2>1, <2>2
       DEF ListsInv, Removed, Admitted, HalfRemoved, ClosedWatched, MainRemoves, PushRemoves
  <2>4. QED
    BY <2>2, <2>3 DEF ListsInv
<1>3. CASE SelectReturns
  BY <1>0, <1>3, ListsInvKept DEF SelectReturns, PushAlone, PushType
<1>4. CASE \E c \in Client : Resets(c) \/ Reads(c)
  BY <1>4, ListsInvKept DEF Resets, Reads, NetAlone
<1>5. CASE UNCHANGED vars
  BY <1>5, ListsInvKept DEF vars
<1>6. QED
  BY <1>1, <1>2, <1>3, <1>4, <1>5, ListsInvBroadcast, ListsInvRun DEF Next

LEMMA ListsInvAlways == Spec => [](TypeInv /\ ListsInv)
BY TypeInvAlways, ListsInvInit, ListsInvStep, PTL DEF Spec

(* The two threads leave no connection in one of the lists alone, and no   *)
(* closed socket in the list that select is given.                         *)
THEOREM ListsAlwaysAgree == Spec => []ListsAgree
BY ListsInvAlways, ListsInvAgree, PTL

-----------------------------------------------------------------------------
(* Who was told what.  In the middle of a broadcast only the part of the   *)
(* list before the loop's index is up to date; a removal moves one element *)
(* across the index, into the part that counts as visited.                 *)

Fresh(c) ==
    \/ c \in current \/ c \in missed
    \/ push.conn = c /\ push.at # "removeEvent"

InLoop == main.at \in MainBusy \cup {"next"}
LoopDone == main.at = "websocket" \/ (main.at = "idle" /\ ~failed)

Due(i) == (InLoop /\ i < main.iter /\ connections[i] # main.conn) \/ LoopDone

Told == \A i \in 1 .. Len(connections) : Due(i) => Fresh(connections[i])

(* A greeting is the current status, or of a client known to be stale. *)
Greeted ==
    push.at \in {"send", "blocked"} =>
      \/ push.greeting = StatusString
      \/ push.conn \in missed
      \/ push.conn \notin Listed

StaleInv == Told /\ Greeted

LEMMA StaleInvInit == Init => StaleInv
BY DEF Init, StaleInv, Told, Greeted

LEMMA StaleInvExplained == TypeInv /\ StaleInv => StaleExplained
<1> SUFFICES ASSUME TypeInv, StaleInv, main.at = "idle", ~failed, NEW c \in Listed
             PROVE  Fresh(c)
  BY DEF StaleExplained, Fresh
<1>1. PICK i \in 1 .. Len(connections) : connections[i] = c
  BY DEF Listed, TypeInv, TypeOK
<1>2. QED
  BY <1>1 DEF StaleInv, Told, Due, LoopDone

(* A step of the push thread that leaves the list alone. *)
LEMMA ToldKept ==
    ASSUME TypeInv, Told, UNCHANGED <<connections, main, failed>>,
           \A c \in Listed : Fresh(c) => Fresh(c)'
    PROVE  Told'
<1>1. \A i \in 1 .. Len(connections) : connections[i] \in Listed
  BY ListedFacts DEF TypeInv, TypeOK
<1>2. ASSUME NEW i \in 1 .. Len(connections), Due(i)'
      PROVE  Fresh(connections[i])'
  <2>1. Due(i)
    BY <1>2 DEF Due, InLoop, LoopDone
  <2>2. QED
    BY <1>1, <2>1 DEF Told
<1>3. QED
  BY <1>2 DEF Told

LEMMA ToldAfterRemoval ==
    ASSUME TypeInv, ListsInv, Told, NEW c \in Listed, RemoveConnection(c),
           UNCHANGED failed, main'.iter = main.iter, main'.conn = main.conn,
           InLoop' => InLoop, LoopDone' => LoopDone,
           \A d \in Client : push.conn = d /\ push.at # "removeEvent" =>
             \/ push'.conn = d /\ push'.at # "removeEvent"
             \/ d = c
    PROVE  Told'
<1>1. PICK n \in Nat : n = Len(connections)
  BY DEF TypeInv, TypeOK
<1>2. /\ connections \in Seq(Client) /\ NoDuplicates
      /\ main.iter \in Nat /\ main.iter >= 1
  BY DEF TypeInv, TypeOK, ListsInv, Labels
<1>3. Position(c) \in 1 .. n
  BY <1>1, <1>2, PositionFacts
<1>4. Len(connections') = n - 1 /\ connections' \in Seq(Client)
  BY <1>1, <1>2, RemoveConnectionFacts
<1>5. SUFFICES ASSUME NEW j \in 1 .. n - 1, NEW d \in Client, d = connections'[j], Due(j)'
               PROVE  Fresh(d)'
  BY <1>4 DEF Told, Fresh
<1> DEFINE i == IF j < Position(c) THEN j ELSE j + 1
<1>6. i \in 1 .. n /\ d = connections[i]
  BY <1>1, <1>2, <1>3, <1>5, RemoveConnectionFacts
<1>7. i = j \/ (i = j + 1 /\ Position(c) <= j)
  BY <1>3
<1> HIDE DEF i
<1>8. d # c
  <2>1. Listed' = Listed \ {c} /\ connections' \in Seq(Client) /\ Len(connections') = n - 1
    BY <1>1, <1>2, <1>4, RemoveConnectionForgets
  <2>2. d \in Listed'
    BY <1>5, <2>1 DEF Listed
  <2>3. QED
    BY <2>1, <2>2
<1>9. missed \ {c} \subseteq missed' /\ current' = current \ {c}
  BY DEF RemoveConnection
<1>10. CASE Due(i)
  <2>1. Fresh(d)
    BY <1>1, <1>6, <1>10 DEF Told
  <2>2. QED
    BY <1>6, <1>8, <1>9, <2>1 DEF Fresh
<1>11. CASE ~Due(i)
  <2>1. InLoop /\ j < main.iter /\ d # main.conn
    BY <1>5, <1>11 DEF Due
  <2>2. ~(i < main.iter)
    BY <1>6, <1>11, <2>1 DEF Due
  <2>3. i = main.iter /\ Position(c) < main.iter
    BY <1>2, <1>3, <1>6, <1>7, <2>1, <2>2
  <2>4. main.at \notin {"idle", "gone", "websocket"}
    BY <2>1 DEF InLoop, MainBusy
  <2>5. d \in missed'
    BY <1>1, <1>6, <1>8, <2>3, <2>4 DEF RemoveConnection
  <2>6. QED
    BY <2>5 DEF Fresh
<1>12. QED
  BY <1>10, <1>11

LEMMA GreetedAfterRemoval ==
    ASSUME TypeInv, ListsInv, Greeted, NEW c \in Listed, RemoveConnection(c),
           UNCHANGED status,
           push'.at \in {"send", "blocked"} => UNCHANGED push
    PROVE  Greeted'
<1>1. Listed' = Listed \ {c}
  BY RemoveConnectionForgets DEF TypeInv, TypeOK, ListsInv
<1>2. missed \ {c} \subseteq missed'
  BY DEF RemoveConnection
<1>3. QED
  BY <1>1, <1>2 DEF Greeted, StatusString

LEMMA StaleInvBroadcast ==
    ASSUME TypeInv, ListsInv, StaleInv, Broadcast
    PROVE  StaleInv'
<1> USE DEF MainAlone, listVars, ghosts, StaleInv
<1>1. /\ main \in MainType /\ failed \in BOOLEAN /\ main.iter \in Nat
      /\ connections \in Seq(Client) /\ Len(connections) \in Nat
      /\ Listed \subseteq Client /\ None \notin Client
      /\ \A i \in 1 .. Len(connections) : connections[i] \in Listed
  BY PushAssumption, ListedFacts DEF TypeInv, TypeOK, MainType
<1>2. CASE NextConnection
  <2>1. main.at = "next" /\ main.conn = None /\ UNCHANGED <<connections, status, push, current, missed>>
    BY <1>2 DEF NextConnection, TypeInv, Labels, MainBusy
  <2>2. Greeted' /\ \A c \in Client : Fresh(c)' <=> Fresh(c)
    BY <2>1 DEF Greeted, StatusString, Listed, Fresh
  <2>3. \A i \in 1 .. Len(connections) : i < main.iter => Fresh(connections[i])
    BY <1>1, <2>1 DEF Told, Due, InLoop
  <2>4. CASE main.iter <= Len(connections)
    <3>1. /\ main'.at = "send" /\ main'.conn = connections[main.iter]
          /\ main'.iter = main.iter + 1
      BY <1>2, <2>4 DEF NextConnection
    <3>2. ASSUME NEW i \in 1 .. Len(connections), Due(i)'
          PROVE  i < main.iter
      BY <1>1, <2>1, <3>1, <3>2 DEF Due, LoopDone
    <3>3. QED
      BY <1>1, <2>1, <2>2, <2>3, <3>2 DEF Told
  <2>5. CASE ~(main.iter <= Len(connections))
    BY <1>1, <2>1, <2>2, <2>3, <2>5 DEF Told
  <2>6. QED
    BY <2>4, <2>5
<1>3. CASE BroadcastSend
  <2>1. /\ main.at \in {"send", "blocked"} /\ Sent(main.conn, StatusString)
        /\ main'.at = "next" /\ main'.iter = main.iter
        /\ UNCHANGED <<connections, status, push, missed>>
    BY <1>1, <1>3 DEF BroadcastSend, MainType, Sent
  <2>2. main.conn \in Listed => main.conn \in current'
    BY <2>1 DEF Sent
  <2>3. Greeted' /\ \A c \in Listed : Fresh(c) => Fresh(c)'
    BY <2>1 DEF Greeted, StatusString, Listed, Fresh, Sent
  <2>4. ASSUME NEW i \in 1 .. Len(connections), Due(i)'
        PROVE  Fresh(connections[i])'
    <3>1. i < main.iter
      BY <2>1, <2>4 DEF Due, LoopDone
    <3>2. CASE connections[i] = main.conn
      BY <1>1, <2>1, <2>2, <3>2 DEF Fresh
    <3>3. CASE connections[i] # main.conn
      <4>1. Due(i)
        BY <2>1, <3>1, <3>3 DEF Due, InLoop, MainBusy
      <4>2. connections[i] \in Listed /\ Fresh(connections[i])
        BY <1>1, <4>1 DEF Told
      <4>3. QED
        BY <2>1, <2>3, <4>2
    <3>4. QED
      BY <3>2, <3>3
  <2>5. QED
    BY <2>1, <2>3, <2>4 DEF Told
<1>4. CASE BroadcastWaits \/ BroadcastSendFails
  <2>1. /\ main.at \in {"send", "blocked"} /\ main'.at \in {"blocked", "removeConn"}
        /\ main'.iter = main.iter /\ main'.conn = main.conn
        /\ UNCHANGED <<connections, status, push, current, missed>>
    BY <1>1, <1>4 DEF BroadcastWaits, BroadcastSendFails, MainGoes, MainType
  <2>2. Greeted' /\ \A c \in Listed : Fresh(c) => Fresh(c)'
    BY <2>1 DEF Greeted, StatusString, Listed, Fresh
  <2>3. \A i \in 1 .. Len(connections) : Due(i)' => Due(i)
    BY <2>1 DEF Due, InLoop, LoopDone, MainBusy
  <2>4. QED
    BY <1>1, <2>1, <2>2, <2>3 DEF Told
<1>5. CASE BroadcastRemoves
  <2>1. CASE main.conn \in Listed
    <3>1. /\ main.at = "removeConn" /\ RemoveConnection(main.conn)
          /\ main'.at = "removeEvent" /\ main'.conn = main.conn /\ main'.iter = main.iter
          /\ UNCHANGED <<failed, push, status>>
      BY <1>1, <1>5, <2>1 DEF BroadcastRemoves, MainGoes, MainType
    <3>2. (InLoop' => InLoop) /\ (LoopDone' => LoopDone)
      BY <3>1 DEF InLoop, LoopDone, MainBusy
    <3>3. Told'
      BY <2>1, <3>1, <3>2, ToldAfterRemoval
    <3>4. QED
      BY <2>1, <3>1, <3>3, GreetedAfterRemoval
  <2>2. CASE main.conn \notin Listed
    <3>1. /\ main'.at = "idle" /\ failed' = TRUE
          /\ UNCHANGED <<connections, status, push, missed>>
      BY <1>5, <2>2 DEF BroadcastRemoves, MainRaises
    <3>2. Told'
      BY <3>1 DEF Told, Due, InLoop, LoopDone, MainBusy
    <3>3. Greeted'
      BY <3>1 DEF Greeted, StatusString, Listed
    <3>4. QED
      BY <3>2, <3>3
  <2>3. QED
    BY <2>1, <2>2
<1>6. CASE BroadcastForgets
  <2>1. main.at = "removeEvent" /\ UNCHANGED <<connections, status, push, current, missed>>
    BY <1>6 DEF BroadcastForgets
  <2>2. Greeted' /\ \A c \in Listed : Fresh(c) => Fresh(c)'
    BY <2>1 DEF Greeted, StatusString, Listed, Fresh
  <2>3. CASE main.conn \in events
    <3>1. main'.at = "next" /\ main'.iter = main.iter
      BY <1>1, <1>6, <2>3 DEF BroadcastForgets, MainType
    <3>2. main.conn \notin Listed
      BY <2>1 DEF ListsInv, Removed
    <3>3. \A i \in 1 .. Len(connections) : Due(i)' => Due(i)
      BY <1>1, <2>1, <3>1, <3>2 DEF Due, InLoop, LoopDone, MainBusy
    <3>4. QED
      BY <1>1, <2>1, <2>2, <3>3 DEF Told
  <2>4. CASE main.conn \notin events
    <3>1. main'.at = "idle" /\ failed' = TRUE
      BY <1>6, <2>4 DEF BroadcastForgets, MainRaises
    <3>2. QED
      BY <2>2, <3>1 DEF Told, Due, InLoop, LoopDone, MainBusy
  <2>5. QED
    BY <2>3, <2>4
<1>7. CASE WebsocketChanges
  <2>1. /\ main.at = "websocket" /\ main'.at = "idle"
        /\ UNCHANGED <<connections, status, push, current, missed>>
    BY <1>1, <1>7 DEF WebsocketChanges, MainType
  <2>2. Greeted' /\ \A c \in Listed : Fresh(c) => Fresh(c)'
    BY <2>1 DEF Greeted, StatusString, Listed, Fresh
  <2>3. \A i \in 1 .. Len(connections) : Due(i)
    BY <2>1 DEF Due, LoopDone
  <2>4. QED
    BY <1>1, <2>1, <2>2, <2>3 DEF Told
<1>8. QED
  BY <1>2, <1>3, <1>4, <1>5, <1>6, <1>7 DEF Broadcast

LEMMA StaleInvRun ==
    ASSUME TypeInv, ListsInv, StaleInv, Run
    PROVE  StaleInv'
<1> USE DEF PushAlone, listVars, ghosts, StaleInv
<1>1. /\ push \in PushType
      /\ connections \in Seq(Client) /\ NoDuplicates
      /\ Listed \subseteq Client /\ None \notin Client
  BY PushAssumption, ListedFacts DEF TypeInv, TypeOK, PushType, ListsInv
<1>2. CASE InitService \/ Select \/ ServerFull \/ AcceptRaises
  <2>1. /\ push.at \in {"init", "batch"}
        /\ UNCHANGED <<connections, main, failed, current, missed>>
    BY <1>2 DEF InitService, Select, ServerFull, AcceptRaises, Accepting
  <2>2. push'.at \in {"batch", "dead", "ended", "waiting"}
    BY <1>1, <1>2, PushDiesType
       DEF InitService, Select, ServerFull, AcceptRaises, Accepting, PushGoes, PushType
  <2>3. push.conn = None
    BY <2>1 DEF TypeInv, Labels, PushBusy
  <2>4. \A c \in Listed : Fresh(c) => Fresh(c)'
    BY <1>1, <2>1, <2>3 DEF Fresh
  <2>5. QED
    BY <2>1, <2>2, <2>4, ToldKept DEF Greeted
<1>3. (\E d \in Client : Accept(d)) \/ WatchConnection => StaleInv'
  <2>1. SUFFICES ASSUME (\E d \in Client : Accept(d)) \/ WatchConnection
                 PROVE  StaleInv'
    OBVIOUS
  <2>2. /\ push.at \in {"batch", "watch"} /\ push'.at \in {"watch", "list"}
        /\ push.at = "watch" => push'.conn = push.conn
        /\ UNCHANGED <<connections, main, failed, current, missed>>
    BY <1>1, <2>1 DEF Accept, Accepting, Admit, WatchConnection, PushGoes, PushType
  <2>3. push.at = "batch" => push.conn = None
    BY DEF TypeInv, Labels, PushBusy
  <2>4. \A c \in Listed : Fresh(c) => Fresh(c)'
    BY <1>1, <2>2, <2>3 DEF Fresh
  <2>5. QED
    BY <2>2, <2>4, ToldKept DEF Greeted
<1>4. ASSUME NEW d \in Client, ClientHandler(d)
      PROVE  StaleInv'
  <2>1. /\ push.at = "batch" /\ push'.at \in {"batch", "removeConn"}
        /\ UNCHANGED <<connections, main, failed, current, missed>>
    BY <1>1, <1>4 DEF ClientHandler, PushType
  <2>2. push.conn = None
    BY <2>1 DEF TypeInv, Labels, PushBusy
  <2>3. \A c \in Listed : Fresh(c) => Fresh(c)'
    BY <1>1, <2>1, <2>2 DEF Fresh
  <2>4. QED
    BY <2>1, <2>3, ToldKept DEF Greeted
<1>5. CASE ReadGreeting
  <2>1. /\ push.at = "greet" /\ push'.at = "send" /\ push'.conn = push.conn
        /\ push'.greeting = StatusString
        /\ UNCHANGED <<connections, main, failed, status, current, missed>>
    BY <1>1, <1>5 DEF ReadGreeting, PushType
  <2>2. \A c \in Listed : Fresh(c) => Fresh(c)'
    BY <2>1 DEF Fresh
  <2>3. QED
    BY <2>1, <2>2, ToldKept DEF Greeted, StatusString
<1>6. CASE SendGreeting
  <2>1. /\ push.at \in {"send", "blocked"} /\ push'.at = "batch"
        /\ Sent(push.conn, push.greeting)
        /\ UNCHANGED <<connections, main, failed, missed>>
    BY <1>1, <1>6 DEF SendGreeting, PushBatch, Sent, PushType
  <2>2. \A c \in Listed : Fresh(c) => Fresh(c)'
    <3>1. ASSUME NEW c \in Listed, Fresh(c), c # push.conn
          PROVE  Fresh(c)'
      BY <2>1, <3>1 DEF Fresh, Sent
    <3>2. ASSUME push.conn \in Listed
          PROVE  push.conn \in current' \/ push.conn \in missed'
      BY <2>1, <3>2 DEF Greeted, Sent
    <3>3. QED
      BY <3>1, <3>2 DEF Fresh
  <2>3. QED
    BY <2>1, <2>2, ToldKept DEF Greeted
<1>7. CASE GreetingWaits
  <2>1. /\ push.at = "send" /\ push'.at = "blocked" /\ push'.conn = push.conn
        /\ push'.greeting = push.greeting
        /\ UNCHANGED <<connections, main, failed, status, current, missed>>
    BY <1>1, <1>7 DEF GreetingWaits, PushGoes, PushType
  <2>2. \A c \in Listed : Fresh(c) => Fresh(c)'
    BY <2>1 DEF Fresh
  <2>3. QED
    BY <2>1, <2>2, ToldKept DEF Greeted, StatusString, Listed
<1>8. CASE GreetingFails
  <2>1. /\ push.at \in {"send", "blocked"}
        /\ UNCHANGED <<connections, main, failed, current, missed>>
        /\ IF push.conn \in events
           THEN push'.at = "ungreetConn" /\ push'.conn = push.conn
           ELSE push'.at = "dead"
    BY <1>1, <1>8, PushDiesType DEF GreetingFails, PushGoes, PushType
  <2>2. push.conn \notin events => push.conn \notin Listed
    BY <2>1 DEF ListsInv, HalfRemoved, TypeInv, Labels, PushBusy
  <2>3. \A c \in Listed : Fresh(c) => Fresh(c)'
    BY <2>1, <2>2 DEF Fresh
  <2>4. QED
    BY <2>1, <2>3, ToldKept DEF Greeted
<1>9. CASE UngreetConnection \/ HandlerRemoves
  <2>1. /\ push.at \in {"ungreetConn", "removeConn"}
        /\ push'.at \in {"batch", "removeEvent", "dead"}
        /\ UNCHANGED <<main, failed, status>>
    BY <1>1, <1>9, PushDiesType
       DEF UngreetConnection, HandlerRemoves, PushBatch, PushGoes, PushType
  <2>2. CASE push.conn \in Listed
    <3>1. RemoveConnection(push.conn)
      BY <1>9, <2>2 DEF UngreetConnection, HandlerRemoves
    <3>2. Told'
      BY <2>1, <2>2, <3>1, ToldAfterRemoval DEF InLoop, LoopDone
    <3>3. QED
      BY <2>1, <3>2 DEF Greeted
  <2>3. CASE push.conn \notin Listed
    <3>1. UNCHANGED <<connections, current, missed>>
      BY <1>9, <2>3 DEF UngreetConnection, HandlerRemoves
    <3>2. \A c \in Listed : Fresh(c) => Fresh(c)'
      BY <2>3, <3>1 DEF Fresh
    <3>3. QED
      BY <2>1, <3>1, <3>2, ToldKept DEF Greeted
  <2>4. QED
    BY <2>2, <2>3
<1>10. CASE HandlerForgets
  <2>1. /\ push.at = "removeEvent" /\ push'.at \in {"batch", "dead"}
        /\ UNCHANGED <<connections, main, failed, current, missed>>
    BY <1>1, <1>10, PushDiesType DEF HandlerForgets, PushBatch, PushType
  <2>2. \A c \in Listed : Fresh(c) => Fresh(c)'
    BY <2>1 DEF Fresh
  <2>3. QED
    BY <2>1, <2>2, ToldKept DEF Greeted
<1>11. CASE ListConnection
  <2>1. /\ push.at = "list" /\ push'.at = "greet" /\ push'.conn = push.conn
        /\ push.conn \in Client /\ push.conn \notin Listed
        /\ UNCHANGED <<main, failed, current, missed>>
    BY <1>1, <1>11 DEF ListConnection, PushGoes, PushType, TypeInv, Labels, PushBusy,
       ListsInv, Admitted
  <2>2. PICK n \in Nat : n = Len(connections)
    BY <1>1
  <2>3. /\ Len(connections') = n + 1 /\ connections'[n + 1] = push.conn
        /\ connections' \in Seq(Client)
        /\ \A j \in 1 .. n : connections'[j] = connections[j]
    BY <1>1, <1>11, <2>1, <2>2, ListConnectionLists
  <2>4. ASSUME NEW i \in 1 .. n + 1, NEW c \in Client, c = connections'[i], Due(i)'
        PROVE  Fresh(c)'
    <3>1. CASE i = n + 1
      BY <2>1, <2>3, <2>4, <3>1 DEF Fresh
    <3>2. CASE i \in 1 .. n
      <4>1. Due(i) /\ c = connections[i]
        BY <2>1, <2>3, <2>4, <3>2 DEF Due, InLoop, LoopDone
      <4>2. Fresh(c)
        BY <2>2, <3>2, <4>1 DEF Told
      <4>3. QED
        BY <2>1, <4>2 DEF Fresh
    <3>3. QED
      BY <3>1, <3>2
  <2>5. Told'
    BY <2>3, <2>4 DEF Told, Fresh
  <2>6. QED
    BY <2>1, <2>5 DEF Greeted
<1>12. QED
  BY <1>2, <1>3, <1>4, <1>5, <1>6, <1>7, <1>8, <1>9, <1>10, <1>11 DEF Run

LEMMA StaleInvStep == TypeInv /\ ListsInv /\ StaleInv /\ [Next]_vars => StaleInv'
<1> SUFFICES ASSUME TypeInv, ListsInv, StaleInv, [Next]_vars PROVE StaleInv'
  OBVIOUS
<1> USE DEF listVars, ghosts, StaleInv
<1>1. ASSUME NEW s \in BOOLEAN, ChangeDictionary(s)
      PROVE  StaleInv'
  <2>1. /\ main'.at = "next" /\ main'.iter = 1 /\ UNCHANGED <<connections, push>>
        /\ push.at \in {"send", "blocked"} => push.conn \in missed'
    BY <1>1 DEF ChangeDictionary, MainAlone
  <2>2. ASSUME NEW i \in 1 .. Len(connections)
        PROVE  ~Due(i)'
    BY <2>1 DEF Due, LoopDone
  <2>3. QED
    BY <2>1, <2>2 DEF Told, Greeted
<1>2. CASE Stopping
  <2>1. main'.at = "gone" /\ UNCHANGED <<connections, status, push, missed>>
    BY <1>2 DEF Stopping, TypeInv, TypeOK
  <2>2. QED
    BY <2>1 DEF Told, Due, InLoop, LoopDone, MainBusy, Greeted, StatusString, Listed
<1>3. CASE SelectReturns
  <2>1. /\ push.at = "waiting" /\ push'.at = "batch" /\ push'.conn = push.conn
        /\ UNCHANGED <<connections, main, failed, current, missed>>
    BY <1>3 DEF SelectReturns, PushAlone, TypeInv, TypeOK
  <2>2. \A c \in Listed : Fresh(c) => Fresh(c)'
    BY <2>1 DEF Fresh
  <2>3. QED
    BY <2>1, <2>2, ToldKept DEF Greeted
<1>4. CASE (\E c \in Client : Resets(c) \/ Reads(c)) \/ UNCHANGED vars
  <2>1. UNCHANGED <<connections, main, failed, push, status, current, missed>>
    BY <1>4 DEF Resets, Reads, NetAlone, vars
  <2>2. \A c \in Listed : Fresh(c) => Fresh(c)'
    BY <2>1 DEF Fresh
  <2>3. QED
    BY <2>1, <2>2, ToldKept DEF Greeted, StatusString, Listed
<1>5. QED
  BY <1>1, <1>2, <1>3, <1>4, StaleInvBroadcast, StaleInvRun DEF Next

(* A broadcast leaves nobody with an old status but those that the loop    *)
(* passed over and those whose greeting was read before it.                *)
THEOREM StaleAlwaysExplained == Spec => []StaleExplained
<1>1. Spec => [](TypeInv /\ ListsInv /\ StaleInv)
  BY ListsInvAlways, StaleInvInit, StaleInvStep, PTL DEF Spec
<1>2. QED
  BY <1>1, StaleInvExplained, PTL
=============================================================================
