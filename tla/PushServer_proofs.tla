------------------------- MODULE PushServer_proofs -------------------------
(***************************************************************************)
(* Theorems about PushServer, for every set of clients, every limit, any   *)
(* number of dictionaries and messages of any number of pieces.            *)
(***************************************************************************)
EXTENDS PushServer, TLAPS

Reading == {"none", "pending", "stale"}

(* The writes asio has still to complete. *)
Outstanding(s) == Len(s.queue) + Len(s.redo) + s.ok + s.bad

-----------------------------------------------------------------------------
(* Assignments to the fields of a client, for values of the right type.    *)

LEMMA SetLast ==
    ASSUME NEW s \in SockType, NEW l \in BOOLEAN
    PROVE  LET t == [s EXCEPT !.last = l]
           IN  /\ t \in SockType
               /\ t.last = l
               /\ t.queue = s.queue /\ t.pending = s.pending
               /\ t.redo = s.redo /\ t.ok = s.ok /\ t.bad = s.bad
               /\ t.upgraded = s.upgraded
               /\ t.reading = s.reading /\ t.heard = s.heard
BY DEF SockType

LEMMA SetReading ==
    ASSUME NEW s \in SockType, NEW r \in Reading
    PROVE  LET t == [s EXCEPT !.reading = r]
           IN  /\ t \in SockType
               /\ t.reading = r
               /\ t.queue = s.queue /\ t.pending = s.pending
               /\ t.redo = s.redo /\ t.ok = s.ok /\ t.bad = s.bad
               /\ t.last = s.last /\ t.upgraded = s.upgraded /\ t.heard = s.heard
BY DEF SockType, Reading

LEMMA SetHeard ==
    ASSUME NEW s \in SockType, NEW h \in Version
    PROVE  LET t == [s EXCEPT !.heard = h]
           IN  /\ t \in SockType
               /\ t.heard = h
               /\ t.queue = s.queue /\ t.pending = s.pending
               /\ t.redo = s.redo /\ t.ok = s.ok /\ t.bad = s.bad
               /\ t.last = s.last /\ t.upgraded = s.upgraded
               /\ t.reading = s.reading
BY DEF SockType

-----------------------------------------------------------------------------
(* The operations on one client.                                           *)

LEMMA OutstandingType ==
    ASSUME NEW s \in SockType
    PROVE  Outstanding(s) \in Nat
BY DEF SockType, Outstanding

LEMMA NewSockFacts ==
    /\ NewSock \in SockType
    /\ Outstanding(NewSock) = 0
    /\ NewSock.pending = 0 /\ NewSock.reading = "none"
    /\ NewSock.last = FALSE /\ NewSock.upgraded = FALSE
<1>1. 0 \in Version /\ <<>> \in Seq(Write) /\ Len(<<>>) = 0
  BY PushServerAssumption DEF Version
<1>2. NewSock \in SockType
  BY <1>1 DEF NewSock, SockType
<1>3. /\ NewSock.queue = <<>> /\ NewSock.redo = <<>> /\ NewSock.ok = 0 /\ NewSock.bad = 0
      /\ NewSock.pending = 0 /\ NewSock.reading = "none"
      /\ NewSock.last = FALSE /\ NewSock.upgraded = FALSE
  BY DEF NewSock
<1>4. Outstanding(NewSock) = 0
  BY <1>1, <1>3 DEF Outstanding
<1>5. QED
  BY <1>2, <1>3, <1>4

LEMMA StartedFacts ==
    ASSUME NEW s \in SockType, NEW v \in Version
    PROVE  /\ Started(s, v) \in SockType
           /\ Started(s, v).pending = s.pending + 1
           /\ Outstanding(Started(s, v)) = Outstanding(s) + 1
           /\ Started(s, v).last = s.last
           /\ Started(s, v).upgraded = s.upgraded
           /\ Started(s, v).reading = s.reading
           /\ Started(s, v).heard = s.heard
<1> DEFINE q == Append(s.queue, [v |-> v, left |-> Pieces])
           p == s.pending + 1
<1>1. /\ s.queue \in Seq(Write) /\ s.redo \in Seq(Write)
      /\ s.ok \in Nat /\ s.bad \in Nat /\ s.pending \in Int
  BY DEF SockType
<1>2. [v |-> v, left |-> Pieces] \in Write
  BY PushServerAssumption DEF Write
<1>3. q \in Seq(Write) /\ Len(q) = Len(s.queue) + 1 /\ p \in Int
  BY <1>1, <1>2
<1>4. Started(s, v) = [s EXCEPT !.pending = p, !.queue = q]
  BY DEF Started
<1>5. p = s.pending + 1
  OBVIOUS
<1> HIDE DEF q, p
<1>6. /\ Started(s, v) \in SockType
      /\ Started(s, v).pending = p /\ Started(s, v).queue = q
      /\ Started(s, v).redo = s.redo
      /\ Started(s, v).ok = s.ok /\ Started(s, v).bad = s.bad
      /\ Started(s, v).last = s.last /\ Started(s, v).upgraded = s.upgraded
      /\ Started(s, v).reading = s.reading /\ Started(s, v).heard = s.heard
  BY <1>3, <1>4 DEF SockType
<1>7. Outstanding(Started(s, v)) = Outstanding(s) + 1
  <2>1. Len(s.queue) \in Nat /\ Len(s.redo) \in Nat /\ s.ok \in Nat /\ s.bad \in Nat
    BY <1>1
  <2>2. PICK a \in Nat, b \in Nat, c \in Nat, d \in Nat :
          a = Len(s.queue) /\ b = Len(s.redo) /\ c = s.ok /\ d = s.bad
    BY <2>1
  <2>3. Outstanding(s) = a + b + c + d
    BY <2>2 DEF Outstanding
  <2>4. Outstanding(Started(s, v)) = (a + 1) + b + c + d
    BY <1>3, <1>6, <2>2 DEF Outstanding
  <2>5. QED
    BY <2>3, <2>4
<1>8. QED
  BY <1>5, <1>6, <1>7

LEMMA LastPacketFacts ==
    ASSUME NEW s \in SockType, NEW v \in Version
    PROVE  /\ LastPacket(s, v) \in SockType
           /\ LastPacket(s, v).pending - Outstanding(LastPacket(s, v))
                = s.pending - Outstanding(s)
           /\ LastPacket(s, v).last
           /\ ~s.last => LastPacket(s, v).pending = s.pending + 1
           /\ s.last => LastPacket(s, v) = s
<1>1. CASE s.last
  BY <1>1 DEF LastPacket
<1>2. CASE ~s.last
  <2> DEFINE u == Started(s, v)
             l == TRUE
             t == [u EXCEPT !.last = l]
  <2>1. /\ u \in SockType /\ u.pending = s.pending + 1
        /\ Outstanding(u) = Outstanding(s) + 1
    BY StartedFacts
  <2>2. LastPacket(s, v) = t
    BY <1>2 DEF LastPacket
  <2>3. l \in BOOLEAN /\ l
    OBVIOUS
  <2> HIDE DEF u, l
  <2>4. /\ t \in SockType /\ t.last = l /\ t.pending = u.pending
        /\ Outstanding(t) = Outstanding(u)
    BY <2>1, <2>3, SetLast DEF Outstanding
  <2>5. Outstanding(s) \in Nat /\ s.pending \in Int
    BY OutstandingType DEF SockType
  <2>6. QED
    BY <1>2, <2>1, <2>2, <2>3, <2>4, <2>5
<1>3. QED
  BY <1>1, <1>2

LEMMA LastPacketEmptyFacts ==
    ASSUME NEW s \in SockType
    PROVE  /\ LastPacketEmpty(s) \in SockType
           /\ LastPacketEmpty(s).pending - Outstanding(LastPacketEmpty(s))
                = s.pending - Outstanding(s)
           /\ LastPacketEmpty(s).last
           /\ ~s.last => LastPacketEmpty(s).pending = s.pending + 1
           /\ s.last => LastPacketEmpty(s) = s
<1>1. CASE s.last
  BY <1>1 DEF LastPacketEmpty
<1>2. CASE ~s.last
  <2> DEFINE l == TRUE
             p == s.pending + 1
             k == s.ok + 1
             t == [s EXCEPT !.last = l, !.pending = p, !.ok = k]
  <2>1. /\ s.queue \in Seq(Write) /\ s.redo \in Seq(Write)
        /\ s.ok \in Nat /\ s.bad \in Nat /\ s.pending \in Int
    BY DEF SockType
  <2>2. LastPacketEmpty(s) = t
    BY <1>2 DEF LastPacketEmpty
  <2>3. l \in BOOLEAN /\ l /\ p \in Int /\ k \in Nat /\ p = s.pending + 1 /\ k = s.ok + 1
    BY <2>1
  <2> HIDE DEF l, p, k
  <2>4. t \in SockType /\ t.last = l /\ t.pending = p /\ t.ok = k
        /\ t.queue = s.queue /\ t.redo = s.redo /\ t.bad = s.bad
    BY <2>3 DEF SockType
  <2> HIDE DEF t
  <2>5. Outstanding(t) = Outstanding(s) + 1
    <3>1. Len(s.queue) \in Nat /\ Len(s.redo) \in Nat /\ s.ok \in Nat /\ s.bad \in Nat
      BY <2>1
    <3>2. PICK a \in Nat, b \in Nat, c \in Nat, d \in Nat :
            a = Len(s.queue) /\ b = Len(s.redo) /\ c = s.ok /\ d = s.bad
      BY <3>1
    <3>3. Outstanding(s) = a + b + c + d
      BY <3>2 DEF Outstanding
    <3>4. Outstanding(t) = a + b + (c + 1) + d
      BY <2>3, <2>4, <3>2 DEF Outstanding
    <3>5. QED
      BY <3>3, <3>4
  <2>6. Outstanding(s) \in Nat
    BY OutstandingType
  <2>7. t \in SockType /\ t.last /\ t.pending = s.pending + 1
    BY <2>3, <2>4
  <2>8. t.pending - Outstanding(t) = s.pending - Outstanding(s)
    <3>1. \A x, y \in Int : (x + 1) - (y + 1) = x - y
      OBVIOUS
    <3>2. s.pending \in Int /\ Outstanding(s) \in Int
      BY <2>1, <2>6
    <3>3. (s.pending + 1) - (Outstanding(s) + 1) = s.pending - Outstanding(s)
      BY <3>1, <3>2, Zenon
    <3>4. QED
      BY <2>5, <2>7, <3>3, Zenon
  <2>9. QED
    BY <1>2, <2>2, <2>7, <2>8, Zenon
<1>3. QED
  BY <1>1, <1>2

-----------------------------------------------------------------------------
(* The inductive invariant.  What ListedIsWatched leaves out, and its own  *)
(* preservation needs: the last packet of a listed client is among the     *)
(* writes pending, whether a read is outstanding or not.                   *)

Kept(s) ==
    /\ s.pending = Outstanding(s)
    /\ s.last => s.pending > 0
    /\ s.reading = "pending" \/ s.last

Dropped(s) == s.pending = 0 /\ Outstanding(s) = 0

Books ==
    \A c \in Client : /\ c \in clients => Kept(sock[c])
                      /\ c \notin clients => Dropped(sock[c])

IInv == TypeOK /\ Books

LEMMA BooksImply == IInv => PendingWritesExact /\ ListedIsWatched
<1> SUFFICES ASSUME IInv PROVE PendingWritesExact /\ ListedIsWatched
  OBVIOUS
<1>1. PendingWritesExact
  BY DEF IInv, Books, Kept, Dropped, PendingWritesExact, Outstanding
<1>2. ListedIsWatched
  BY DEF IInv, TypeOK, Books, Kept, ListedIsWatched
<1>3. QED
  BY <1>1, <1>2

(* One client changes, and only its own membership of the list with it.    *)
LEMMA OneClient ==
    ASSUME IInv, NEW c \in Client, NEW t \in SockType,
           sock' = [sock EXCEPT ![c] = t],
           clients' \subseteq Client,
           \A d \in Client : d # c => (d \in clients' <=> d \in clients),
           c \in clients' => Kept(t),
           c \notin clients' => Dropped(t)
    PROVE  sock' \in [Client -> SockType] /\ Books'
<1>1. sock \in [Client -> SockType] /\ Books
  BY DEF IInv, TypeOK
<1>2. sock' \in [Client -> SockType]
  BY <1>1
<1>3. \A d \in Client : sock'[d] = IF d = c THEN t ELSE sock[d]
  BY <1>1
<1>4. \A d \in Client : /\ d \in clients' => Kept(sock'[d])
                        /\ d \notin clients' => Dropped(sock'[d])
  <2>1. SUFFICES ASSUME NEW d \in Client
                 PROVE  /\ d \in clients' => Kept(sock'[d])
                        /\ d \notin clients' => Dropped(sock'[d])
    OBVIOUS
  <2>2. CASE d = c
    BY <1>3, <2>2
  <2>3. CASE d # c
    BY <1>1, <1>3, <2>3 DEF Books
  <2>4. QED
    BY <2>2, <2>3
<1>5. QED
  BY <1>2, <1>4 DEF Books

-----------------------------------------------------------------------------
(* What the handlers do to the client they are about.                      *)

(* The handler of a read: no read is outstanding any more. *)
LEMMA ReadDone ==
    ASSUME NEW s \in SockType
    PROVE  LET t == [s EXCEPT !.reading = "none"]
           IN  /\ t \in SockType
               /\ t.pending = s.pending /\ Outstanding(t) = Outstanding(s)
               /\ t.last = s.last /\ t.upgraded = s.upgraded
               /\ t.reading = "none"
<1> DEFINE r == "none"
           t == [s EXCEPT !.reading = r]
<1>1. r \in Reading /\ r = "none"
  BY DEF Reading
<1> HIDE DEF r
<1>2. /\ t \in SockType
      /\ t.reading = r
      /\ t.queue = s.queue /\ t.pending = s.pending
      /\ t.redo = s.redo /\ t.ok = s.ok /\ t.bad = s.bad
      /\ t.last = s.last /\ t.upgraded = s.upgraded
  BY <1>1, SetReading
<1>3. Outstanding(t) = Outstanding(s)
  BY <1>2 DEF Outstanding
<1>4. QED
  BY <1>1, <1>2, <1>3

LEMMA LastPacketKeeps ==
    ASSUME NEW s \in SockType, NEW v \in Version, s.pending = Outstanding(s),
           s.last => s.pending > 0
    PROVE  LastPacket(s, v) \in SockType /\ Kept(LastPacket(s, v))
<1>1. Outstanding(s) \in Nat
  BY OutstandingType
<1>2. LastPacket(s, v) \in SockType
  BY LastPacketFacts
<1>3. Outstanding(LastPacket(s, v)) \in Nat /\ LastPacket(s, v).pending \in Int
  BY <1>2, OutstandingType DEF SockType
<1>4. LastPacket(s, v).pending = Outstanding(LastPacket(s, v))
  BY <1>1, <1>3, LastPacketFacts
<1>5. LastPacket(s, v).pending > 0
  <2>1. CASE s.last
    BY <2>1, LastPacketFacts
  <2>2. CASE ~s.last
    BY <1>1, <2>2, LastPacketFacts
  <2>3. QED
    BY <2>1, <2>2
<1>6. LastPacket(s, v).last
  BY LastPacketFacts
<1>7. QED
  BY <1>2, <1>4, <1>5, <1>6 DEF Kept

LEMMA LastPacketEmptyKeeps ==
    ASSUME NEW s \in SockType, s.pending = Outstanding(s),
           s.last => s.pending > 0
    PROVE  LastPacketEmpty(s) \in SockType /\ Kept(LastPacketEmpty(s))
<1>1. Outstanding(s) \in Nat
  BY OutstandingType
<1>2. LastPacketEmpty(s) \in SockType
  BY LastPacketEmptyFacts
<1>3. Outstanding(LastPacketEmpty(s)) \in Nat /\ LastPacketEmpty(s).pending \in Int
  BY <1>2, OutstandingType DEF SockType
<1>4. LastPacketEmpty(s).pending = Outstanding(LastPacketEmpty(s))
  BY <1>1, <1>3, LastPacketEmptyFacts
<1>5. LastPacketEmpty(s).pending > 0
  <2>1. CASE s.last
    BY <2>1, LastPacketEmptyFacts
  <2>2. CASE ~s.last
    BY <1>1, <2>2, LastPacketEmptyFacts
  <2>3. QED
    BY <2>1, <2>2
<1>6. LastPacketEmpty(s).last
  BY LastPacketEmptyFacts
<1>7. QED
  BY <1>2, <1>4, <1>5, <1>6 DEF Kept

(* onSend: one more write, of a client that has no last packet. *)
LEMMA SendKeeps ==
    ASSUME NEW s \in SockType, NEW v \in Version, Kept(s)
    PROVE  /\ [Started(s, v) EXCEPT !.heard = v] \in SockType
           /\ Kept([Started(s, v) EXCEPT !.heard = v])
<1> DEFINE u == Started(s, v)
           t == [u EXCEPT !.heard = v]
<1>1. /\ u \in SockType /\ u.pending = s.pending + 1
      /\ Outstanding(u) = Outstanding(s) + 1
      /\ u.last = s.last /\ u.reading = s.reading
  BY StartedFacts
<1> HIDE DEF u
<1>2. /\ t \in SockType
      /\ t.queue = u.queue /\ t.pending = u.pending
      /\ t.redo = u.redo /\ t.ok = u.ok /\ t.bad = u.bad
      /\ t.last = u.last /\ t.reading = u.reading
  BY <1>1, SetHeard
<1> HIDE DEF t
<1>3. Outstanding(t) = Outstanding(u)
  BY <1>2 DEF Outstanding
<1>4. Outstanding(s) \in Nat
  BY OutstandingType
<1>5. t \in SockType /\ Kept(t)
  BY <1>1, <1>2, <1>3, <1>4 DEF Kept
<1>6. QED
  BY <1>5 DEF t, u

(* The handshake. *)
LEMMA UpgradeKeeps ==
    ASSUME NEW s \in SockType, NEW v \in Version, Kept(s)
    PROVE  /\ [Started(s, v) EXCEPT !.upgraded = TRUE, !.heard = v] \in SockType
           /\ Kept([Started(s, v) EXCEPT !.upgraded = TRUE, !.heard = v])
<1> DEFINE u == Started(s, v)
           b == TRUE
           t == [u EXCEPT !.upgraded = b, !.heard = v]
<1>1. /\ u \in SockType /\ u.pending = s.pending + 1
      /\ Outstanding(u) = Outstanding(s) + 1
      /\ u.last = s.last /\ u.reading = s.reading
  BY StartedFacts
<1>2. b \in BOOLEAN
  OBVIOUS
<1> HIDE DEF u, b
<1>3. /\ t \in SockType
      /\ t.queue = u.queue /\ t.pending = u.pending
      /\ t.redo = u.redo /\ t.ok = u.ok /\ t.bad = u.bad
      /\ t.last = u.last /\ t.reading = u.reading
  BY <1>1, <1>2 DEF SockType
<1> HIDE DEF t
<1>4. Outstanding(t) = Outstanding(u)
  BY <1>3 DEF Outstanding
<1>5. Outstanding(s) \in Nat
  BY OutstandingType
<1>6. t \in SockType /\ Kept(t)
  BY <1>1, <1>3, <1>4, <1>5 DEF Kept
<1>7. QED
  BY <1>6 DEF t, u, b

(* The socket takes some of the write in front; it counts as before, in    *)
(* line between two pieces or as a completion.                             *)
LEMMA TakesKeeps ==
    ASSUME NEW s \in SockType, NEW t \in SockType,
           Len(s.queue) = Len(t.queue) + 1, t.bad = s.bad,
           \/ Len(t.redo) = Len(s.redo) + 1 /\ t.ok = s.ok
           \/ Len(t.redo) = Len(s.redo) /\ t.ok = s.ok + 1
    PROVE  Outstanding(t) = Outstanding(s)
<1>1. /\ t.queue \in Seq(Write) /\ s.redo \in Seq(Write)
      /\ s.ok \in Nat /\ s.bad \in Nat
  BY DEF SockType
<1>2. Len(t.queue) \in Nat /\ Len(s.redo) \in Nat
  BY <1>1
<1>3. PICK x \in Nat, y \in Nat, z \in Nat, w \in Nat :
        x = Len(t.queue) /\ y = Len(s.redo) /\ z = s.ok /\ w = s.bad
  BY <1>1, <1>2
<1>4. Outstanding(s) = (x + 1) + y + z + w
  BY <1>3 DEF Outstanding
<1>5. CASE Len(t.redo) = Len(s.redo) + 1 /\ t.ok = s.ok
  <2>1. Outstanding(t) = x + (y + 1) + z + w
    BY <1>3, <1>5 DEF Outstanding
  <2>2. QED
    BY <1>4, <2>1
<1>6. CASE Len(t.redo) = Len(s.redo) /\ t.ok = s.ok + 1
  <2>1. Outstanding(t) = x + y + (z + 1) + w
    BY <1>3, <1>6 DEF Outstanding
  <2>2. QED
    BY <1>4, <2>1
<1>7. QED
  BY <1>5, <1>6

LEMMA RefusesKeeps ==
    ASSUME NEW s \in SockType, s.queue # <<>>
    PROVE  LET t == [s EXCEPT !.queue = Tail(@), !.bad = @ + 1]
           IN  /\ t \in SockType
               /\ Outstanding(t) = Outstanding(s)
               /\ t.pending = s.pending /\ t.last = s.last /\ t.reading = s.reading
<1> DEFINE q == Tail(s.queue)
           n == s.bad + 1
           t == [s EXCEPT !.queue = q, !.bad = n]
<1>1. /\ s.queue \in Seq(Write) /\ s.redo \in Seq(Write)
      /\ s.ok \in Nat /\ s.bad \in Nat
  BY DEF SockType
<1>2. /\ q \in Seq(Write) /\ Len(s.queue) = Len(q) + 1 /\ Len(q) \in Nat
      /\ Len(s.redo) \in Nat /\ n \in Nat /\ n = s.bad + 1
  BY <1>1
<1> HIDE DEF q, n
<1>3. /\ t \in SockType
      /\ t.queue = q /\ t.bad = n
      /\ t.redo = s.redo /\ t.ok = s.ok /\ t.pending = s.pending
      /\ t.last = s.last /\ t.reading = s.reading
  BY <1>2 DEF SockType
<1> HIDE DEF t
<1>4. Outstanding(t) = Outstanding(s)
  <2>1. PICK x \in Nat, y \in Nat, z \in Nat, w \in Nat :
          x = Len(q) /\ y = Len(s.redo) /\ z = s.ok /\ w = s.bad
    BY <1>1, <1>2
  <2>2. Outstanding(s) = (x + 1) + y + z + w
    BY <1>2, <2>1 DEF Outstanding
  <2>3. Outstanding(t) = x + y + z + (w + 1)
    BY <1>2, <1>3, <2>1 DEF Outstanding
  <2>4. QED
    BY <2>2, <2>3
<1>5. QED
  BY <1>3, <1>4 DEF t, q, n

LEMMA GoesOnKeeps ==
    ASSUME NEW s \in SockType, s.redo # <<>>
    PROVE  LET t == [s EXCEPT !.queue = Append(@, Head(s.redo)), !.redo = Tail(@)]
           IN  /\ t \in SockType
               /\ Outstanding(t) = Outstanding(s)
               /\ t.pending = s.pending /\ t.last = s.last /\ t.reading = s.reading
<1> DEFINE q == Append(s.queue, Head(s.redo))
           d == Tail(s.redo)
           t == [s EXCEPT !.queue = q, !.redo = d]
<1>1. /\ s.queue \in Seq(Write) /\ s.redo \in Seq(Write)
      /\ s.ok \in Nat /\ s.bad \in Nat
  BY DEF SockType
<1>2. /\ q \in Seq(Write) /\ Len(q) = Len(s.queue) + 1 /\ Len(s.queue) \in Nat
  BY <1>1
<1>3. /\ d \in Seq(Write) /\ Len(s.redo) = Len(d) + 1 /\ Len(d) \in Nat
  BY <1>1
<1> HIDE DEF q, d
<1>4. /\ t \in SockType
      /\ t.queue = q /\ t.redo = d
      /\ t.bad = s.bad /\ t.ok = s.ok /\ t.pending = s.pending
      /\ t.last = s.last /\ t.reading = s.reading
  BY <1>2, <1>3 DEF SockType
<1> HIDE DEF t
<1>5. Outstanding(t) = Outstanding(s)
  <2>1. PICK x \in Nat, y \in Nat, z \in Nat, w \in Nat :
          x = Len(s.queue) /\ y = Len(d) /\ z = s.ok /\ w = s.bad
    BY <1>1, <1>2, <1>3
  <2>2. Outstanding(s) = x + (y + 1) + z + w
    BY <1>3, <2>1 DEF Outstanding
  <2>3. Outstanding(t) = (x + 1) + y + z + w
    BY <1>2, <1>4, <2>1 DEF Outstanding
  <2>4. QED
    BY <2>2, <2>3
<1>6. QED
  BY <1>4, <1>5 DEF t, q, d

(* A completion's handler has been run. *)
LEMMA FailureCounts ==
    ASSUME NEW s \in SockType, s.bad > 0
    PROVE  LET t == [s EXCEPT !.bad = @ - 1, !.pending = @ - 1]
           IN  /\ t \in SockType
               /\ Outstanding(s) = Outstanding(t) + 1
               /\ t.pending = s.pending - 1 /\ t.last = s.last /\ t.reading = s.reading
<1> DEFINE n == s.bad - 1
           p == s.pending - 1
           t == [s EXCEPT !.bad = n, !.pending = p]
<1>1. /\ s.queue \in Seq(Write) /\ s.redo \in Seq(Write)
      /\ s.ok \in Nat /\ s.bad \in Nat /\ s.pending \in Int
  BY DEF SockType
<1>2. n \in Nat /\ s.bad = n + 1 /\ p \in Int /\ p = s.pending - 1
  BY <1>1
<1> HIDE DEF n, p
<1>3. /\ t \in SockType
      /\ t.bad = n /\ t.pending = p
      /\ t.queue = s.queue /\ t.redo = s.redo /\ t.ok = s.ok
      /\ t.last = s.last /\ t.reading = s.reading
  BY <1>2 DEF SockType
<1> HIDE DEF t
<1>4. Outstanding(s) = Outstanding(t) + 1
  <2>1. PICK x \in Nat, y \in Nat, z \in Nat, w \in Nat :
          x = Len(s.queue) /\ y = Len(s.redo) /\ z = s.ok /\ w = n
    BY <1>1, <1>2
  <2>2. Outstanding(s) = x + y + z + (w + 1)
    BY <1>2, <2>1 DEF Outstanding
  <2>3. Outstanding(t) = x + y + z + w
    BY <1>3, <2>1 DEF Outstanding
  <2>4. QED
    BY <2>2, <2>3
<1>5. QED
  BY <1>2, <1>3, <1>4 DEF t, n, p

LEMMA SuccessCounts ==
    ASSUME NEW s \in SockType, s.ok > 0
    PROVE  LET t == [s EXCEPT !.ok = @ - 1, !.pending = @ - 1]
           IN  /\ t \in SockType
               /\ Outstanding(s) = Outstanding(t) + 1
               /\ t.pending = s.pending - 1 /\ t.last = s.last /\ t.reading = s.reading
<1> DEFINE n == s.ok - 1
           p == s.pending - 1
           t == [s EXCEPT !.ok = n, !.pending = p]
<1>1. /\ s.queue \in Seq(Write) /\ s.redo \in Seq(Write)
      /\ s.ok \in Nat /\ s.bad \in Nat /\ s.pending \in Int
  BY DEF SockType
<1>2. n \in Nat /\ s.ok = n + 1 /\ p \in Int /\ p = s.pending - 1
  BY <1>1
<1> HIDE DEF n, p
<1>3. /\ t \in SockType
      /\ t.ok = n /\ t.pending = p
      /\ t.queue = s.queue /\ t.redo = s.redo /\ t.bad = s.bad
      /\ t.last = s.last /\ t.reading = s.reading
  BY <1>2 DEF SockType
<1> HIDE DEF t
<1>4. Outstanding(s) = Outstanding(t) + 1
  <2>1. PICK x \in Nat, y \in Nat, z \in Nat, w \in Nat :
          x = Len(s.queue) /\ y = Len(s.redo) /\ z = n /\ w = s.bad
    <3>1. Len(s.queue) \in Nat /\ Len(s.redo) \in Nat /\ n \in Nat /\ s.bad \in Nat
      BY <1>1, <1>2
    <3>2. QED
      BY <3>1
  <2>2. Outstanding(s) = x + y + (z + 1) + w
    BY <1>2, <2>1 DEF Outstanding
  <2>3. Outstanding(t) = x + y + z + w
    BY <1>3, <2>1 DEF Outstanding
  <2>4. QED
    BY <2>2, <2>3
<1>5. QED
  BY <1>2, <1>3, <1>4 DEF t, n, p

-----------------------------------------------------------------------------
(* The invariant, action by action: first the main thread and the handlers *)
(* it posts.                                                               *)

LEMMA InitIInv == Init => IInv
<1> SUFFICES ASSUME Init PROVE IInv
  OBVIOUS
<1>1. TypeOK
  <2>1. 0 \in Version /\ <<>> \in Seq(Task)
    BY PushServerAssumption DEF Version
  <2>2. sock \in [Client -> SockType]
    BY NewSockFacts DEF Init
  <2>3. crashed \in BOOLEAN
    BY DEF Init
  <2>4. QED
    BY <2>1, <2>2, <2>3 DEF Init, TypeOK
<1>2. Books
  <2>1. \A c \in Client : sock[c] = NewSock /\ c \notin clients
    BY DEF Init
  <2>2. QED
    BY <2>1, NewSockFacts DEF Books, Dropped
<1>3. QED
  BY <1>1, <1>2 DEF IInv

LEMMA MainThreadKeeps == IInv /\ MainThread => IInv'
<1> SUFFICES ASSUME IInv, MainThread PROVE IInv'
  OBVIOUS
<1> USE DEF IInv
<1>1. UNCHANGED <<clients, sock, crashed>>
  BY DEF MainThread, ConstructorReturns, FirstDictionary, ChangeDictionary, Destroy
<1>2. Books'
  BY <1>1 DEF Books
<1>3. /\ limit' \in {MaxClients} \cup GarbageLimits
      /\ life' \in {"ctor", "started", "open", "closing", "gone"}
  BY DEF MainThread, ConstructorReturns, FirstDictionary, ChangeDictionary, Destroy, TypeOK
<1>4. published' \in Version /\ welcome' \in Version
  BY PushServerAssumption
     DEF MainThread, ConstructorReturns, FirstDictionary, ChangeDictionary, Destroy,
         TypeOK, Version
<1>5. tasks' \in Seq(Task)
  <2>1. tasks \in Seq(Task) /\ published \in Version
    BY DEF TypeOK
  <2>2. CASE ConstructorReturns
    BY <2>1, <2>2 DEF ConstructorReturns
  <2>3. CASE FirstDictionary
    <3>1. [kind |-> "welcome", v |-> 1] \in Task
      BY <2>1, <2>3, PushServerAssumption DEF FirstDictionary, Task, Version
    <3>2. QED
      BY <2>1, <2>3, <3>1 DEF FirstDictionary
  <2>4. CASE ChangeDictionary
    <3>1. published + 1 \in Version
      BY <2>1, <2>4, PushServerAssumption DEF ChangeDictionary, Version
    <3>2. /\ [kind |-> "welcome", v |-> published + 1] \in Task
          /\ [kind |-> "send", v |-> published + 1] \in Task
      BY <3>1 DEF Task
    <3>3. << [kind |-> "welcome", v |-> published + 1],
             [kind |-> "send", v |-> published + 1] >> \in Seq(Task)
      BY <3>2
    <3>4. QED
      BY <2>1, <2>4, <3>3 DEF ChangeDictionary
  <2>5. CASE Destroy
    <3>1. [kind |-> "close", v |-> 0] \in Task
      BY PushServerAssumption DEF Task, Version
    <3>2. QED
      BY <2>1, <2>5, <3>1 DEF Destroy
  <2>6. QED
    BY <2>2, <2>3, <2>4, <2>5 DEF MainThread
<1>6. QED
  BY <1>1, <1>2, <1>3, <1>4, <1>5 DEF TypeOK

LEMMA TaskFacts ==
    ASSUME IInv, NEW kind, NextTask(kind)
    PROVE  tasks' \in Seq(Task) /\ Head(tasks).v \in Version
<1>1. tasks \in Seq(Task) /\ tasks # <<>>
  BY DEF IInv, TypeOK, NextTask
<1>2. Head(tasks) \in Task
  BY <1>1
<1>3. tasks' = Tail(tasks)
  BY DEF NextTask
<1>4. QED
  BY <1>1, <1>2, <1>3 DEF Task

LEMMA RunTaskKeeps == IInv /\ RunTask => IInv'
<1> SUFFICES ASSUME IInv, RunTask PROVE IInv'
  OBVIOUS
<1>1. CASE OnWelcomeMessage
  <2>1. tasks' \in Seq(Task) /\ Head(tasks).v \in Version
    BY <1>1, TaskFacts DEF OnWelcomeMessage
  <2>2. UNCHANGED <<clients, sock>>
    BY <1>1 DEF OnWelcomeMessage
  <2>3. Books'
    BY <2>2 DEF IInv, Books
  <2>4. TypeOK'
    BY <1>1, <2>1 DEF OnWelcomeMessage, IInv, TypeOK
  <2>5. QED
    BY <2>3, <2>4 DEF IInv
<1>2. CASE OnSend
  <2> DEFINE v == Head(tasks).v
  <2>1. tasks' \in Seq(Task) /\ v \in Version
    BY <1>2, TaskFacts DEF OnSend
  <2>2. sock \in [Client -> SockType] /\ Books
    BY DEF IInv, TypeOK
  <2>3. sock' = [c \in Client |-> IF Listening(c)
                                  THEN [Started(sock[c], v) EXCEPT !.heard = v]
                                  ELSE sock[c]]
    BY <1>2 DEF OnSend
  <2> HIDE DEF v
  <2>4. ASSUME NEW c \in Client
        PROVE  /\ sock'[c] \in SockType
               /\ c \in clients => Kept(sock'[c])
               /\ c \notin clients => Dropped(sock'[c])
    <3>1. CASE Listening(c)
      <4>1. sock[c] \in SockType /\ c \in clients /\ Kept(sock[c])
        BY <2>2, <3>1 DEF Listening, Books
      <4>2. sock'[c] = [Started(sock[c], v) EXCEPT !.heard = v]
        BY <2>3, <3>1
      <4>3. QED
        BY <2>1, <4>1, <4>2, SendKeeps
    <3>2. CASE ~Listening(c)
      BY <2>2, <2>3, <3>2 DEF Books
    <3>3. QED
      BY <3>1, <3>2
  <2>5. UNCHANGED clients
    BY <1>2 DEF OnSend
  <2>6. Books'
    BY <2>4, <2>5 DEF Books
  <2>7. sock' \in [Client -> SockType]
    BY <2>3, <2>4
  <2>8. TypeOK'
    BY <1>2, <2>1, <2>7 DEF OnSend, IInv, TypeOK
  <2>9. QED
    BY <2>6, <2>8 DEF IInv
<1>3. CASE OnClose
  <2>1. tasks' \in Seq(Task)
    BY <1>3, TaskFacts DEF OnClose
  <2>2. \A c \in Client : sock'[c] = NewSock /\ c \notin clients'
    BY <1>3 DEF OnClose
  <2>3. Books'
    BY <2>2, NewSockFacts DEF Books, Dropped
  <2>4. TypeOK'
    BY <1>3, <2>1, NewSockFacts DEF OnClose, IInv, TypeOK
  <2>5. QED
    BY <2>3, <2>4 DEF IInv
<1>4. QED
  BY <1>1, <1>2, <1>3 DEF RunTask

-----------------------------------------------------------------------------
(* The completions of accepts and reads.                                   *)

(* The variables a completion leaves alone. *)
Others == <<life, limit, published, tasks, welcome>>

LEMMA OneClientKeeps ==
    ASSUME IInv, UNCHANGED Others, crashed' \in BOOLEAN,
           NEW c \in Client, NEW t \in SockType,
           sock' = [sock EXCEPT ![c] = t],
           clients' \subseteq Client,
           \A d \in Client : d # c => (d \in clients' <=> d \in clients),
           c \in clients' => Kept(t),
           c \notin clients' => Dropped(t)
    PROVE  IInv'
<1>1. sock' \in [Client -> SockType] /\ Books'
  BY OneClient
<1>2. TypeOK'
  BY <1>1 DEF IInv, TypeOK, Others
<1>3. QED
  BY <1>1, <1>2 DEF IInv

LEMMA ListedFacts ==
    ASSUME IInv, NEW c \in clients
    PROVE  /\ c \in Client /\ sock[c] \in SockType /\ Kept(sock[c])
           /\ [sock[c] EXCEPT !.reading = "none"] \in SockType
           /\ LET t == [sock[c] EXCEPT !.reading = "none"]
              IN  t.pending = Outstanding(t) /\ (t.last => t.pending > 0)
<1>1. c \in Client /\ sock[c] \in SockType /\ Kept(sock[c])
  BY DEF IInv, TypeOK, Books
<1>2. QED
  BY <1>1, ReadDone DEF Kept

LEMMA ReadsKeep == ASSUME IInv, NEW c \in Client, Reads(c) PROVE IInv'
<1> USE DEF Others
<1>1. CASE OnConnect(c)
  <2> DEFINE r == "pending"
             t == [NewSock EXCEPT !.reading = r]
  <2>1. r \in Reading /\ r = "pending"
    BY DEF Reading
  <2> HIDE DEF r
  <2>2. /\ t \in SockType
        /\ t.reading = r
        /\ t.queue = NewSock.queue /\ t.pending = NewSock.pending
        /\ t.redo = NewSock.redo /\ t.ok = NewSock.ok /\ t.bad = NewSock.bad
        /\ t.last = NewSock.last
    BY <2>1, NewSockFacts, SetReading
  <2>3. Outstanding(t) = 0
    BY <2>2, NewSockFacts DEF Outstanding
  <2>4. Kept(t)
    BY <2>1, <2>2, <2>3, NewSockFacts DEF Kept
  <2>5. clients' = clients \cup {c} /\ sock' = [sock EXCEPT ![c] = t]
    BY <1>1 DEF OnConnect, r
  <2>6. clients \subseteq Client /\ crashed' \in BOOLEAN /\ UNCHANGED Others
    BY <1>1 DEF OnConnect, IInv, TypeOK
  <2> HIDE DEF t
  <2>7. QED
    BY <2>2, <2>4, <2>5, <2>6, OneClientKeeps
<1>2. CASE OnClientLeaves(c)
  <2> DEFINE s == [sock[c] EXCEPT !.reading = "none"]
             t == LastPacketEmpty(s)
  <2>1. c \in clients
    BY <1>2 DEF OnClientLeaves, ReadCompletes
  <2>2. t \in SockType /\ Kept(t)
    BY <2>1, ListedFacts, LastPacketEmptyKeeps
  <2>3. clients' = clients /\ sock' = [sock EXCEPT ![c] = t]
    BY <1>2 DEF OnClientLeaves, IInv, TypeOK
  <2>4. clients \subseteq Client /\ crashed' \in BOOLEAN /\ UNCHANGED Others
    BY <1>2 DEF OnClientLeaves, IInv, TypeOK
  <2> HIDE DEF t
  <2>5. QED
    BY <2>1, <2>2, <2>3, <2>4, OneClientKeeps
<1>3. CASE OnBadRequest(c)
  <2> DEFINE s == [sock[c] EXCEPT !.reading = "none"]
             t == LastPacket(s, 0)
  <2>1. c \in clients /\ 0 \in Version
    BY <1>3, PushServerAssumption DEF OnBadRequest, ReadCompletes, Version
  <2>2. t \in SockType /\ Kept(t)
    BY <2>1, ListedFacts, LastPacketKeeps
  <2>3. clients' = clients /\ sock' = [sock EXCEPT ![c] = t]
    BY <1>3 DEF OnBadRequest, IInv, TypeOK
  <2>4. clients \subseteq Client /\ crashed' \in BOOLEAN /\ UNCHANGED Others
    BY <1>3 DEF OnBadRequest, IInv, TypeOK
  <2> HIDE DEF t
  <2>5. QED
    BY <2>1, <2>2, <2>3, <2>4, OneClientKeeps
<1>4. CASE OnGet(c)
  <2> DEFINE s == [sock[c] EXCEPT !.reading = "none"]
             t == LastPacket(s, welcome)
  <2>1. c \in clients /\ welcome \in Version
    BY <1>4 DEF OnGet, ReadCompletes, IInv, TypeOK
  <2>2. t \in SockType /\ Kept(t)
    BY <2>1, ListedFacts, LastPacketKeeps
  <2>3. clients' = clients /\ sock' = [sock EXCEPT ![c] = t]
    BY <1>4 DEF OnGet, IInv, TypeOK
  <2>4. clients \subseteq Client /\ UNCHANGED Others
    BY <1>4 DEF OnGet, IInv, TypeOK
  <2>5. crashed' \in BOOLEAN
    BY <1>4 DEF OnGet
  <2> HIDE DEF t
  <2>6. QED
    BY <2>1, <2>2, <2>3, <2>4, <2>5, OneClientKeeps
<1>5. CASE OnUpgrade(c)
  <2> DEFINE t == [Started(sock[c], welcome) EXCEPT !.upgraded = TRUE, !.heard = welcome]
  <2>1. c \in clients /\ welcome \in Version
    BY <1>5 DEF OnUpgrade, ReadCompletes, IInv, TypeOK
  <2>2. t \in SockType /\ Kept(t)
    BY <2>1, ListedFacts, UpgradeKeeps
  <2>3. clients' = clients /\ sock' = [sock EXCEPT ![c] = t]
    BY <1>5 DEF OnUpgrade, IInv, TypeOK
  <2>4. clients \subseteq Client /\ crashed' \in BOOLEAN /\ UNCHANGED Others
    BY <1>5 DEF OnUpgrade, IInv, TypeOK
  <2> HIDE DEF t
  <2>5. QED
    BY <2>1, <2>2, <2>3, <2>4, OneClientKeeps
<1>6. CASE OnStaleRead(c)
  <2> DEFINE t == [sock[c] EXCEPT !.reading = "none"]
             quiet == [sock EXCEPT ![c] = t]
  <2>1. c \notin clients /\ sock[c] \in SockType /\ Dropped(sock[c])
    BY <1>6 DEF OnStaleRead, IInv, TypeOK, Books
  <2>2. t \in SockType /\ Dropped(t)
    BY <2>1, ReadDone DEF Dropped
  <2>3. /\ clients' = clients /\ clients \subseteq Client /\ UNCHANGED Others
        /\ crashed \in BOOLEAN
    BY <1>6 DEF OnStaleRead, IInv, TypeOK
  <2>4. \/ sock' = quiet /\ crashed' \in BOOLEAN
        \/ \E d \in clients :
             sock' = [quiet EXCEPT ![d] = LastPacketEmpty(@)] /\ crashed' \in BOOLEAN
    BY <1>6, <2>3 DEF OnStaleRead, IInv, TypeOK
  <2>5. CASE sock' = quiet /\ crashed' \in BOOLEAN
    <3> HIDE DEF t
    <3>1. QED
      BY <2>1, <2>2, <2>3, <2>5, OneClientKeeps
  <2>6. ASSUME NEW d \in clients,
               sock' = [quiet EXCEPT ![d] = LastPacketEmpty(@)], crashed' \in BOOLEAN
        PROVE  IInv'
    <3>1. d # c /\ d \in Client /\ sock[d] \in SockType /\ Kept(sock[d])
      BY <2>1, ListedFacts
    <3>2. LastPacketEmpty(sock[d]) \in SockType /\ Kept(LastPacketEmpty(sock[d]))
      BY <3>1, LastPacketEmptyKeeps DEF Kept
    <3> HIDE DEF t
    <3>3. sock \in [Client -> SockType] /\ Books
      BY DEF IInv, TypeOK
    <3>4. \A e \in Client : sock'[e] = IF e = d THEN LastPacketEmpty(sock[d])
                                       ELSE IF e = c THEN t ELSE sock[e]
      BY <2>6, <3>1, <3>3
    <3>5. sock' \in [Client -> SockType]
      BY <2>2, <2>6, <3>1, <3>2, <3>3
    <3>6. Books'
      BY <2>1, <2>2, <2>3, <3>2, <3>3, <3>4 DEF Books
    <3>7. QED
      BY <2>3, <2>6, <3>5, <3>6 DEF IInv, TypeOK
  <2>7. QED
    BY <2>4, <2>5, <2>6
<1>7. QED
  BY <1>1, <1>2, <1>3, <1>4, <1>5, <1>6 DEF Reads

-----------------------------------------------------------------------------
(* What asio does with the writes, and their completion.                   *)

(* A change that moves a write from one place to another. *)
LEMMA MoveKeeps ==
    ASSUME IInv, UNCHANGED Others, crashed' = crashed, clients' = clients,
           NEW c \in Client, NEW t \in SockType,
           sock' = [sock EXCEPT ![c] = t],
           Outstanding(t) = Outstanding(sock[c]),
           t.pending = sock[c].pending, t.last = sock[c].last,
           t.reading = sock[c].reading
    PROVE  IInv'
<1>1. clients \subseteq Client /\ crashed \in BOOLEAN /\ Books
  BY DEF IInv, TypeOK
<1>2. c \in clients => Kept(t)
  BY <1>1 DEF Books, Kept
<1>3. c \notin clients => Dropped(t)
  BY <1>1 DEF Books, Dropped
<1>4. QED
  BY <1>1, <1>2, <1>3, OneClientKeeps

LEMMA SocketAnswersKeep == ASSUME IInv, NEW c \in Client, SocketAnswers(c) PROVE IInv'
<1> USE DEF Others
<1>1. sock[c] \in SockType
  BY DEF IInv, TypeOK
<1>2. CASE SocketRefuses(c)
  <2> DEFINE t == [sock[c] EXCEPT !.queue = Tail(@), !.bad = @ + 1]
  <2>1. /\ sock[c].queue # <<>>
        /\ UNCHANGED Others /\ crashed' = crashed /\ clients' = clients
    BY <1>2 DEF SocketRefuses
  <2>2. sock' = [sock EXCEPT ![c] = t]
    BY <1>2 DEF SocketRefuses, IInv, TypeOK
  <2>3. /\ t \in SockType
        /\ Outstanding(t) = Outstanding(sock[c])
        /\ t.pending = sock[c].pending /\ t.last = sock[c].last
        /\ t.reading = sock[c].reading
    BY <1>1, <2>1, RefusesKeeps
  <2> HIDE DEF t
  <2>4. QED
    BY <2>1, <2>2, <2>3, MoveKeeps
<1>3. ASSUME NEW n \in 1 .. Pieces, SocketTakes(c, n) PROVE IInv'
  <2> DEFINE s == sock[c]
             w == Head(s.queue)
             rest == [w EXCEPT !.left = @ - n]
             others == s.redo \o Tail(s.queue)
             q == Tail(s.queue)
             d == IF n < w.left THEN Append(s.redo, rest) ELSE s.redo
             k == IF n < w.left THEN s.ok ELSE s.ok + 1
             b == s.torn \/ \E i \in DOMAIN others : PartWritten(others[i])
             t == [s EXCEPT !.queue = q, !.redo = d, !.ok = k, !.torn = b]
  <2>1. /\ s.queue # <<>> /\ n \in 1 .. w.left
        /\ UNCHANGED Others /\ crashed' = crashed /\ clients' = clients
    BY <1>3 DEF SocketTakes
  <2>2. sock' = [sock EXCEPT ![c] = t]
    BY <1>3 DEF SocketTakes
  <2>3. /\ s.queue \in Seq(Write) /\ s.redo \in Seq(Write)
        /\ s.ok \in Nat /\ s.torn \in BOOLEAN
    BY <1>1 DEF SockType
  <2>4. q \in Seq(Write) /\ w \in Write
    BY <2>1, <2>3
  <2>5. /\ d \in Seq(Write) /\ k \in Nat
        /\ \/ Len(d) = Len(s.redo) + 1 /\ k = s.ok
           \/ Len(d) = Len(s.redo) /\ k = s.ok + 1
    <3>1. CASE n < w.left
      <4>1. w.v \in Version /\ w.left \in 1 .. Pieces
        BY <2>4 DEF Write
      <4>2. w.left - n \in 1 .. Pieces
        <5> HIDE DEF w
        <5>1. QED
          BY <2>1, <3>1, <4>1, PushServerAssumption
      <4>3. rest \in Write
        BY <2>4, <4>2 DEF Write
      <4> HIDE DEF rest, w, s
      <4>4. QED
        BY <2>3, <3>1, <4>3
    <3>2. CASE ~(n < w.left)
      <4> HIDE DEF rest, w, s
      <4>1. QED
        BY <2>3, <3>2
    <3>3. QED
      BY <3>1, <3>2
  <2>6. b \in BOOLEAN
    OBVIOUS
  <2>7. s \in SockType /\ q \in Seq(Write) /\ Len(s.queue) = Len(q) + 1
    BY <1>1, <2>1, <2>3
  <2>8. t = [s EXCEPT !.queue = q, !.redo = d, !.ok = k, !.torn = b]
    OBVIOUS
  <2> HIDE DEF s, q, d, k, b, t
  <2>9. /\ t \in SockType
        /\ Outstanding(t) = Outstanding(s)
        /\ t.pending = s.pending /\ t.last = s.last /\ t.reading = s.reading
    <3>1. /\ t \in SockType
          /\ t.queue = q /\ t.redo = d /\ t.ok = k /\ t.bad = s.bad
          /\ t.pending = s.pending /\ t.last = s.last /\ t.reading = s.reading
      BY <2>7, <2>5, <2>6, <2>8 DEF SockType
    <3>2. Outstanding(t) = Outstanding(s)
      BY <2>7, <2>5, <3>1, TakesKeeps
    <3>3. QED
      BY <3>1, <3>2
  <2>10. QED
    BY <2>1, <2>2, <2>9, MoveKeeps DEF s
<1>4. QED
  BY <1>2, <1>3 DEF SocketAnswers

LEMMA CompletionKeeps ==
    ASSUME IInv, NEW c \in Client, NEW ec \in BOOLEAN, OnWriteCompleted(c, ec)
    PROVE  IInv'
<1> USE DEF Others
<1> DEFINE s == IF ec THEN [sock[c] EXCEPT !.bad = @ - 1, !.pending = @ - 1]
                      ELSE [sock[c] EXCEPT !.ok = @ - 1, !.pending = @ - 1]
           r == IF s.reading = "pending" THEN "stale" ELSE s.reading
           gone == [s EXCEPT !.reading = r]
<1>1. sock[c] \in SockType /\ Outstanding(sock[c]) \in Nat
  BY OutstandingType DEF IInv, TypeOK
<1>2. IF ec THEN sock[c].bad > 0 ELSE sock[c].ok > 0
  BY DEF OnWriteCompleted
<1>3. /\ s \in SockType /\ Outstanding(sock[c]) = Outstanding(s) + 1
      /\ s.pending = sock[c].pending - 1
      /\ s.last = sock[c].last /\ s.reading = sock[c].reading
  <2>1. CASE ec
    BY <1>1, <1>2, <2>1, FailureCounts
  <2>2. CASE ~ec
    BY <1>1, <1>2, <2>2, SuccessCounts
  <2>3. QED
    BY <2>1, <2>2
<1>4. Outstanding(s) \in Nat
  BY <1>3, OutstandingType
<1>5. c \in clients /\ Kept(sock[c])
  <2>1. Outstanding(sock[c]) # 0
    BY <1>1, <1>3, <1>4
  <2>2. QED
    BY <2>1 DEF IInv, Books, Dropped
<1>6. s.pending = Outstanding(s)
  BY <1>1, <1>3, <1>4, <1>5 DEF Kept
<1>7. clients \subseteq Client /\ crashed' \in BOOLEAN /\ UNCHANGED Others
  BY DEF OnWriteCompleted, IInv, TypeOK
<1>8. CASE s.last /\ s.pending <= 0
  <2>1. clients' = clients \ {c}
    BY <1>8 DEF OnWriteCompleted
  <2>2. sock' = [sock EXCEPT ![c] = gone]
    BY <1>8 DEF OnWriteCompleted
  <2>3. r \in Reading
    BY <1>3 DEF SockType, Reading
  <2>4. s.pending = 0
    <3> HIDE DEF s
    <3>1. QED
      BY <1>4, <1>6, <1>8
  <2> HIDE DEF s, r
  <2>5. /\ gone \in SockType /\ gone.pending = s.pending
        /\ gone.queue = s.queue /\ gone.redo = s.redo
        /\ gone.ok = s.ok /\ gone.bad = s.bad
    BY <1>3, <2>3, SetReading
  <2> HIDE DEF gone
  <2>6. Dropped(gone)
    BY <1>6, <2>4, <2>5 DEF Dropped, Outstanding
  <2>7. c \notin clients' /\ clients' \subseteq Client
    BY <1>7, <2>1
  <2>8. \A d \in Client : d # c => (d \in clients' <=> d \in clients)
    BY <2>1
  <2>9. QED
    BY <1>7, <2>2, <2>5, <2>6, <2>7, <2>8, OneClientKeeps
<1>9. CASE ~(s.last /\ s.pending <= 0) /\ ec
  <2> DEFINE t == LastPacketEmpty(s)
  <2>1. clients' = clients
    BY <1>9 DEF OnWriteCompleted
  <2>2. sock' = [sock EXCEPT ![c] = t]
    BY <1>9 DEF OnWriteCompleted
  <2> HIDE DEF s
  <2>3. s.last => s.pending > 0
    BY <1>4, <1>6, <1>9
  <2>4. t \in SockType /\ Kept(t)
    BY <1>3, <1>6, <2>3, LastPacketEmptyKeeps
  <2> HIDE DEF t
  <2>5. QED
    BY <1>5, <1>7, <2>1, <2>2, <2>4, OneClientKeeps
<1>10. CASE ~(s.last /\ s.pending <= 0) /\ ~ec
  <2>1. clients' = clients
    BY <1>10 DEF OnWriteCompleted
  <2>2. sock' = [sock EXCEPT ![c] = s]
    BY <1>10 DEF OnWriteCompleted
  <2> HIDE DEF s
  <2>3. s.last => s.pending > 0
    BY <1>4, <1>6, <1>10
  <2>4. Kept(s)
    BY <1>3, <1>5, <1>6, <2>3 DEF Kept
  <2>5. QED
    BY <1>3, <1>5, <1>7, <2>1, <2>2, <2>4, OneClientKeeps
<1>11. QED
  BY <1>8, <1>9, <1>10

LEMMA ThreadWritesKeep == ASSUME IInv, NEW c \in Client, ThreadWrites(c) PROVE IInv'
<1> USE DEF Others
<1>1. CASE WriteGoesOn(c)
  <2> DEFINE t == [sock[c] EXCEPT !.queue = Append(@, Head(sock[c].redo)), !.redo = Tail(@)]
  <2>1. /\ sock[c].redo # <<>> /\ sock[c] \in SockType
        /\ UNCHANGED Others /\ crashed' = crashed /\ clients' = clients
    BY <1>1 DEF WriteGoesOn, IInv, TypeOK
  <2>2. sock' = [sock EXCEPT ![c] = t]
    BY <1>1 DEF WriteGoesOn, IInv, TypeOK
  <2>3. /\ t \in SockType
        /\ Outstanding(t) = Outstanding(sock[c])
        /\ t.pending = sock[c].pending /\ t.last = sock[c].last
        /\ t.reading = sock[c].reading
    BY <2>1, GoesOnKeeps
  <2> HIDE DEF t
  <2>4. QED
    BY <2>1, <2>2, <2>3, MoveKeeps
<1>2. ASSUME NEW ec \in BOOLEAN, OnWriteCompleted(c, ec) PROVE IInv'
  BY <1>2, CompletionKeeps
<1>3. QED
  BY <1>1, <1>2 DEF ThreadWrites

-----------------------------------------------------------------------------
LEMMA NextKeepsIInv == IInv /\ [Next]_vars => IInv'
<1> SUFFICES ASSUME IInv, [Next]_vars PROVE IInv'
  OBVIOUS
<1>1. CASE MainThread
  BY <1>1, MainThreadKeeps
<1>2. CASE RunTask
  BY <1>2, RunTaskKeeps
<1>3. ASSUME NEW c \in Client, Reads(c) PROVE IInv'
  BY <1>3, ReadsKeep
<1>4. ASSUME NEW c \in Client, SocketAnswers(c) PROVE IInv'
  BY <1>4, SocketAnswersKeep
<1>5. ASSUME NEW c \in Client, ThreadWrites(c) PROVE IInv'
  BY <1>5, ThreadWritesKeep
<1>6. CASE UNCHANGED vars
  BY <1>6 DEF IInv, TypeOK, Books, vars
<1>7. QED
  BY <1>1, <1>2, <1>3, <1>4, <1>5, <1>6 DEF Next

LEMMA IInvAlways == Spec => []IInv
BY InitIInv, NextKeepsIInv, PTL DEF Spec

(* Every variable keeps its type: tasks carry real versions, a write has   *)
(* pieces left, the counters never leave their range.                      *)
THEOREM TypeCorrect == Spec => []TypeOK
<1>1. IInv => TypeOK
  BY DEF IInv
<1>2. QED
  BY <1>1, IInvAlways, PTL

(* pendingWrites counts the writes asio still has to complete, and a node  *)
(* that was erased has none: onWriteCompleted never names a node that is   *)
(* gone, however reads, sends and failing writes interleave.               *)
THEOREM PendingWritesAlwaysExact == Spec => []PendingWritesExact
BY BooksImply, IInvAlways, PTL

(* No node of the list is forgotten: a read watches its peer, or its last  *)
(* packet is on the way and the completion of that erases it.              *)
THEOREM ListedAlwaysWatched == Spec => []ListedIsWatched
BY BooksImply, IInvAlways, PTL
=============================================================================
