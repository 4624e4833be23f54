------------------------ MODULE PushServerFeed_proofs ------------------------
(***************************************************************************)
(* What the subscribers of PushServer hear, for every set of clients and   *)
(* any number of dictionaries: no update is missed, and the server         *)
(* implements the feed of StatusFeed.                                      *)
(***************************************************************************)
EXTENDS PushServer_proofs

(* Handlers are posted as welcome 1, welcome 2, send 2, welcome 3, send 3  *)
(* and so on, up to one close.  t is the last one of its dictionary:       *)
Completes(t) == t.kind = "send" \/ (t.kind = "welcome" /\ t.v = 1)

Follows(a, b) ==
    \/ a.kind = "welcome" /\ a.v > 1 /\ b.kind = "send" /\ b.v = a.v
    \/ Completes(a) /\ b.kind = "welcome" /\ b.v = a.v + 1
    \/ Completes(a) /\ b.kind = "close"

(* What may be first in line when welcomeWs holds version w: the handlers  *)
(* before it have run.                                                     *)
MayBeFirst(t, w) ==
    \/ t.kind = "welcome" /\ t.v = w + 1
    \/ t.kind = "send" /\ t.v = w
    \/ t.kind = "close"

(* What may be last in line when p is the version published last. *)
MayBeLast(t, p) == t.kind = "close" \/ (Completes(t) /\ t.v = p)

Chain(q) == \A i \in 1 .. Len(q) - 1 : Follows(q[i], q[i + 1])

(* The line of posted handlers, whatever of it has run already. *)
LineInv ==
    /\ Chain(tasks)
    /\ tasks # <<>> => /\ MayBeFirst(tasks[1], welcome)
                       /\ MayBeLast(tasks[Len(tasks)], published)
    /\ life \in {"ctor", "started"} => tasks = <<>> /\ published = 0 /\ welcome = 0
    /\ life = "open" =>
         /\ published > 0
         /\ IF tasks = <<>> THEN welcome = published
                            ELSE tasks[Len(tasks)].kind # "close"

FeedInv == IInv /\ LineInv /\ NoMissedUpdate

-----------------------------------------------------------------------------
(* The line, when it grows and when its first handler runs.                *)

LEMMA AppendLine ==
    ASSUME NEW q \in Seq(Task), NEW t \in Task, Chain(q),
           q # <<>> => Follows(q[Len(q)], t)
    PROVE  /\ Append(q, t) \in Seq(Task) /\ Append(q, t) # <<>>
           /\ Chain(Append(q, t))
           /\ Append(q, t)[Len(Append(q, t))] = t
           /\ q = <<>> => Append(q, t)[1] = t
           /\ q # <<>> => Append(q, t)[1] = q[1]
<1> DEFINE r == Append(q, t)
<1>1. /\ r \in Seq(Task) /\ Len(r) = Len(q) + 1 /\ Len(q) \in Nat
      /\ r[Len(r)] = t /\ r # <<>>
  <2>1. r \in Seq(Task) /\ Len(r) = Len(q) + 1 /\ Len(q) \in Nat
    OBVIOUS
  <2>2. r[Len(q) + 1] = t
    OBVIOUS
  <2>3. r # <<>>
    <3>1. Len(<<>>) = 0
      OBVIOUS
    <3> HIDE DEF r
    <3>2. QED
      BY <2>1, <3>1
  <2>4. QED
    BY <2>1, <2>2, <2>3
<1>2. \A i \in 1 .. Len(q) : r[i] = q[i]
  OBVIOUS
<1>3. q = <<>> => Len(q) = 0
  OBVIOUS
<1>4. ASSUME q # <<>> PROVE Len(q) \in 1 .. Len(q)
  <2>1. Len(q) = Len(Tail(q)) + 1 /\ Len(Tail(q)) \in Nat
    BY <1>4
  <2>2. QED
    BY <2>1
<1> HIDE DEF r
<1>5. ASSUME NEW i \in 1 .. Len(r) - 1 PROVE Follows(r[i], r[i + 1])
  <2>1. CASE i = Len(q)
    <3>1. q # <<>> /\ r[i] = q[Len(q)] /\ r[i + 1] = t
      BY <1>1, <1>2, <1>3, <1>5, <2>1
    <3>2. QED
      BY <3>1
  <2>2. CASE i # Len(q)
    <3>1. i \in 1 .. Len(q) - 1 /\ r[i] = q[i] /\ r[i + 1] = q[i + 1]
      BY <1>1, <1>2, <1>5, <2>2
    <3>2. QED
      BY <3>1 DEF Chain
  <2>3. QED
    BY <2>1, <2>2
<1>6. Chain(r)
  BY <1>5 DEF Chain
<1>7. q # <<>> => r[1] = q[1]
  BY <1>1, <1>2, <1>4
<1>8. q = <<>> => r[1] = t
  BY <1>1, <1>3
<1>9. QED
  BY <1>1, <1>6, <1>7, <1>8 DEF r

LEMMA TailLine ==
    ASSUME NEW q \in Seq(Task), q # <<>>, Chain(q)
    PROVE  /\ Tail(q) \in Seq(Task) /\ Chain(Tail(q)) /\ Head(q) = q[1] /\ q[1] \in Task
           /\ Tail(q) # <<>> => /\ Tail(q)[1] = q[2] /\ q[2] \in Task
                                /\ Follows(q[1], q[2])
                                /\ Tail(q)[Len(Tail(q))] = q[Len(q)]
           /\ Tail(q) = <<>> => q[1] = q[Len(q)]
<1> DEFINE r == Tail(q)
<1>1. /\ r \in Seq(Task) /\ Len(q) = Len(r) + 1 /\ Len(r) \in Nat
      /\ Head(q) = q[1] /\ q[1] \in Task
  OBVIOUS
<1>2. \A i \in 1 .. Len(r) : r[i] = q[i + 1]
  OBVIOUS
<1>3. r # <<>> => Len(r) >= 1
  BY <1>1
<1> HIDE DEF r
<1>4. r = <<>> => Len(r) = 0
  OBVIOUS
<1>5. Chain(r)
  <2>1. ASSUME NEW i \in 1 .. Len(r) - 1 PROVE Follows(r[i], r[i + 1])
    <3>1. r[i] = q[i + 1] /\ r[i + 1] = q[(i + 1) + 1] /\ i + 1 \in 1 .. Len(q) - 1
      BY <1>1, <1>2, <2>1
    <3>2. QED
      BY <3>1 DEF Chain
  <2>2. QED
    BY <2>1 DEF Chain
<1>6. ASSUME r # <<>>
      PROVE  /\ r[1] = q[2] /\ q[2] \in Task /\ Follows(q[1], q[2])
             /\ r[Len(r)] = q[Len(q)]
  <2>1. 1 \in 1 .. Len(r) /\ 1 \in 1 .. Len(q) - 1 /\ 2 \in 1 .. Len(q)
    BY <1>1, <1>3, <1>6
  <2>2. r[1] = q[1 + 1] /\ Follows(q[1], q[1 + 1]) /\ q[2] \in Task
    BY <1>2, <2>1 DEF Chain
  <2>3. r[Len(r)] = q[Len(r) + 1]
    BY <1>1, <1>2, <1>3, <1>6
  <2>4. QED
    BY <1>1, <2>2, <2>3
<1>7. r = <<>> => q[1] = q[Len(q)]
  BY <1>1, <1>4
<1>8. QED
  BY <1>1, <1>5, <1>6, <1>7 DEF r

-----------------------------------------------------------------------------
LEMMA InitFeedInv == Init => FeedInv
<1> SUFFICES ASSUME Init PROVE FeedInv
  OBVIOUS
<1>1. IInv
  BY InitIInv
<1>2. LineInv
  BY DEF Init, LineInv, Chain
<1>3. NoMissedUpdate
  BY DEF Init, NoMissedUpdate, Listening
<1>4. QED
  BY <1>1, <1>2, <1>3 DEF FeedInv

(* What the main thread posts. *)
LEMMA MainThreadPosts ==
    ASSUME IInv, LineInv, MainThread
    PROVE  /\ LineInv'
           /\ tasks # <<>> => tasks' # <<>> /\ Head(tasks') = Head(tasks)
           /\ UNCHANGED <<welcome, clients, sock>>
<1>0. /\ tasks \in Seq(Task) /\ published \in Nat /\ welcome \in Nat
      /\ Chain(tasks)
  BY DEF IInv, TypeOK, Version, LineInv
<1>1. CASE ConstructorReturns
  BY <1>1 DEF ConstructorReturns, LineInv
<1>2. CASE FirstDictionary
  <2> DEFINE t == [kind |-> "welcome", v |-> 1]
  <2>1. /\ tasks = <<>> /\ published = 0 /\ welcome = 0 /\ published' = 1
        /\ tasks' = Append(tasks, t) /\ welcome' = 0 /\ life' = "open"
    BY <1>2 DEF FirstDictionary, LineInv
  <2>2. t \in Task /\ t.kind = "welcome" /\ t.v = 1
    BY <1>2, <2>1, PushServerAssumption DEF FirstDictionary, Task, Version
  <2> HIDE DEF t
  <2>3. /\ Chain(tasks') /\ tasks' # <<>>
        /\ tasks'[Len(tasks')] = t /\ tasks'[1] = t
    BY <1>0, <2>1, <2>2, AppendLine
  <2>4. LineInv'
    BY <2>1, <2>2, <2>3 DEF LineInv, MayBeFirst, MayBeLast, Completes
  <2>5. QED
    BY <1>2, <2>1, <2>4 DEF FirstDictionary
<1>3. CASE ChangeDictionary
  <2> DEFINE p == published + 1
             a == [kind |-> "welcome", v |-> p]
             b == [kind |-> "send", v |-> p]
             q == Append(tasks, a)
  <2>1. /\ life = "open" /\ life' = "open" /\ published > 0 /\ published' = p
        /\ tasks' = tasks \o <<a, b>> /\ welcome' = welcome
        /\ p \in Version /\ p \in Nat /\ p > 1 /\ p = published + 1
    BY <1>0, <1>3, PushServerAssumption DEF ChangeDictionary, LineInv, Version
  <2> HIDE DEF p
  <2>2. /\ a \in Task /\ a.kind = "welcome" /\ a.v = p
        /\ b \in Task /\ b.kind = "send" /\ b.v = p
    BY <2>1 DEF Task
  <2> HIDE DEF a, b
  <2>3. tasks' = Append(q, b)
    BY <1>0, <2>1, <2>2
  <2>4. ASSUME tasks # <<>>
        PROVE  Follows(tasks[Len(tasks)], a)
    <3>1. /\ MayBeLast(tasks[Len(tasks)], published)
          /\ tasks[Len(tasks)].kind # "close"
      BY <2>1, <2>4 DEF LineInv
    <3>2. QED
      BY <2>1, <2>2, <3>1 DEF MayBeLast, Follows
  <2>5. /\ q \in Seq(Task) /\ q # <<>> /\ Chain(q) /\ q[Len(q)] = a
        /\ tasks = <<>> => q[1] = a
        /\ tasks # <<>> => q[1] = tasks[1]
    BY <1>0, <2>2, <2>4, AppendLine
  <2> HIDE DEF q
  <2>6. Follows(a, b)
    BY <2>1, <2>2 DEF Follows
  <2>7. /\ tasks' \in Seq(Task) /\ tasks' # <<>> /\ Chain(tasks')
        /\ tasks'[Len(tasks')] = b /\ tasks'[1] = q[1]
    BY <2>2, <2>3, <2>5, <2>6, AppendLine
  <2>8. MayBeFirst(tasks'[1], welcome')
    <3>1. CASE tasks = <<>>
      BY <2>1, <2>2, <2>5, <2>7, <3>1 DEF LineInv, MayBeFirst
    <3>2. CASE tasks # <<>>
      BY <2>1, <2>5, <2>7, <3>2 DEF LineInv
    <3>3. QED
      BY <3>1, <3>2
  <2>9. MayBeLast(tasks'[Len(tasks')], published') /\ tasks'[Len(tasks')].kind # "close"
    BY <2>1, <2>2, <2>7 DEF MayBeLast, Completes
  <2>10. LineInv'
    BY <2>1, <2>7, <2>8, <2>9 DEF LineInv
  <2>11. tasks # <<>> => Head(tasks') = Head(tasks)
    BY <1>0, <2>5, <2>7
  <2>12. QED
    BY <1>3, <2>7, <2>10, <2>11 DEF ChangeDictionary
<1>4. CASE Destroy
  <2> DEFINE t == [kind |-> "close", v |-> 0]
  <2>1. /\ life = "open" /\ life' = "closing" /\ UNCHANGED <<published, welcome>>
        /\ tasks' = Append(tasks, t)
    BY <1>4 DEF Destroy
  <2>2. t \in Task /\ t.kind = "close"
    BY PushServerAssumption DEF Task, Version
  <2> HIDE DEF t
  <2>3. tasks # <<>> => Follows(tasks[Len(tasks)], t)
    BY <2>1, <2>2 DEF LineInv, MayBeLast, Follows
  <2>4. /\ tasks' \in Seq(Task) /\ tasks' # <<>> /\ Chain(tasks')
        /\ tasks'[Len(tasks')] = t
        /\ tasks = <<>> => tasks'[1] = t
        /\ tasks # <<>> => tasks'[1] = tasks[1]
    BY <1>0, <2>1, <2>2, <2>3, AppendLine
  <2>5. MayBeFirst(tasks'[1], welcome')
    BY <2>1, <2>2, <2>4 DEF LineInv, MayBeFirst
  <2>6. LineInv'
    BY <2>1, <2>2, <2>4, <2>5 DEF LineInv, MayBeLast
  <2>7. tasks # <<>> => Head(tasks') = Head(tasks)
    BY <1>0, <2>4
  <2>8. QED
    BY <1>4, <2>4, <2>6, <2>7 DEF Destroy
<1>5. QED
  BY <1>1, <1>2, <1>3, <1>4 DEF MainThread

-----------------------------------------------------------------------------
(* What a completion changes for the subscribers: one of them at most, who *)
(* leaves, or subscribes and hears the current version.                    *)

(* What the feed of StatusFeed has for a client. *)
Hears(c) == IF Listening(c) THEN sock[c].heard ELSE -1

OneMoves ==
    \E e \in Client :
      /\ \A d \in Client : d # e => Hears(d)' = Hears(d)
      /\ \/ Hears(e)' \in {Hears(e), -1}
         \/ Hears(e) = -1 /\ Hears(e)' = welcome

LEMMA OneClientMoves ==
    ASSUME sock \in [Client -> SockType], NEW c \in Client, NEW t,
           sock' = [sock EXCEPT ![c] = t],
           \A d \in Client : d # c => (d \in clients' <=> d \in clients),
           \/ c \notin clients' \/ ~t.upgraded \/ t.last
           \/ c \in clients /\ t.heard = sock[c].heard /\ t.upgraded = sock[c].upgraded
                            /\ t.last = sock[c].last
           \/ ~sock[c].upgraded /\ t.heard = welcome
    PROVE  OneMoves
<1>1. sock'[c] = t /\ \A d \in Client : d # c => sock'[d] = sock[d]
  OBVIOUS
<1>2. ASSUME NEW d \in Client, d # c PROVE Hears(d)' = Hears(d)
  BY <1>1, <1>2 DEF Hears, Listening
<1>3. \/ Hears(c)' \in {Hears(c), -1}
      \/ Hears(c) = -1 /\ Hears(c)' = welcome
  <2>1. CASE c \notin clients' \/ ~t.upgraded \/ t.last
    BY <1>1, <2>1 DEF Hears, Listening
  <2>2. CASE /\ c \in clients /\ t.heard = sock[c].heard
             /\ t.upgraded = sock[c].upgraded /\ t.last = sock[c].last
    BY <1>1, <2>2 DEF Hears, Listening
  <2>3. CASE ~sock[c].upgraded /\ t.heard = welcome
    BY <1>1, <2>3 DEF Hears, Listening
  <2>4. QED
    BY <2>1, <2>2, <2>3
<1>4. QED
  BY <1>2, <1>3 DEF OneMoves

LEMMA ReadsMove == ASSUME IInv, NEW c \in Client, Reads(c) PROVE OneMoves
<1>0. sock \in [Client -> SockType] /\ sock[c] \in SockType /\ welcome \in Version
  BY DEF IInv, TypeOK
<1>1. CASE OnConnect(c)
  <2> DEFINE t == [NewSock EXCEPT !.reading = "pending"]
  <2>1. ~t.upgraded
    BY DEF NewSock
  <2>2. sock' = [sock EXCEPT ![c] = t] /\ clients' = clients \cup {c}
    BY <1>1 DEF OnConnect
  <2> HIDE DEF t
  <2>3. QED
    BY <1>0, <2>1, <2>2, OneClientMoves
<1>2. CASE OnClientLeaves(c)
  <2> DEFINE s == [sock[c] EXCEPT !.reading = "none"]
             t == LastPacketEmpty(s)
  <2>1. t.last
    BY <1>0, ReadDone, LastPacketEmptyFacts
  <2>2. sock' = [sock EXCEPT ![c] = t] /\ clients' = clients
    BY <1>0, <1>2 DEF OnClientLeaves
  <2> HIDE DEF t
  <2>3. QED
    BY <1>0, <2>1, <2>2, OneClientMoves
<1>3. CASE OnBadRequest(c)
  <2> DEFINE s == [sock[c] EXCEPT !.reading = "none"]
             t == LastPacket(s, 0)
  <2>1. t.last
    BY <1>0, PushServerAssumption, ReadDone, LastPacketFacts DEF Version
  <2>2. sock' = [sock EXCEPT ![c] = t] /\ clients' = clients
    BY <1>0, <1>3 DEF OnBadRequest
  <2> HIDE DEF t
  <2>3. QED
    BY <1>0, <2>1, <2>2, OneClientMoves
<1>4. CASE OnGet(c)
  <2> DEFINE s == [sock[c] EXCEPT !.reading = "none"]
             t == LastPacket(s, welcome)
  <2>1. t.last
    BY <1>0, ReadDone, LastPacketFacts
  <2>2. sock' = [sock EXCEPT ![c] = t] /\ clients' = clients
    BY <1>0, <1>4 DEF OnGet
  <2> HIDE DEF t
  <2>3. QED
    BY <1>0, <2>1, <2>2, OneClientMoves
<1>5. CASE OnUpgrade(c)
  <2> DEFINE u == Started(sock[c], welcome)
             b == TRUE
             t == [u EXCEPT !.upgraded = b, !.heard = welcome]
  <2>1. u \in SockType
    BY <1>0, StartedFacts
  <2>2. /\ sock' = [sock EXCEPT ![c] = t] /\ clients' = clients
        /\ ~sock[c].upgraded
    BY <1>0, <1>5 DEF OnUpgrade
  <2> HIDE DEF u
  <2>3. t.heard = welcome
    BY <2>1 DEF SockType
  <2> HIDE DEF t
  <2>4. QED
    BY <1>0, <2>2, <2>3, OneClientMoves
<1>6. CASE OnStaleRead(c)
  <2> DEFINE t == [sock[c] EXCEPT !.reading = "none"]
             quiet == [sock EXCEPT ![c] = t]
  <2>1. c \notin clients /\ clients' = clients
    BY <1>6 DEF OnStaleRead
  <2>2. t \in SockType
    BY <1>0, ReadDone
  <2>3. sock' = quiet \/ \E d \in clients : sock' = [quiet EXCEPT ![d] = LastPacketEmpty(@)]
    BY <1>0, <1>6 DEF OnStaleRead
  <2> HIDE DEF t
  <2>4. CASE sock' = quiet
    BY <1>0, <2>1, <2>4, OneClientMoves
  <2>5. ASSUME NEW d \in clients, sock' = [quiet EXCEPT ![d] = LastPacketEmpty(@)]
        PROVE  OneMoves
    <3>1. d # c /\ d \in Client /\ sock[d] \in SockType
      BY <1>0, <2>1, ListedFacts
    <3>2. LastPacketEmpty(sock[d]).last
      BY <3>1, LastPacketEmptyFacts
    <3>3. \A e \in Client : sock'[e] = IF e = d THEN LastPacketEmpty(sock[d])
                                       ELSE IF e = c THEN t ELSE sock[e]
      BY <1>0, <2>5, <3>1
    <3>4. \A e \in Client : e # d => Hears(e)' = Hears(e)
      BY <2>1, <3>3 DEF Hears, Listening
    <3>5. Hears(d)' = -1
      BY <3>1, <3>2, <3>3 DEF Hears, Listening
    <3>6. QED
      BY <3>1, <3>4, <3>5 DEF OneMoves
  <2>6. QED
    BY <2>3, <2>4, <2>5
<1>7. QED
  BY <1>1, <1>2, <1>3, <1>4, <1>5, <1>6 DEF Reads

LEMMA CompletionsLeave ==
    ASSUME NEW c \in Client, Reads(c) \/ SocketAnswers(c) \/ ThreadWrites(c)
    PROVE  UNCHANGED <<life, published, tasks, welcome>>
BY DEF Reads, OnConnect, OnClientLeaves, OnBadRequest, OnGet, OnUpgrade, OnStaleRead,
       SocketAnswers, SocketRefuses, SocketTakes,
       ThreadWrites, WriteGoesOn, OnWriteCompleted

(* Writes that asio moves along change nothing a subscriber has heard. *)
LEMMA MoveMoves ==
    ASSUME IInv, NEW c \in Client, NEW t, clients' = clients,
           sock' = [sock EXCEPT ![c] = t],
           t.heard = sock[c].heard, t.upgraded = sock[c].upgraded, t.last = sock[c].last
    PROVE  OneMoves
<1>1. sock \in [Client -> SockType] /\ sock[c].last \in BOOLEAN
  BY DEF IInv, TypeOK, SockType
<1>2. CASE c \in clients
  BY <1>1, <1>2, OneClientMoves
<1>3. CASE c \notin clients
  BY <1>1, <1>3, OneClientMoves
<1>4. QED
  BY <1>2, <1>3

LEMMA WritesMove ==
    ASSUME IInv, NEW c \in Client, SocketAnswers(c) \/ ThreadWrites(c)
    PROVE  OneMoves
<1>0. sock \in [Client -> SockType] /\ sock[c] \in SockType
  BY DEF IInv, TypeOK
<1>1. CASE SocketRefuses(c)
  <2> DEFINE q == Tail(sock[c].queue)
             n == sock[c].bad + 1
             t == [sock[c] EXCEPT !.queue = q, !.bad = n]
  <2>1. sock' = [sock EXCEPT ![c] = t] /\ clients' = clients
    BY <1>1 DEF SocketRefuses
  <2> HIDE DEF q, n
  <2>2. t.heard = sock[c].heard /\ t.upgraded = sock[c].upgraded /\ t.last = sock[c].last
    BY <1>0 DEF SockType
  <2> HIDE DEF t
  <2>3. QED
    BY <2>1, <2>2, MoveMoves
<1>2. ASSUME NEW n \in 1 .. Pieces, SocketTakes(c, n) PROVE OneMoves
  <2> DEFINE s == sock[c]
             w == Head(s.queue)
             rest == [w EXCEPT !.left = @ - n]
             others == s.redo \o Tail(s.queue)
             q == Tail(s.queue)
             d == IF n < w.left THEN Append(s.redo, rest) ELSE s.redo
             k == IF n < w.left THEN s.ok ELSE s.ok + 1
             b == s.torn \/ \E i \in DOMAIN others : PartWritten(others[i])
             t == [s EXCEPT !.queue = q, !.redo = d, !.ok = k, !.torn = b]
  <2>1. sock' = [sock EXCEPT ![c] = t] /\ clients' = clients
    BY <1>2 DEF SocketTakes
  <2> HIDE DEF q, d, k, b
  <2>2. t.heard = sock[c].heard /\ t.upgraded = sock[c].upgraded /\ t.last = sock[c].last
    BY <1>0 DEF SockType
  <2> HIDE DEF t
  <2>3. QED
    BY <2>1, <2>2, MoveMoves
<1>3. CASE WriteGoesOn(c)
  <2> DEFINE q == Append(sock[c].queue, Head(sock[c].redo))
             d == Tail(sock[c].redo)
             t == [sock[c] EXCEPT !.queue = q, !.redo = d]
  <2>1. sock' = [sock EXCEPT ![c] = t] /\ clients' = clients
    BY <1>3 DEF WriteGoesOn
  <2> HIDE DEF q, d
  <2>2. t.heard = sock[c].heard /\ t.upgraded = sock[c].upgraded /\ t.last = sock[c].last
    BY <1>0 DEF SockType
  <2> HIDE DEF t
  <2>3. QED
    BY <2>1, <2>2, MoveMoves
<1>4. ASSUME NEW ec \in BOOLEAN, OnWriteCompleted(c, ec) PROVE OneMoves
  <2> DEFINE n == sock[c].bad - 1
             k == sock[c].ok - 1
             p == sock[c].pending - 1
             s == IF ec THEN [sock[c] EXCEPT !.bad = n, !.pending = p]
                        ELSE [sock[c] EXCEPT !.ok = k, !.pending = p]
             gone == [s EXCEPT !.reading = IF @ = "pending" THEN "stale" ELSE @]
  <2>1. /\ clients' = IF s.last /\ s.pending <= 0 THEN clients \ {c} ELSE clients
        /\ sock' = [sock EXCEPT ![c] = IF s.last /\ s.pending <= 0 THEN gone
                                       ELSE IF ec THEN LastPacketEmpty(s) ELSE s]
    BY <1>4 DEF OnWriteCompleted
  <2>2. s \in SockType
    BY <1>0, <1>4, FailureCounts, SuccessCounts DEF OnWriteCompleted
  <2>3. s.heard = sock[c].heard /\ s.upgraded = sock[c].upgraded /\ s.last = sock[c].last
    <3> HIDE DEF n, k, p
    <3>1. QED
      BY <1>0 DEF SockType
  <2> HIDE DEF s
  <2>4. CASE s.last /\ s.pending <= 0
    <3>1. clients' = clients \ {c} /\ sock' = [sock EXCEPT ![c] = gone]
      BY <2>1, <2>4
    <3> HIDE DEF gone
    <3>2. QED
      BY <1>0, <3>1, OneClientMoves
  <2>5. CASE ~(s.last /\ s.pending <= 0) /\ ec
    <3>1. clients' = clients /\ sock' = [sock EXCEPT ![c] = LastPacketEmpty(s)]
      BY <2>1, <2>5
    <3>2. LastPacketEmpty(s).last
      BY <2>2, LastPacketEmptyFacts
    <3>3. QED
      BY <1>0, <3>1, <3>2, OneClientMoves
  <2>6. CASE ~(s.last /\ s.pending <= 0) /\ ~ec
    <3>1. clients' = clients /\ sock' = [sock EXCEPT ![c] = s]
      BY <2>1, <2>6
    <3>2. QED
      BY <2>3, <3>1, MoveMoves
  <2>7. QED
    BY <2>4, <2>5, <2>6
<1>5. QED
  BY <1>1, <1>2, <1>3, <1>4 DEF SocketAnswers, ThreadWrites

-----------------------------------------------------------------------------
(* NoMissedUpdate, said of what the clients hear. *)
NothingMissed(h, q, w) ==
    \/ h \in {-1, w}
    \/ q # <<>> /\ Head(q) = [kind |-> "send", v |-> w]
    \/ h = 0 /\ w = 1

LEMMA MissedMeans ==
    /\ IInv => (NoMissedUpdate <=> \A c \in Client : NothingMissed(Hears(c), tasks, welcome))
    /\ IInv' => (NoMissedUpdate' <=>
                   \A c \in Client : NothingMissed(Hears(c)', tasks', welcome'))
<1>1. ASSUME IInv, NEW c \in Client
      PROVE  sock[c].heard # -1
  BY <1>1 DEF IInv, TypeOK, SockType, Version
<1>2. ASSUME IInv', NEW c \in Client
      PROVE  sock'[c].heard # -1
  BY <1>2 DEF IInv, TypeOK, SockType, Version
<1>3. QED
  BY <1>1, <1>2 DEF NoMissedUpdate, NothingMissed, Hears

(* Between two posted handlers. *)
LEMMA OneMovesKeeps ==
    ASSUME IInv, IInv', LineInv, NoMissedUpdate, OneMoves,
           UNCHANGED <<life, published, tasks, welcome>>
    PROVE  LineInv' /\ NoMissedUpdate'
<1>1. LineInv'
  BY DEF LineInv
<1>2. ASSUME NEW c \in Client PROVE NothingMissed(Hears(c)', tasks', welcome')
  <2>1. NothingMissed(Hears(c), tasks, welcome)
    BY MissedMeans
  <2>2. Hears(c)' \in {Hears(c), -1, welcome}
    BY DEF OneMoves
  <2>3. QED
    BY <2>1, <2>2 DEF NothingMissed
<1>3. QED
  BY <1>1, <1>2, MissedMeans

(* What a posted handler finds at the head of the line, and leaves there. *)
LEMMA FirstInLine ==
    ASSUME IInv, LineInv, NEW kind, NextTask(kind)
    PROVE  /\ tasks # <<>> /\ Head(tasks) = tasks[1] /\ Head(tasks) \in Task
           /\ Head(tasks).kind = kind
           /\ MayBeFirst(Head(tasks), welcome)
           /\ tasks' \in Seq(Task) /\ Chain(tasks')
           /\ tasks' = <<>> => MayBeLast(Head(tasks), published)
           /\ tasks' # <<>> => /\ Follows(Head(tasks), tasks'[1])
                               /\ tasks'[1] \in Task /\ Head(tasks') = tasks'[1]
                               /\ MayBeLast(tasks'[Len(tasks')], published)
                               /\ tasks'[Len(tasks')] = tasks[Len(tasks)]
           /\ tasks' = <<>> => tasks[Len(tasks)] = Head(tasks)
           /\ life \notin {"ctor", "started", "gone"}
<1>1. /\ tasks \in Seq(Task) /\ tasks # <<>> /\ tasks' = Tail(tasks) /\ Chain(tasks)
      /\ life # "gone" /\ Head(tasks).kind = kind
  BY DEF IInv, TypeOK, NextTask, ServerRuns, LineInv
<1>2. life \notin {"ctor", "started"}
  BY <1>1 DEF LineInv
<1>3. MayBeFirst(tasks[1], welcome) /\ MayBeLast(tasks[Len(tasks)], published)
  BY <1>1 DEF LineInv
<1>4. /\ Tail(tasks) \in Seq(Task) /\ Chain(Tail(tasks))
      /\ Head(tasks) = tasks[1] /\ tasks[1] \in Task
      /\ Tail(tasks) # <<>> => /\ Tail(tasks)[1] = tasks[2] /\ tasks[2] \in Task
                               /\ Follows(tasks[1], tasks[2])
                               /\ Tail(tasks)[Len(Tail(tasks))] = tasks[Len(tasks)]
      /\ Tail(tasks) = <<>> => tasks[1] = tasks[Len(tasks)]
  BY <1>1, TailLine
<1>5. tasks' # <<>> => Head(tasks') = tasks'[1]
  BY <1>1, <1>4
<1>6. QED
  BY <1>1, <1>2, <1>3, <1>4, <1>5

(* onWelcomeMessage sets the next version, and only once everybody has     *)
(* heard the one before it, unless that was the first.                     *)
LEMMA WelcomeSteps ==
    ASSUME IInv, IInv', LineInv, NoMissedUpdate, OnWelcomeMessage
    PROVE  /\ LineInv' /\ NoMissedUpdate'
           /\ welcome' = welcome + 1 /\ welcome < MaxVersion
           /\ \A c \in Client : Hears(c)' = Hears(c)
           /\ welcome > 1 => \A c \in Client : Hears(c) \in {-1, welcome}
<1> DEFINE t == Head(tasks)
<1>1. /\ tasks # <<>> /\ t \in Task /\ t.kind = "welcome"
      /\ MayBeFirst(t, welcome)
      /\ tasks' \in Seq(Task) /\ Chain(tasks')
      /\ tasks' = <<>> => MayBeLast(t, published)
      /\ tasks' # <<>> => /\ Follows(t, tasks'[1])
                          /\ tasks'[1] \in Task /\ Head(tasks') = tasks'[1]
                          /\ MayBeLast(tasks'[Len(tasks')], published)
                          /\ tasks'[Len(tasks')] = tasks[Len(tasks)]
      /\ tasks' = <<>> => tasks[Len(tasks)] = t
      /\ life \notin {"ctor", "started", "gone"}
  BY FirstInLine DEF OnWelcomeMessage
<1>2. /\ welcome' = t.v /\ UNCHANGED <<life, published, clients, sock>>
  BY DEF OnWelcomeMessage
<1>3. welcome \in Nat /\ published \in Nat /\ MaxVersion \in Nat
  BY PushServerAssumption DEF IInv, TypeOK, Version
<1>4. t.v \in Nat /\ t.v <= MaxVersion
  BY <1>1, <1>3 DEF Task, Version
<1> HIDE DEF t
<1>5. t.v = welcome + 1
  BY <1>1 DEF MayBeFirst
<1>6. welcome' = welcome + 1 /\ welcome < MaxVersion
  BY <1>2, <1>3, <1>4, <1>5
<1>7. \A c \in Client : Hears(c)' = Hears(c)
  BY <1>2 DEF Hears, Listening
<1>8. \A c \in Client : Hears(c) \in {-1, welcome} \/ (Hears(c) = 0 /\ welcome = 1)
  BY <1>1, MissedMeans DEF NothingMissed, t
<1>9. tasks' # <<>> => MayBeFirst(tasks'[1], welcome')
  BY <1>1, <1>2, <1>5 DEF Follows, MayBeFirst
<1>10. LineInv'
  <2>1. life = "open" => IF tasks' = <<>> THEN welcome' = published
                                         ELSE tasks'[Len(tasks')].kind # "close"
    BY <1>1, <1>2 DEF LineInv, MayBeLast
  <2>2. QED
    BY <1>1, <1>2, <1>9, <2>1 DEF LineInv
<1>11. ASSUME NEW c \in Client PROVE NothingMissed(Hears(c)', tasks', welcome')
  <2>1. CASE welcome = 0
    BY <1>3, <1>6, <1>7, <1>8, <2>1 DEF NothingMissed
  <2>2. CASE welcome > 0
    <3>1. tasks' # <<>>
      BY <1>1, <1>3, <1>5, <2>2 DEF MayBeLast, Completes
    <3>2. tasks'[1].kind = "send" /\ tasks'[1].v = welcome'
      BY <1>1, <1>2, <1>3, <1>5, <2>2, <3>1 DEF Follows, Completes
    <3>3. Head(tasks') = [kind |-> "send", v |-> welcome']
      BY <1>1, <3>1, <3>2 DEF Task
    <3>4. QED
      BY <3>1, <3>3 DEF NothingMissed
  <2>3. QED
    BY <1>3, <2>1, <2>2
<1>12. NoMissedUpdate'
  BY <1>11, MissedMeans
<1>13. QED
  BY <1>3, <1>6, <1>7, <1>8, <1>10, <1>12

(* onSend sends what welcomeWs holds, to everybody. *)
LEMMA SendSteps ==
    ASSUME IInv, IInv', LineInv, NoMissedUpdate, OnSend
    PROVE  /\ LineInv' /\ NoMissedUpdate' /\ welcome' = welcome
           /\ \A c \in Client : Hears(c)' = IF Hears(c) = -1 THEN -1 ELSE welcome
<1> DEFINE t == Head(tasks)
<1>1. /\ tasks # <<>> /\ t \in Task /\ t.kind = "send"
      /\ MayBeFirst(t, welcome)
      /\ tasks' \in Seq(Task) /\ Chain(tasks')
      /\ tasks' = <<>> => MayBeLast(t, published)
      /\ tasks' # <<>> => /\ Follows(t, tasks'[1])
                          /\ tasks'[1] \in Task /\ Head(tasks') = tasks'[1]
                          /\ MayBeLast(tasks'[Len(tasks')], published)
                          /\ tasks'[Len(tasks')] = tasks[Len(tasks)]
      /\ tasks' = <<>> => tasks[Len(tasks)] = t
      /\ life \notin {"ctor", "started", "gone"}
  BY FirstInLine DEF OnSend
<1>2. UNCHANGED <<life, published, clients, welcome>>
  BY DEF OnSend
<1>3. sock' = [c \in Client |-> IF Listening(c)
                                THEN [Started(sock[c], t.v) EXCEPT !.heard = t.v]
                                ELSE sock[c]]
  BY DEF OnSend
<1>4. sock \in [Client -> SockType] /\ t.v \in Version
  BY <1>1 DEF IInv, TypeOK, Task
<1> HIDE DEF t
<1>5. t.v = welcome
  BY <1>1 DEF MayBeFirst
<1>6. ASSUME NEW c \in Client
      PROVE  Hears(c)' = IF Hears(c) = -1 THEN -1 ELSE welcome
  <2>1. CASE Listening(c)
    <3> DEFINE u == Started(sock[c], t.v)
    <3>1. u \in SockType /\ u.upgraded = sock[c].upgraded /\ u.last = sock[c].last
      BY <1>4, StartedFacts
    <3>2. sock'[c] = [u EXCEPT !.heard = t.v]
      BY <1>3, <2>1
    <3> HIDE DEF u
    <3>3. /\ sock'[c].heard = welcome
          /\ sock'[c].upgraded = sock[c].upgraded /\ sock'[c].last = sock[c].last
      BY <1>4, <1>5, <3>1, <3>2, SetHeard
    <3>4. Hears(c)' = welcome
      BY <1>2, <2>1, <3>3 DEF Hears, Listening
    <3>5. Hears(c) # -1
      BY <1>4, <2>1 DEF Hears, SockType, Version
    <3>6. QED
      BY <3>4, <3>5
  <2>2. CASE ~Listening(c)
    BY <1>2, <1>3, <2>2 DEF Hears, Listening
  <2>3. QED
    BY <2>1, <2>2
<1>7. tasks' # <<>> => MayBeFirst(tasks'[1], welcome')
  BY <1>1, <1>2, <1>5 DEF Follows, MayBeFirst
<1>8. LineInv'
  <2>1. life = "open" => IF tasks' = <<>> THEN welcome' = published
                                         ELSE tasks'[Len(tasks')].kind # "close"
    BY <1>1, <1>2, <1>5 DEF LineInv, MayBeLast
  <2>2. QED
    BY <1>1, <1>2, <1>7, <2>1 DEF LineInv
<1>9. \A c \in Client : NothingMissed(Hears(c)', tasks', welcome')
  BY <1>2, <1>6 DEF NothingMissed
<1>10. QED
  BY <1>2, <1>6, <1>8, <1>9, MissedMeans

(* onClose leaves no subscriber, and nothing runs after it. *)
LEMMA CloseSteps ==
    ASSUME IInv, IInv', LineInv, OnClose
    PROVE  /\ LineInv' /\ NoMissedUpdate' /\ welcome' = welcome
           /\ \A c \in Client : Hears(c)' = -1
<1>1. /\ tasks # <<>> /\ Head(tasks).kind = "close"
      /\ tasks' # <<>> => Follows(Head(tasks), tasks'[1])
  BY FirstInLine DEF OnClose
<1>2. clients' = {} /\ welcome' = welcome /\ life' = "gone"
  BY DEF OnClose
<1>3. tasks' = <<>>
  BY <1>1 DEF Follows, Completes
<1>4. LineInv'
  BY <1>2, <1>3 DEF LineInv, Chain
<1>5. \A c \in Client : Hears(c)' = -1
  BY <1>2 DEF Hears, Listening
<1>6. NoMissedUpdate'
  BY <1>2 DEF NoMissedUpdate, Listening
<1>7. QED
  BY <1>2, <1>4, <1>5, <1>6

-----------------------------------------------------------------------------
LEMMA FeedInvStep == FeedInv /\ [Next]_vars => FeedInv'
<1> SUFFICES ASSUME FeedInv, [Next]_vars PROVE FeedInv'
  OBVIOUS
<1>0. IInv /\ LineInv /\ NoMissedUpdate /\ IInv'
  BY NextKeepsIInv DEF FeedInv
<1>1. CASE MainThread
  <2>1. /\ LineInv'
        /\ tasks # <<>> => tasks' # <<>> /\ Head(tasks') = Head(tasks)
        /\ UNCHANGED <<welcome, clients, sock>>
    BY <1>0, <1>1, MainThreadPosts
  <2>2. NoMissedUpdate'
    BY <1>0, <2>1 DEF NoMissedUpdate, Listening
  <2>3. QED
    BY <1>0, <2>1, <2>2 DEF FeedInv
<1>2. CASE RunTask
  BY <1>0, <1>2, WelcomeSteps, SendSteps, CloseSteps DEF RunTask, FeedInv
<1>3. ASSUME NEW c \in Client, Reads(c) \/ SocketAnswers(c) \/ ThreadWrites(c)
      PROVE  FeedInv'
  <2>1. OneMoves
    BY <1>0, <1>3, ReadsMove, WritesMove
  <2>2. UNCHANGED <<life, published, tasks, welcome>>
    BY <1>3, CompletionsLeave
  <2>3. QED
    BY <1>0, <2>1, <2>2, OneMovesKeeps DEF FeedInv
<1>4. CASE UNCHANGED vars
  BY <1>0, <1>4 DEF vars, FeedInv, LineInv, NoMissedUpdate, Listening
<1>5. QED
  BY <1>1, <1>2, <1>3, <1>4 DEF Next

LEMMA FeedInvAlways == Spec => []FeedInv
BY InitFeedInv, FeedInvStep, PTL DEF Spec

(* No open websocket misses an update: it has heard the version in         *)
(* welcomeWs, or a send of that one is next, however handshakes,           *)
(* departures and failing writes fall between the handlers that            *)
(* change_dictionary posts; a socket opened before the first dictionary    *)
(* apart.                                                                  *)
THEOREM NoUpdateEverMissed == Spec => []NoMissedUpdate
<1>1. FeedInv => NoMissedUpdate
  BY DEF FeedInv
<1>2. QED
  BY <1>1, FeedInvAlways, PTL

-----------------------------------------------------------------------------
(* The refinement, step by step.                                           *)

LEMMA FeedStarts == Init => Feed!FeedInit
BY DEF Init, Feed!FeedInit, Feed!Nobody, Listening

LEMMA FeedSteps == FeedInv /\ [Next]_vars => [Feed!FeedNext]_(Feed!feedVars)
<1> SUFFICES ASSUME FeedInv, [Next]_vars PROVE [Feed!FeedNext]_(Feed!feedVars)
  OBVIOUS
<1>0. IInv /\ LineInv /\ NoMissedUpdate /\ IInv'
  BY NextKeepsIInv DEF FeedInv
<1>1. CASE MainThread
  BY <1>0, <1>1, MainThreadPosts DEF Feed!feedVars, Listening
<1>2. CASE OnWelcomeMessage
  <2>1. /\ welcome' = welcome + 1 /\ welcome < MaxVersion
        /\ \A c \in Client : Hears(c)' = Hears(c)
        /\ welcome > 1 => \A c \in Client : Hears(c) \in {-1, welcome}
    BY <1>0, <1>2, WelcomeSteps
  <2>2. Feed!Publish
    BY <2>1 DEF Feed!Publish, Feed!UpToDate, Feed!Nobody, Hears
  <2>3. QED
    BY <2>2 DEF Feed!FeedNext
<1>3. CASE OnSend
  <2>1. /\ welcome' = welcome
        /\ \A c \in Client : Hears(c)' = IF Hears(c) = -1 THEN -1 ELSE welcome
    BY <1>0, <1>3, SendSteps
  <2>2. Feed!Deliver
    BY <2>1 DEF Feed!Deliver, Feed!Nobody, Hears
  <2>3. QED
    BY <2>2 DEF Feed!FeedNext
<1>4. CASE OnClose
  <2>1. welcome' = welcome /\ \A c \in Client : Hears(c)' = -1
    BY <1>0, <1>4, CloseSteps
  <2>2. Feed!Shutdown
    BY <2>1 DEF Feed!Shutdown, Feed!Nobody, Hears
  <2>3. QED
    BY <2>2 DEF Feed!FeedNext
<1>5. ASSUME NEW c \in Client, Reads(c) \/ SocketAnswers(c) \/ ThreadWrites(c)
      PROVE  [Feed!FeedNext]_(Feed!feedVars)
  <2>1. OneMoves /\ welcome' = welcome
    BY <1>0, <1>5, ReadsMove, WritesMove, CompletionsLeave
  <2>2. PICK e \in Client :
          /\ \A d \in Client : d # e => Hears(d)' = Hears(d)
          /\ \/ Hears(e)' \in {Hears(e), -1}
             \/ Hears(e) = -1 /\ Hears(e)' = welcome
    BY <2>1 DEF OneMoves
  <2>3. CASE Hears(e)' = Hears(e)
    BY <2>1, <2>2, <2>3 DEF Feed!feedVars, Hears
  <2>4. CASE Hears(e)' = -1
    <3>1. Feed!Leave(e)
      BY <2>1, <2>2, <2>4 DEF Feed!Leave, Feed!Nobody, Hears
    <3>2. QED
      BY <3>1 DEF Feed!FeedNext
  <2>5. CASE Hears(e) = -1 /\ Hears(e)' = welcome
    <3>1. Feed!Subscribe(e)
      BY <2>1, <2>2, <2>5 DEF Feed!Subscribe, Feed!Nobody, Hears
    <3>2. QED
      BY <3>1 DEF Feed!FeedNext
  <2>6. QED
    BY <2>2, <2>3, <2>4, <2>5
<1>6. CASE UNCHANGED vars
  BY <1>6 DEF vars, Feed!feedVars, Listening
<1>7. QED
  BY <1>1, <1>2, <1>3, <1>4, <1>5, <1>6 DEF Next, RunTask

(* The websocket server is the feed of StatusFeed to its subscribers:      *)
(* every step of it is one of the feed, or changes nothing they can see.   *)
THEOREM FeedImplemented == Spec => FeedSpec
BY FeedStarts, FeedSteps, FeedInvAlways, PTL DEF Spec, FeedSpec, Feed!FeedSpec

-----------------------------------------------------------------------------
(* What being a feed means for a subscriber.                               *)

(* A subscriber is at most one version behind, those of before the first   *)
(* dictionary apart.                                                       *)
GapInv == welcome \in Nat /\ \A c \in Client : Hears(c) \in {-1, 0, welcome - 1, welcome}

NextVersionOnly ==
    \A c \in Client :
      Hears(c) >= 1 /\ Hears(c)' # -1 => Hears(c)' \in {Hears(c), Hears(c) + 1}

LEMMA FeedHears ==
    ASSUME GapInv, [Feed!FeedNext]_(Feed!feedVars)
    PROVE  GapInv' /\ NextVersionOnly
<1>0. welcome \in Nat /\ \A c \in Client : Hears(c) \in {-1, 0, welcome - 1, welcome}
  BY DEF GapInv
<1>1. CASE Feed!Publish
  <2>1. /\ welcome' = welcome + 1
        /\ welcome > 1 => \A c \in Client : Hears(c) \in {-1, welcome}
        /\ \A c \in Client : Hears(c)' = Hears(c)
    BY <1>1 DEF Feed!Publish, Feed!UpToDate, Feed!Nobody, Hears
  <2>2. ASSUME NEW c \in Client PROVE Hears(c)' \in {-1, 0, welcome' - 1, welcome'}
    BY <1>0, <2>1
  <2>3. QED
    BY <1>0, <2>1, <2>2 DEF GapInv, NextVersionOnly
<1>2. CASE Feed!Deliver
  <2>1. welcome' = welcome /\ \A c \in Client : Hears(c)' \in {-1, welcome}
    BY <1>2 DEF Feed!Deliver, Feed!Nobody, Hears
  <2>2. QED
    BY <1>0, <2>1 DEF GapInv, NextVersionOnly
<1>3. CASE Feed!Shutdown
  <2>1. welcome' = welcome /\ \A c \in Client : Hears(c)' = -1
    BY <1>3 DEF Feed!Shutdown, Feed!Nobody, Hears
  <2>2. QED
    BY <1>0, <2>1 DEF GapInv, NextVersionOnly
<1>4. ASSUME NEW e \in Client, Feed!Subscribe(e) \/ Feed!Leave(e)
      PROVE  GapInv' /\ NextVersionOnly
  <2>1. /\ welcome' = welcome
        /\ \A c \in Client : \/ Hears(c)' = Hears(c) \/ Hears(c)' = -1
                             \/ Hears(c) = -1 /\ Hears(c)' = welcome
    BY <1>4 DEF Feed!Subscribe, Feed!Leave, Feed!Nobody, Hears
  <2>2. QED
    BY <1>0, <2>1 DEF GapInv, NextVersionOnly
<1>5. CASE UNCHANGED Feed!feedVars
  <2>1. welcome' = welcome /\ \A c \in Client : Hears(c)' = Hears(c)
    BY <1>5 DEF Feed!feedVars, Hears
  <2>2. QED
    BY <1>0, <2>1 DEF GapInv, NextVersionOnly
<1>6. QED
  BY <1>1, <1>2, <1>3, <1>4, <1>5 DEF Feed!FeedNext

(* What a browser is sent after a dictionary is that one again or the      *)
(* next: none is skipped and none goes back, although change_dictionary    *)
(* posts welcomeMessage and send apart and anything may run between them.  *)
THEOREM NoUpdateSkipped == Spec => [][NextVersionOnly]_vars
<1>1. Init => GapInv
  BY DEF Init, GapInv, Hears, Listening
<1>2. GapInv /\ FeedInv /\ [Next]_vars => GapInv' /\ NextVersionOnly
  BY FeedSteps, FeedHears
<1>3. QED
  BY <1>1, <1>2, FeedInvAlways, PTL DEF Spec
=============================================================================
