------------------------- MODULE StatusPath_proofs -------------------------
(***************************************************************************)
(* Theorems about StatusPath: the lines that the handlers obey, the        *)
(* handshake and the frames that the browser reads, and the status that it *)
(* shows in the end.                                                       *)
(***************************************************************************)
EXTENDS StatusPath, LineProtocol_proofs, Base64_proofs, SequenceTheorems, TLAPS

-----------------------------------------------------------------------------
(* Frames.                                                                 *)

(* The header of packAsTextFrame announces the length of the text, in the  *)
(* form that RFC 6455 asks for, for every length its assertion accepts.    *)
THEOREM HeadersAreWellFormed ==
    ASSUME NEW len \in Nat, len <= 65535
    PROVE  /\ FrameHeader(len) \in Seq(Byte)
           /\ WellFramed(FrameHeader(len), len)
<1>1. CASE len <= 125
  <2>1. FrameHeader(len) = <<129, len>>
    BY <1>1 DEF FrameHeader
  <2>2. 129 \in Byte /\ len \in Byte
    BY <1>1 DEF Byte
  <2>3. <<129, len>> \in Seq(Byte)
    BY <2>2
  <2>4. WellFramed(<<129, len>>, len)
    BY <1>1 DEF WellFramed, HeaderSize, PayloadLength
  <2>5. QED
    BY <2>1, <2>3, <2>4
<1>2. CASE len > 125
  <2> DEFINE h == (len \div 256) % 256
             l == len % 256
  <2>1. FrameHeader(len) = <<129, 126, h, l>>
    BY <1>2 DEF FrameHeader
  <2>2. h \in Byte /\ l \in Byte /\ 256 * h + l = len
    <3>1. len \div 256 \in 0 .. 255 /\ 256 * (len \div 256) + (len % 256) = len
      OBVIOUS
    <3>2. h = len \div 256
      BY <3>1
    <3>3. l \in Byte
      BY DEF Byte
    <3>4. QED
      BY <3>1, <3>2, <3>3 DEF Byte
  <2> HIDE DEF h, l
  <2>3. <<129, 126, h, l>> \in Seq(Byte)
    <3>1. 129 \in Byte /\ 126 \in Byte
      BY DEF Byte
    <3>2. QED
      BY <2>2, <3>1
  <2>4. WellFramed(<<129, 126, h, l>>, len)
    BY <1>2, <2>2 DEF WellFramed, HeaderSize, PayloadLength
  <2>5. QED
    BY <2>1, <2>3, <2>4
<1>3. QED
  BY <1>1, <1>2

GoodFrame ==
    {f \in [header : Seq(Byte), status : BOOLEAN, len : Nat] : WellFramed(f.header, f.len)}

FramesInv ==
    /\ status \in BOOLEAN
    /\ version \in 1 .. Len(JsonLen)
    /\ wire \in Seq(GoodFrame)
    /\ FramesInStep

LEMMA JsonLenType ==
    /\ Len(JsonLen) \in Nat /\ Len(JsonLen) >= 1
    /\ \A v \in 1 .. Len(JsonLen) : JsonLen[v] \in Nat /\ JsonLen[v] <= 65535
<1>1. JsonLen \in Seq(Nat)
  BY StreamAssumption
<1>2. Len(JsonLen) \in Nat
  BY <1>1, LenProperties
<1>3. Len(JsonLen) >= 1
  BY <1>2, PathAssumption, LineAssumption
<1>4. \A v \in 1 .. Len(JsonLen) : JsonLen[v] \in Nat /\ JsonLen[v] <= 65535
  BY <1>1, ElementOfSeq, StreamAssumption
<1>5. QED
  BY <1>2, <1>3, <1>4

LEMMA FrameIsGood ==
    ASSUME NEW s \in BOOLEAN, NEW v \in 1 .. Len(JsonLen)
    PROVE  Frame(s, JsonLen[v]) \in GoodFrame
<1>1. JsonLen[v] \in Nat /\ JsonLen[v] <= 65535
  BY JsonLenType
<1>2. PICK len \in Nat : len = JsonLen[v] /\ len <= 65535
  BY <1>1
<1>3. /\ FrameHeader(len) \in Seq(Byte)
      /\ WellFramed(FrameHeader(len), len)
  BY <1>2, HeadersAreWellFormed
<1>4. Frame(s, len) \in [header : Seq(Byte), status : BOOLEAN, len : Nat]
  BY <1>3 DEF Frame
<1>5. Frame(s, len).header = FrameHeader(len) /\ Frame(s, len).len = len
  BY DEF Frame
<1>6. QED
  BY <1>2, <1>3, <1>4, <1>5 DEF GoodFrame

LEMMA FramesInvReceive == FramesInv /\ Receive => FramesInv'
<1>0. FramesInv /\ UNCHANGED <<webVars, pathVars>> => FramesInv'
  BY DEF webVars, pathVars, FramesInv, FramesInStep
<1> SUFFICES ASSUME FramesInv, NEW n \in Receivable,
                    \/ Ignore(n)
                    \/ \E c \in Commands(Message(n)) :
                         ObeyStatus(n, c) \/ ObeyNews(n, c) \/ ObeyOther(n, c) \/ Fail(n, c)
             PROVE  FramesInv'
  BY <1>0 DEF Receive
<1>1. UNCHANGED <<webVars, pathVars>> => FramesInv'
  BY <1>0
<1>2. ASSUME status' \in BOOLEAN, PushUpdate
      PROVE  FramesInv'
  <2>1. version' \in 1 .. Len(JsonLen)
    BY <1>2, JsonLenType DEF PushUpdate, FramesInv
  <2>2. Frame(status', JsonLen[version']) \in GoodFrame
    BY <1>2, <2>1, FrameIsGood
  <2>3. QED
    BY <1>2, <2>1, <2>2 DEF PushUpdate, Publish, FramesInv, FramesInStep
<1>3. ASSUME NEW c, ObeyStatus(n, c)
      PROVE  FramesInv'
  <2>1. status' \in BOOLEAN
    BY <1>3 DEF ObeyStatus, Value
  <2>2. QED
    BY <1>1, <1>2, <1>3, <2>1 DEF ObeyStatus, pathVars
<1>4. ASSUME NEW c, ObeyNews(n, c)
      PROVE  FramesInv'
  BY <1>1, <1>2, <1>4 DEF ObeyNews, FramesInv, pathVars
<1>5. ASSUME NEW c, Fail(n, c)
      PROVE  FramesInv'
  <2>1. ASSUME status' = Value(c.arg), UNCHANGED <<webVars, version>>
        PROVE  FramesInv'
    BY <2>1 DEF Value, webVars, FramesInv, FramesInStep
  <2>2. QED
    BY <1>1, <1>2, <1>5, <2>1 DEF Fail, FramesInv
<1>6. QED
  BY <1>1, <1>3, <1>4, <1>5 DEF Ignore, ObeyOther

LEMMA FramesInvStep == FramesInv /\ [Next]_vars => FramesInv'
<1> SUFFICES ASSUME FramesInv, [Next]_vars PROVE FramesInv'
  OBVIOUS
<1>1. UNCHANGED <<webVars, pathVars>> => FramesInv'
  BY DEF webVars, pathVars, FramesInv, FramesInStep
<1>2. CASE Connect
  <2>1. Frame(status, JsonLen[version]) \in GoodFrame
    BY FrameIsGood DEF FramesInv
  <2>2. QED
    BY <1>2, <2>1 DEF Connect, OnUpgrade, pathVars, FramesInv, FramesInStep
<1>3. CASE Browse /\ ReadsAccept
  BY <1>3 DEF Browse, ReadsAccept, pathVars, FramesInv, FramesInStep
<1>4. CASE Browse /\ ReadsFrame
  <2>1. Head(wire) \in GoodFrame /\ Tail(wire) \in Seq(GoodFrame)
    BY <1>4 DEF FramesInv, ReadsFrame
  <2>2. WellFramed(Head(wire).header, Head(wire).len)
    BY <2>1 DEF GoodFrame
  <2>3. browser' = browser /\ wire' = Tail(wire)
    BY <1>4, <2>2 DEF ReadsFrame
  <2>4. QED
    BY <1>4, <2>1, <2>3 DEF Browse, pathVars, FramesInv, FramesInStep
<1>5. QED
  BY <1>1, <1>2, <1>3, <1>4, FramesInvReceive DEF Next, Peer, Browse, BrowserReads, vars

(* Whatever the dictionaries' lengths, the browser never loses its place   *)
(* in the stream of frames.                                                *)
THEOREM FramesAlwaysInStep == Spec => []FramesInStep
<1>1. Init => FramesInv
  BY JsonLenType DEF Init, WebInit, FramesInv, FramesInStep
<1>2. FramesInv => FramesInStep
  BY DEF FramesInv
<1>3. QED
  BY <1>1, <1>2, FramesInvStep, PTL DEF Spec

-----------------------------------------------------------------------------
(* The lines.                                                              *)

(* The lines that the commands I are, as invariants of the run say. *)
Placed(I, cmds, lines, place) ==
    /\ \A i \in I : place[i] \in 1 .. Len(lines) /\ cmds[i] = lines[place[i]]
    /\ \A i, j \in I : i < j => place[i] < place[j]

(* Line o has been read to its end, or is being read. *)
ReadFrom(o, s, own, off) == s # <<>> => o < own[1] \/ (o = own[1] /\ off[1] > 1)

AllRead(I, place, s, own, off) == \A i \in I : ReadFrom(place[i], s, own, off)

LEMMA ReadFromDrop ==
    ASSUME NEW lines, Lines(lines), NEW s \in Seq(Piece), NEW own, NEW off,
           Laid(s, lines, own, off),
           NEW n, NEW t, NEW own2, NEW off2, Rest(s, own, off, n, t, own2, off2),
           NEW o \in Nat,
           ReadFrom(o, s, own, off) \/ (\E p \in 1 .. n : off[p] = 1 /\ o = own[p])
    PROVE  ReadFrom(o, t, own2, off2)
<1> SUFFICES ASSUME t # <<>>
             PROVE  o < own2[1] \/ (o = own2[1] /\ off2[1] > 1)
  BY DEF ReadFrom
<1>0. /\ n \in 1 .. Len(s) /\ t \in Seq(Piece) /\ Len(t) = Len(s) - n
      /\ \A p \in 1 .. Len(s) - n : own2[p] = own[n + p] /\ off2[p] = off[n + p]
  BY DEF Rest
<1>1. /\ n \in Nat /\ n >= 1 /\ Len(s) \in Nat /\ n < Len(s)
      /\ n + 1 \in 1 .. Len(s) /\ 1 \in 1 .. Len(s) /\ s # <<>> /\ 1 \in 1 .. Len(s) - n
  <2>1. Len(t) # 0 /\ Len(t) \in Nat /\ n \in Nat /\ n >= 1 /\ Len(s) \in Nat
    BY <1>0
  <2>2. QED
    BY <1>0, <2>1
<1>2. own2[1] = own[n + 1] /\ off2[1] = off[n + 1]
  BY <1>0, <1>1
<1>3. own[n + 1] \in Nat /\ off[n + 1] \in Nat
  BY <1>1, LaidPiece
<1>4. PICK p \in 1 .. n : o < own[p] \/ (o = own[p] /\ (off[p] > 1 \/ off[p] = 1))
  BY <1>1 DEF ReadFrom
<1>5. p \in 1 .. Len(s) /\ p < n + 1 /\ (n + 1) - p >= 1
  BY <1>1
<1>6. own[p] \in Nat /\ off[p] \in Nat
  BY <1>5, LaidPiece
<1>7. \/ own[n + 1] = own[p] /\ off[n + 1] = off[p] + ((n + 1) - p)
      \/ own[n + 1] > own[p]
  BY <1>1, <1>5, LaidOrder
<1>8. own[n + 1] > own[p] \/ (own[n + 1] = own[p] /\ off[n + 1] > 1)
  <2>1. off[p] >= 1
    BY <1>5, LaidPiece
  <2>2. (n + 1) - p \in Nat /\ off[p] + ((n + 1) - p) > 1
    BY <1>1, <1>5, <1>6, <2>1
  <2>3. QED
    BY <1>7, <2>2
<1>9. o < own[n + 1] \/ (o = own[n + 1] /\ off[n + 1] > 1)
  BY <1>3, <1>4, <1>6, <1>8
<1>10. QED
  BY <1>2, <1>9

(* A newline ends its line. *)
LEMMA WholeDrop ==
    ASSUME NEW lines, Lines(lines), NEW s \in Seq(Piece), NEW own, NEW off,
           Laid(s, lines, own, off), NEW n \in 1 .. Len(s) - 1, s[n] = "\n"
    PROVE  off[n + 1] = 1
<1>1. n \in 1 .. Len(s) /\ n + 1 \in 1 .. Len(s) /\ n < n + 1 /\ (n + 1) - n = 1
  OBVIOUS
<1>2. /\ off[n] = LineLen(lines, own[n]) /\ LineLen(lines, own[n]) \in Nat
      /\ off[n + 1] \in 1 .. LineLen(lines, own[n + 1]) /\ off[n + 1] \in Nat
      /\ LineLen(lines, own[n + 1]) \in Nat
  BY <1>1, LaidPiece
<1>3. \/ own[n + 1] = own[n] /\ off[n + 1] = off[n] + 1
      \/ 1 >= off[n + 1]
  BY <1>1, LaidOrder
<1>4. CASE own[n + 1] = own[n] /\ off[n + 1] = off[n] + 1
  <2>1. off[n + 1] <= LineLen(lines, own[n])
    BY <1>2, <1>4
  <2>2. QED
    BY <1>2, <1>4, <2>1
<1>5. CASE 1 >= off[n + 1]
  BY <1>2, <1>5
<1>6. QED
  BY <1>3, <1>4, <1>5

Command == [key : DOMAIN Keyword, arg : Seq(Piece)]

OneMore(cmds, c, more) ==
    more[Len(cmds) + 1] = c /\ \A i \in 1 .. Len(cmds) : more[i] = cmds[i]

(* One command more, of the line that begins with piece p of what is read. *)
ReadsNext(cmds, c, more, lines, I, place, s, own, off, p, z) ==
    /\ z = Len(cmds) + 1 /\ Len(cmds) \in Nat /\ I \subseteq 1 .. Len(cmds) /\ OneMore(cmds, c, more)
    /\ Lines(lines) /\ Placed(I, cmds, lines, place)
    /\ s \in Seq(Piece) /\ Laid(s, lines, own, off) /\ AllRead(I, place, s, own, off)
    /\ p \in 1 .. Len(s) /\ off[p] = 1 /\ c = lines[own[p]]

Extends(place2, I, place, z, o) == place2[z] = o /\ \A i \in I : place2[i] = place[i]

LEMMA PlacedMore ==
    ASSUME NEW cmds, NEW c, NEW more, NEW lines, NEW I, NEW place, NEW s, NEW own, NEW off, NEW p, NEW z,
           ReadsNext(cmds, c, more, lines, I, place, s, own, off, p, z)
    PROVE  \E place2 :
             /\ Placed(I \cup {z}, more, lines, place2)
             /\ Extends(place2, I, place, z, own[p])
<1>0. /\ z = Len(cmds) + 1 /\ Len(cmds) \in Nat /\ I \subseteq 1 .. Len(cmds) /\ OneMore(cmds, c, more)
      /\ Lines(lines) /\ Placed(I, cmds, lines, place)
      /\ s \in Seq(Piece) /\ Laid(s, lines, own, off) /\ AllRead(I, place, s, own, off)
      /\ p \in 1 .. Len(s) /\ off[p] = 1 /\ c = lines[own[p]]
  BY DEF ReadsNext
<1> USE <1>0
<1> DEFINE place2 == [i \in I \cup {z} |-> IF i = z THEN own[p] ELSE place[i]]
<1>1. Len(cmds) \in Nat /\ z \in Nat /\ z \notin I /\ \A i \in I : i \in 1 .. Len(cmds) /\ i < z
  OBVIOUS
<1>2. more[z] = c /\ \A i \in I : more[i] = cmds[i]
  BY DEF OneMore
<1>3. place2[z] = own[p] /\ \A i \in I : place2[i] = place[i]
  BY <1>1
<1> HIDE DEF place2
<1>4. own[p] \in 1 .. Len(lines) /\ own[p] \in Nat /\ off[p] \in Nat
  BY LaidPiece
<1>5. ASSUME NEW i \in I
      PROVE  place[i] < own[p]
  <2>1. place[i] \in Nat
    <3>1. place[i] \in 1 .. Len(lines)
      BY DEF Placed
    <3>2. QED
      BY <3>1 DEF Lines
  <2>2. s # <<>> /\ 1 \in 1 .. Len(s)
    OBVIOUS
  <2>3. own[1] \in Nat /\ off[1] \in Nat
    BY <2>2, LaidPiece
  <2>4. place[i] < own[1] \/ (place[i] = own[1] /\ off[1] > 1)
    BY <2>2 DEF ReadFrom, AllRead
  <2>5. CASE p = 1
    BY <2>4, <2>5
  <2>6. CASE p # 1
    <3>1. 1 < p /\ p - 1 \in Nat /\ p \in Nat
      BY <2>6
    <3>2. \/ own[p] = own[1] /\ off[p] = off[1] + (p - 1)
          \/ own[p] > own[1]
      BY <2>2, <3>1, LaidOrder
    <3>3. own[p] > own[1]
      <4>1. off[1] >= 1
        BY <2>2, LaidPiece
      <4>2. off[1] + (p - 1) # 1
        BY <2>3, <3>1, <4>1
      <4>3. QED
        BY <3>2, <4>2
    <3>4. QED
      BY <1>4, <2>1, <2>3, <2>4, <3>3
  <2>7. QED
    BY <2>5, <2>6
<1>6. \A i \in I \cup {z} : place2[i] \in 1 .. Len(lines) /\ more[i] = lines[place2[i]]
  BY <1>2, <1>3, <1>4 DEF Placed
<1>7. ASSUME NEW i \in I \cup {z}, NEW j \in I \cup {z}, i < j
      PROVE  place2[i] < place2[j]
  <2>1. CASE i \in I /\ j \in I
    BY <1>3, <1>7, <2>1 DEF Placed
  <2>2. CASE i \in I /\ j = z
    BY <1>3, <1>5, <2>2
  <2>3. CASE i = z
    <3>1. ~(z < j)
      BY <1>1
    <3>2. QED
      BY <1>7, <2>3, <3>1
  <2>4. QED
    BY <2>1, <2>2, <2>3
<1>8. Placed(I \cup {z}, more, lines, place2)
  BY <1>6, <1>7 DEF Placed
<1>9. QED
  BY <1>3, <1>8 DEF Extends

Obeyed == IF whole THEN DOMAIN called ELSE StatusAt(called)
LineInv ==
    /\ LineTypeOK
    /\ \E own, off, place :
         /\ Laid(stream, sent, own, off) /\ Ends(stream, sent, own, off)
         /\ whole /\ stream # <<>> => off[1] = 1
         /\ Placed(Obeyed, called, sent, place)
         /\ AllRead(Obeyed, place, stream, own, off)

LEMMA SentLines ==
    ASSUME LineTypeOK
    PROVE  Lines(sent)
<1>1. sent \in Seq(PhpLine \cup FoneraLine) /\ Len(sent) \in Nat
  BY DEF LineTypeOK
<1>2. \A i \in 1 .. Len(sent) : sent[i] \in PhpLine \cup FoneraLine
  BY <1>1, ElementOfSeq
<1>3. QED
  BY <1>1, <1>2, LineAssumption DEF Lines

LEMMA ObeyedType ==
    ASSUME LineTypeOK
    PROVE  /\ called \in Seq([key : DOMAIN Keyword, arg : Seq(Piece)])
           /\ Len(called) \in Nat /\ DOMAIN called = 1 .. Len(called)
           /\ Obeyed \subseteq 1 .. Len(called)
<1>1. called \in Seq([key : DOMAIN Keyword, arg : Seq(Piece)])
  BY DEF LineTypeOK
<1>2. Len(called) \in Nat /\ DOMAIN called = 1 .. Len(called)
  BY <1>1
<1>3. StatusAt(called) \subseteq DOMAIN called
  BY DEF StatusAt
<1>4. QED
  BY <1>1, <1>2, <1>3 DEF Obeyed

LEMMA LineInvInit == LineInit => LineInv
<1> SUFFICES ASSUME LineInit PROVE LineInv
  OBVIOUS
<1>1. LineTypeOK
  <2>1. Len(sent) <= MaxLines
    BY LineAssumption DEF LineInit
  <2>2. /\ stream \in Seq(Piece) /\ sent \in Seq(PhpLine \cup FoneraLine)
        /\ called \in Seq([key : DOMAIN Keyword, arg : Seq(Piece)])
    BY DEF LineInit
  <2>3. {whole, raised} \subseteq BOOLEAN /\ from \in {"php", "fonera"} /\ link = "up"
    BY DEF LineInit
  <2>4. QED
    BY <2>1, <2>2, <2>3 DEF LineTypeOK
<1>2. Obeyed = {}
  BY DEF LineInit, Obeyed, StatusAt
<1>3. \A own, off : Laid(stream, sent, own, off) /\ Ends(stream, sent, own, off)
  BY LaidEmpty DEF LineInit
<1>4. \A place : Placed(Obeyed, called, sent, place)
  BY <1>2 DEF Placed
<1>5. stream = <<>>
  BY DEF LineInit
<1>6. \A own, off, place : AllRead(Obeyed, place, stream, own, off)
  BY <1>5 DEF AllRead, ReadFrom
<1>7. QED
  BY <1>1, <1>2, <1>3, <1>4, <1>5, <1>6 DEF LineInv

(* The daemon closes: what is in the stream is lost. *)
LEMMA LineInvEmpty ==
    ASSUME LineInv, stream' = <<>>, UNCHANGED <<from, whole, sent, called>>,
           link' \in {"up", "dropped", "gone"}, raised' \in BOOLEAN
    PROVE  LineInv'
<1>1. LineTypeOK'
  BY DEF LineInv, LineTypeOK
<1>2. Obeyed' = Obeyed
  BY DEF Obeyed, StatusAt
<1>3. PICK place : Placed(Obeyed, called, sent, place)
  BY DEF LineInv
<1>4. \A own, off : Laid(<<>>, sent, own, off) /\ Ends(<<>>, sent, own, off)
  BY LaidEmpty
<1>5. \A own, off : AllRead(Obeyed', place, <<>>, own, off)
  BY DEF AllRead, ReadFrom
<1>6. \A own, off : /\ Laid(stream', sent', own, off) /\ Ends(stream', sent', own, off)
                    /\ Placed(Obeyed', called', sent', place)
                    /\ AllRead(Obeyed', place, stream', own, off)
  BY <1>2, <1>3, <1>4, <1>5
<1>7. QED
  BY <1>1, <1>6 DEF LineInv

LEMMA LineInvSpeaks ==
    ASSUME LineInv, NEW line \in PhpLine \cup FoneraLine, Speaks(line)
    PROVE  LineInv'
<1>1. /\ sent \in Seq(PhpLine \cup FoneraLine) /\ stream \in Seq(Piece) /\ LineTypeOK
      /\ Lines(sent) /\ Len(sent) \in Nat
  BY SentLines DEF LineInv, LineTypeOK
<1>2. WellFormed(line)
  BY LineAssumption
<1>3. /\ sent' = Append(sent, line) /\ stream' = stream \o Text(line)
      /\ Len(sent) < MaxLines
      /\ UNCHANGED <<from, whole, link, called, raised>>
  BY DEF Speaks
<1>4. PICK own, off, place :
         /\ Laid(stream, sent, own, off) /\ Ends(stream, sent, own, off)
         /\ whole /\ stream # <<>> => off[1] = 1
         /\ Placed(Obeyed, called, sent, place)
         /\ AllRead(Obeyed, place, stream, own, off)
  BY DEF LineInv
<1>5. /\ stream' \in Seq(Piece) /\ stream' # <<>>
      /\ \E own2, off2 :
           /\ Laid(stream', sent', own2, off2) /\ Ends(stream', sent', own2, off2)
           /\ stream # <<>> => own2[1] = own[1] /\ off2[1] = off[1]
           /\ stream = <<>> => own2[1] = Len(sent) + 1 /\ off2[1] = 1
  BY <1>1, <1>2, <1>3, <1>4, LaidAppend
<1>6. PICK own2, off2 :
           /\ Laid(stream', sent', own2, off2) /\ Ends(stream', sent', own2, off2)
           /\ stream # <<>> => own2[1] = own[1] /\ off2[1] = off[1]
           /\ stream = <<>> => own2[1] = Len(sent) + 1 /\ off2[1] = 1
  BY <1>5
<1>7. /\ sent' \in Seq(PhpLine \cup FoneraLine) /\ Len(sent') = Len(sent) + 1
      /\ \A i \in 1 .. Len(sent) : sent'[i] = sent[i]
  BY <1>1, <1>3, AppendProperties
<1>8. LineTypeOK'
  <2>1. Len(sent') <= MaxLines
    BY <1>1, <1>3, <1>7, LineAssumption
  <2>2. QED
    BY <1>1, <1>3, <1>5, <1>7, <2>1 DEF LineTypeOK
<1>9. Obeyed' = Obeyed
  BY <1>3 DEF Obeyed, StatusAt
<1>10. \A i \in Obeyed : place[i] \in 1 .. Len(sent) /\ place[i] \in Nat /\ place[i] <= Len(sent)
  BY <1>1, <1>4 DEF Placed
<1>11. Placed(Obeyed', called', sent', place)
  <2>1. ASSUME NEW i \in Obeyed
        PROVE  place[i] \in 1 .. Len(sent') /\ called'[i] = sent'[place[i]]
    <3>1. called[i] = sent[place[i]]
      BY <1>4 DEF Placed
    <3>2. called'[i] = called[i] /\ sent'[place[i]] = sent[place[i]]
      BY <1>3, <1>7, <1>10
    <3>3. place[i] \in 1 .. Len(sent')
      BY <1>1, <1>7, <1>10
    <3>4. QED
      BY <3>1, <3>2, <3>3
  <2>2. \A i, j \in Obeyed : i < j => place[i] < place[j]
    BY <1>4 DEF Placed
  <2>3. QED
    BY <1>9, <2>1, <2>2 DEF Placed
<1>12. AllRead(Obeyed', place, stream', own2, off2)
  <2> SUFFICES ASSUME NEW i \in Obeyed
               PROVE  place[i] < own2[1] \/ (place[i] = own2[1] /\ off2[1] > 1)
    BY <1>9 DEF ReadFrom, AllRead
  <2>1. CASE stream = <<>>
    BY <1>1, <1>6, <1>10, <2>1
  <2>2. CASE stream # <<>>
    BY <1>4, <1>6, <2>2 DEF ReadFrom, AllRead
  <2>3. QED
    BY <2>1, <2>2
<1>13. whole' /\ stream' # <<>> => off2[1] = 1
  BY <1>3, <1>4, <1>6
<1>14. QED
  BY <1>6, <1>8, <1>11, <1>12, <1>13 DEF LineInv

(* A recv of n pieces takes them from the stream. *)
LEMMA Taken ==
    ASSUME LineInv, NEW n \in Receivable, NEW own, NEW off,
           Laid(stream, sent, own, off), Ends(stream, sent, own, off),
           whole /\ stream # <<>> => off[1] = 1,
           Consume(n)
    PROVE  /\ n \in 1 .. Len(stream)
           /\ stream' \in Seq(Piece) /\ Len(stream') = Len(stream) - n
           /\ \E own2, off2 :
                /\ Laid(stream', sent', own2, off2) /\ Ends(stream', sent', own2, off2)
                /\ whole' /\ stream' # <<>> => off2[1] = 1
                /\ \A o \in Nat :
                     ReadFrom(o, stream, own, off) \/ (\E p \in 1 .. n : off[p] = 1 /\ o = own[p])
                       => ReadFrom(o, stream', own2, off2)
<1>1. stream \in Seq(Piece) /\ Len(stream) \in Nat /\ Lines(sent)
  BY SentLines DEF LineInv, LineTypeOK
<1>2. /\ n \in 1 .. Len(stream) /\ n \in 0 .. Len(stream) /\ n \in Nat /\ stream # <<>>
      /\ whole => stream[n] = "\n"
  <2>1. n \in DOMAIN stream /\ (whole => stream[n] = "\n")
    BY DEF Receivable
  <2>2. QED
    BY <1>1, <2>1
<1>3. stream' = SubSeq(stream, n + 1, Len(stream)) /\ sent' = sent /\ whole' = whole
  BY DEF Consume
<1>4. PICK own2, off2 :
           /\ Laid(stream', sent, own2, off2) /\ Ends(stream', sent, own2, off2)
           /\ Rest(stream, own, off, n, stream', own2, off2)
  <2> DEFINE t == SubSeq(stream, n + 1, Len(stream))
  <2>1. EndsWith(stream, n, t)
    BY DEF EndsWith
  <2>2. stream' = t
    BY <1>3
  <2> HIDE DEF t
  <2>3. \E own2, off2 : /\ Laid(t, sent, own2, off2) /\ Ends(t, sent, own2, off2)
                        /\ Rest(stream, own, off, n, t, own2, off2)
    BY <1>1, <1>2, <2>1, LaidDrop
  <2>4. QED
    BY <2>2, <2>3
<1>5. /\ stream' \in Seq(Piece) /\ Len(stream') = Len(stream) - n
      /\ \A p \in 1 .. Len(stream) - n : own2[p] = own[n + p] /\ off2[p] = off[n + p]
  BY <1>4 DEF Rest
<1>6. whole' /\ stream' # <<>> => off2[1] = 1
  <2> SUFFICES ASSUME whole, stream' # <<>>
               PROVE  off2[1] = 1
    BY <1>3
  <2>1. Len(stream') # 0
    BY <1>5
  <2>2. n \in 1 .. Len(stream) - 1 /\ 1 \in 1 .. Len(stream) - n
    BY <1>1, <1>2, <1>5, <2>1
  <2>3. off[n + 1] = 1
    BY <1>1, <1>2, <2>2, WholeDrop
  <2>4. QED
    BY <1>5, <2>2, <2>3
<1>7. \A o \in Nat :
        ReadFrom(o, stream, own, off) \/ (\E p \in 1 .. n : off[p] = 1 /\ o = own[p])
          => ReadFrom(o, stream', own2, off2)
  <2> SUFFICES ASSUME NEW o \in Nat,
                      ReadFrom(o, stream, own, off) \/ (\E p \in 1 .. n : off[p] = 1 /\ o = own[p])
               PROVE  ReadFrom(o, stream', own2, off2)
    OBVIOUS
  <2>1. QED
    BY <1>1, <1>4, ReadFromDrop
<1>8. QED
  BY <1>2, <1>3, <1>4, <1>5, <1>6, <1>7

LEMMA TakenType ==
    ASSUME LineInv, NEW n \in Receivable, Consume(n), raised' \in BOOLEAN,
           called' \in Seq([key : DOMAIN Keyword, arg : Seq(Piece)]),
           stream' \in Seq(Piece)
    PROVE  LineTypeOK'
BY DEF LineInv, LineTypeOK, Consume

LEMMA LineInvConsume ==
    ASSUME LineInv, NEW n \in Receivable, Consume(n), called' = called, raised' \in BOOLEAN
    PROVE  LineInv'
<1>1. PICK own, off, place :
         /\ Laid(stream, sent, own, off) /\ Ends(stream, sent, own, off)
         /\ whole /\ stream # <<>> => off[1] = 1
         /\ Placed(Obeyed, called, sent, place)
         /\ AllRead(Obeyed, place, stream, own, off)
  BY DEF LineInv
<1>2. PICK own2, off2 :
         /\ Laid(stream', sent', own2, off2) /\ Ends(stream', sent', own2, off2)
         /\ whole' /\ stream' # <<>> => off2[1] = 1
         /\ \A o \in Nat : ReadFrom(o, stream, own, off) => ReadFrom(o, stream', own2, off2)
  BY <1>1, Taken
<1>3. LineTypeOK'
  <2>1. stream' \in Seq(Piece)
    BY <1>1, Taken
  <2>2. called' \in Seq([key : DOMAIN Keyword, arg : Seq(Piece)])
    BY DEF LineInv, LineTypeOK
  <2>3. QED
    BY <2>1, <2>2, TakenType
<1>4. Obeyed' = Obeyed /\ sent' = sent
  BY DEF Obeyed, StatusAt, Consume
<1>5. \A i \in Obeyed : place[i] \in Nat
  <2>1. Lines(sent)
    BY SentLines DEF LineInv
  <2>2. QED
    BY <1>1, <2>1 DEF Placed, Lines
<1>6. AllRead(Obeyed', place, stream', own2, off2)
  BY <1>1, <1>2, <1>4, <1>5 DEF AllRead
<1>7. Placed(Obeyed', called', sent', place)
  BY <1>1, <1>4
<1>8. QED
  BY <1>2, <1>3, <1>6, <1>7 DEF LineInv

(* The message of a recv, and the command that it is. *)
LEMMA MessageType ==
    ASSUME LineInv, NEW n \in Receivable, NEW c \in Commands(Message(n))
    PROVE  c \in [key : DOMAIN Keyword, arg : Seq(Piece)]
<1>1. stream \in Seq(Piece) /\ from \in {"php", "fonera"} /\ n \in 0 .. Len(stream)
  BY DEF LineInv, LineTypeOK, Receivable
<1>2. SubSeq(stream, 1, n) \in Seq(Piece)
  BY <1>1
<1>3. Message(n) \in Seq(Piece)
  BY <1>2, MessageIndexes DEF Message
<1>4. QED
  BY <1>1, <1>3, CommandType

LEMMA CommandSent ==
    ASSUME LineInv, NEW n \in Receivable, NEW c \in Commands(Message(n)),
           NEW own, NEW off, Laid(stream, sent, own, off),
           whole /\ stream # <<>> => off[1] = 1,
           whole \/ c.key = "status"
    PROVE  \E p \in 1 .. n :
             /\ off[p] = 1 /\ own[p] \in 1 .. Len(sent) /\ c = sent[own[p]]
             /\ c.key = "status" => own[p] = own[n]
<1> DEFINE s == SubSeq(stream, 1, n)
           m == Message(n)
<1>1. /\ stream \in Seq(Piece) /\ from \in {"php", "fonera"} /\ Lines(sent)
      /\ n \in 1 .. Len(stream) /\ n \in 0 .. Len(stream) /\ stream # <<>>
      /\ whole => stream[n] = "\n"
  <2>1. stream \in Seq(Piece) /\ from \in {"php", "fonera"} /\ Lines(sent)
    BY SentLines DEF LineInv, LineTypeOK
  <2>2. n \in DOMAIN stream /\ (whole => stream[n] = "\n")
    BY DEF Receivable
  <2>3. QED
    BY <2>1, <2>2
<1>2. /\ s \in Seq(Piece) /\ Len(s) = n /\ Laid(s, sent, own, off)
      /\ \A p \in 1 .. n : s[p] = stream[p]
  BY <1>1, LaidPrefix
<1>3. m \in Seq(Piece) /\ \E idx : Indexes(s, idx, m)
  BY <1>2, MessageIndexes DEF Message
<1> HIDE DEF s, m
<1>4. PICK idx : Indexes(s, idx, m)
  BY <1>3
<1>5. s # <<>> /\ s[n] = stream[n]
  BY <1>1, <1>2
<1>6. c.key = "status" \/ (off[1] = 1 /\ s[Len(s)] = "\n")
  BY <1>1, <1>2, <1>5
<1>7. c \in Commands(m)
  BY DEF m
<1>8. \E p \in 1 .. Len(s) :
        /\ off[p] = 1 /\ own[p] \in 1 .. Len(sent) /\ c = sent[own[p]]
        /\ c.key = "status" => own[p] = own[Len(s)]
  BY <1>1, <1>2, <1>3, <1>4, <1>5, <1>6, <1>7, CommandMeaning
<1>9. QED
  BY <1>2, <1>8

LEMMA LineInvCommand ==
    ASSUME LineInv, NEW n \in Receivable, NEW c \in Commands(Message(n)), ReadCommand(n, c)
    PROVE  LineInv'
<1> DEFINE z == Len(called) + 1
<1>1. PICK own, off, place :
         /\ Laid(stream, sent, own, off) /\ Ends(stream, sent, own, off)
         /\ whole /\ stream # <<>> => off[1] = 1
         /\ Placed(Obeyed, called, sent, place)
         /\ AllRead(Obeyed, place, stream, own, off)
  BY DEF LineInv
<1>2. Consume(n) /\ called' = Append(called, c) /\ raised' = raised
  BY DEF ReadCommand
<1>3. /\ n \in 1 .. Len(stream) /\ stream' \in Seq(Piece)
  BY <1>1, <1>2, Taken
<1>4. PICK own2, off2 :
         /\ Laid(stream', sent', own2, off2) /\ Ends(stream', sent', own2, off2)
         /\ whole' /\ stream' # <<>> => off2[1] = 1
         /\ \A o \in Nat :
              ReadFrom(o, stream, own, off) \/ (\E p \in 1 .. n : off[p] = 1 /\ o = own[p])
                => ReadFrom(o, stream', own2, off2)
  BY <1>1, <1>2, Taken
<1>5. /\ c \in Command /\ called \in Seq(Command) /\ Len(called) \in Nat
      /\ DOMAIN called = 1 .. Len(called) /\ Obeyed \subseteq 1 .. Len(called)
      /\ stream \in Seq(Piece) /\ Lines(sent) /\ raised \in BOOLEAN
  BY MessageType, ObeyedType, SentLines DEF LineInv, LineTypeOK, Command
<1>6. /\ called' \in Seq(Command) /\ Len(called') = z /\ called'[z] = c
      /\ \A i \in 1 .. Len(called) : called'[i] = called[i]
      /\ DOMAIN called' = (DOMAIN called) \cup {z}
  <2>1. /\ called' \in Seq(Command) /\ Len(called') = z /\ called'[z] = c
        /\ \A i \in 1 .. Len(called) : called'[i] = called[i]
    BY <1>2, <1>5, AppendProperties
  <2>2. DOMAIN called' = 1 .. z
    BY <2>1
  <2>3. 1 .. z = (1 .. Len(called)) \cup {z}
    BY <1>5
  <2>4. QED
    BY <1>5, <2>1, <2>2, <2>3
<1>7. LineTypeOK'
  BY <1>2, <1>3, <1>5, <1>6, TakenType DEF Command
<1>8. whole' = whole /\ sent' = sent
  BY <1>2 DEF Consume
<1>9. StatusAt(called') = IF c.key = "status" THEN StatusAt(called) \cup {z} ELSE StatusAt(called)
  <2>1. \A i \in DOMAIN called : called'[i].key = called[i].key
    BY <1>5, <1>6
  <2>2. called'[z].key = c.key /\ z \notin DOMAIN called
    BY <1>5, <1>6
  <2>3. QED
    BY <1>6, <2>1, <2>2 DEF StatusAt
<1>10. \A i \in Obeyed : place[i] \in Nat
  BY <1>1, <1>5 DEF Placed, Lines
<1>11. CASE whole \/ c.key = "status"
  <2>1. Obeyed' = Obeyed \cup {z}
    BY <1>6, <1>8, <1>9, <1>11 DEF Obeyed
  <2>2. PICK p \in 1 .. n : off[p] = 1 /\ own[p] \in 1 .. Len(sent) /\ c = sent[own[p]]
    BY <1>1, <1>11, CommandSent
  <2>3. p \in 1 .. Len(stream)
    BY <1>3, <1>5
  <2> HIDE DEF z
  <2>4. PICK place2 : /\ Placed(Obeyed \cup {z}, called', sent, place2)
                      /\ \A i \in Obeyed : place2[i] = place[i]
                      /\ place2[z] = own[p]
    <3>1. /\ Placed(Obeyed, called, sent, place)
          /\ Laid(stream, sent, own, off)
          /\ AllRead(Obeyed, place, stream, own, off)
      BY <1>1
    <3>2. off[p] = 1 /\ c = sent[own[p]]
      BY <2>2
    <3>3. OneMore(called, c, called')
      BY <1>6 DEF OneMore, z
    <3>4. ReadsNext(called, c, called', sent, Obeyed, place, stream, own, off, p, z)
      BY <1>5, <2>3, <3>1, <3>2, <3>3 DEF ReadsNext, z
    <3>5. \E place2 : /\ Placed(Obeyed \cup {z}, called', sent, place2)
                      /\ Extends(place2, Obeyed, place, z, own[p])
      BY <3>4, PlacedMore
    <3>6. QED
      BY <3>5 DEF Extends
  <2>5. Placed(Obeyed', called', sent', place2)
    BY <1>2, <1>8, <2>1, <2>4 DEF z
  <2>6. ASSUME NEW i \in Obeyed'
        PROVE  ReadFrom(place2[i], stream', own2, off2)
    <3>1. CASE i = z
      <4>1. place2[i] = own[p] /\ own[p] \in Nat
        BY <1>5, <2>2, <2>4, <3>1 DEF z, Lines
      <4>2. QED
        BY <1>4, <2>2, <4>1
    <3>2. CASE i \in Obeyed
      BY <1>1, <1>4, <1>10, <2>4, <3>2 DEF AllRead
    <3>3. QED
      BY <2>1, <3>1, <3>2
  <2>7. QED
    BY <1>4, <1>7, <2>5, <2>6 DEF LineInv, AllRead
<1>12. CASE ~whole /\ c.key # "status"
  <2>1. Obeyed' = Obeyed
    BY <1>8, <1>9, <1>12 DEF Obeyed
  <2>2. Placed(Obeyed', called', sent', place)
    <3>1. \A i \in Obeyed : called'[i] = called[i]
      BY <1>5, <1>6
    <3>2. QED
      BY <1>1, <1>8, <2>1, <3>1 DEF Placed
  <2>3. AllRead(Obeyed', place, stream', own2, off2)
    BY <1>1, <1>4, <1>10, <2>1 DEF AllRead
  <2>4. QED
    BY <1>4, <1>7, <2>2, <2>3 DEF LineInv
<1>13. QED
  BY <1>11, <1>12

LEMMA LineInvStep == LineInv /\ [Next]_vars => LineInv'
<1> SUFFICES ASSUME LineInv, [Next]_vars PROVE LineInv'
  OBVIOUS
<1>0. raised \in BOOLEAN
  BY DEF LineInv, LineTypeOK
<1>1. ASSUME UNCHANGED <<from, whole, stream, sent, called, raised>>,
             link' \in {"up", "closing", "gone", "dropped"}
      PROVE  LineInv'
  <2>1. LineTypeOK' /\ Obeyed' = Obeyed
    BY <1>1 DEF LineInv, LineTypeOK, Obeyed, StatusAt
  <2>2. PICK own, off, place :
           /\ Laid(stream, sent, own, off) /\ Ends(stream, sent, own, off)
           /\ whole /\ stream # <<>> => off[1] = 1
           /\ Placed(Obeyed, called, sent, place)
           /\ AllRead(Obeyed, place, stream, own, off)
    BY DEF LineInv
  <2>3. stream' = stream /\ sent' = sent /\ whole' = whole /\ called' = called
    BY <1>1
  <2>4. /\ Laid(stream', sent', own, off) /\ Ends(stream', sent', own, off)
        /\ whole' /\ stream' # <<>> => off[1] = 1
        /\ Placed(Obeyed', called', sent', place)
        /\ AllRead(Obeyed', place, stream', own, off)
    BY <2>1, <2>2, <2>3
  <2>5. QED
    BY <2>1, <2>4 DEF LineInv
<1>2. CASE Peer
  <2>1. CASE HangsUp
    BY <1>1, <2>1 DEF HangsUp
  <2>2. ASSUME NEW line \in PhpLine \cup FoneraLine, Speaks(line)
        PROVE  LineInv'
    BY <2>2, LineInvSpeaks
  <2>3. QED
    BY <1>2, <2>1, <2>2 DEF Peer
<1>3. ASSUME NEW n \in Receivable, Ignore(n)
      PROVE  LineInv'
  <2>1. CASE Disconnect /\ UNCHANGED <<called, raised>>
    BY <1>0, <2>1, LineInvEmpty DEF Disconnect
  <2>2. CASE Consume(n) /\ UNCHANGED <<called, raised>>
    BY <1>0, <2>2, LineInvConsume
  <2>3. QED
    BY <1>3, <2>1, <2>2 DEF Ignore, ReadNothing, ReadNonsense
<1>4. ASSUME NEW n \in Receivable, NEW c \in Commands(Message(n)),
             ObeyStatus(n, c) \/ ObeyNews(n, c) \/ ObeyOther(n, c) \/ Fail(n, c)
      PROVE  LineInv'
  <2>1. CASE ReadCommand(n, c)
    BY <2>1, LineInvCommand
  <2>2. CASE CommandRaises(n, c)
    <3>1. CASE Disconnect
      BY <2>2, <3>1, LineInvEmpty DEF Disconnect, CommandRaises
    <3>2. CASE Consume(n)
      BY <2>2, <3>2, LineInvConsume DEF CommandRaises
    <3>3. QED
      BY <2>2, <3>1, <3>2 DEF CommandRaises
  <2>3. QED
    BY <1>4, <2>1, <2>2 DEF ObeyStatus, ObeyNews, ObeyOther, Fail
<1>5. CASE Receive
  <2>1. CASE ReadEnd
    BY <1>1, <2>1 DEF ReadEnd
  <2>2. QED
    BY <1>3, <1>4, <1>5, <2>1 DEF Receive
<1>6. CASE UNCHANGED lineVars
  <2>1. link \in {"up", "closing", "gone", "dropped"}
    BY DEF LineInv, LineTypeOK
  <2>2. QED
    BY <1>1, <1>6, <2>1 DEF lineVars
<1>7. QED
  BY <1>2, <1>5, <1>6 DEF Next, Connect, Browse, vars

LEMMA PlacedInOrder ==
    ASSUME NEW cmds, NEW lines, NEW O, NEW place, Placed(O, cmds, lines, place),
           NEW I, I \subseteq O, NEW J, \A i \in I : place[i] \in J
    PROVE  InOrder(cmds, I, lines, J)
<1> DEFINE q == [i \in I |-> place[i]]
<1>1. q \in [I -> J] /\ \A i \in I : q[i] = place[i]
  OBVIOUS
<1> HIDE DEF q
<1>2. \A i \in I : cmds[i] = lines[q[i]]
  BY <1>1 DEF Placed
<1>3. \A i, j \in I : i < j => q[i] < q[j]
  BY <1>1 DEF Placed
<1>4. QED
  BY <1>1, <1>2, <1>3 DEF InOrder

LEMMA LineInvOrder == LineInv => StatusesWereSent /\ WholeLinesWereSent
<1> SUFFICES ASSUME LineInv PROVE StatusesWereSent /\ WholeLinesWereSent
  OBVIOUS
<1>1. PICK place : Placed(Obeyed, called, sent, place)
  BY DEF LineInv
<1>2. DOMAIN sent = 1 .. Len(sent)
  BY SentLines DEF LineInv, Lines, LineTypeOK
<1>3. StatusAt(called) \subseteq Obeyed
  BY DEF StatusAt, Obeyed
<1>4. \A i \in Obeyed : place[i] \in DOMAIN sent
  BY <1>1, <1>2 DEF Placed
<1>5. \A i \in StatusAt(called) : place[i] \in StatusAt(sent)
  <2> SUFFICES ASSUME NEW i \in StatusAt(called) PROVE place[i] \in StatusAt(sent)
    OBVIOUS
  <2>1. called[i].key = "status" /\ i \in Obeyed
    BY <1>3 DEF StatusAt
  <2>2. called[i] = sent[place[i]] /\ place[i] \in DOMAIN sent
    BY <1>1, <1>4, <2>1 DEF Placed
  <2>3. QED
    BY <2>1, <2>2 DEF StatusAt
<1>6. StatusesWereSent
  BY <1>1, <1>3, <1>5, PlacedInOrder DEF StatusesWereSent
<1>7. WholeLinesWereSent
  <2> SUFFICES ASSUME whole PROVE InOrder(called, DOMAIN called, sent, DOMAIN sent)
    BY DEF WholeLinesWereSent
  <2>1. Obeyed = DOMAIN called
    BY DEF Obeyed
  <2>2. QED
    BY <1>1, <1>4, <2>1, PlacedInOrder
<1>8. QED
  BY <1>6, <1>7

(* However TCP merges and cuts what a peer sends, the status commands that *)
(* php_message_handler and fonera_command_handler obey are lines it sent,  *)
(* in that order.                                                          *)
THEOREM StatusesAlwaysSent == Spec => []StatusesWereSent
<1>1. Init => LineInv
  BY LineInvInit DEF Init
<1>2. LineInv => StatusesWereSent
  BY LineInvOrder
<1>3. QED
  BY <1>1, <1>2, LineInvStep, PTL DEF Spec

(* If TCP only merges lines, both handlers' splits give back every command *)
(* as it was sent: no argument of one line gets into another.              *)
THEOREM WholeLinesAlwaysSent == Spec => []WholeLinesWereSent
<1>1. Init => LineInv
  BY LineInvInit DEF Init
<1>2. LineInv => WholeLinesWereSent
  BY LineInvOrder
<1>3. QED
  BY <1>1, <1>2, LineInvStep, PTL DEF Spec

-----------------------------------------------------------------------------
(* The handshake.                                                          *)

WebInv ==
    /\ browser \in {"away", "handshake", "open"}
    /\ {expects, accept} \subseteq Seq(Digit \cup {Pad})
    /\ shown \in {{}, {TRUE}, {FALSE}}
    /\ browser = "handshake" =>
         \E d \in Digest : expects = Rfc4648(d) /\ accept = base64_encode(d)

LEMMA WebInvStep == FramesInv /\ WebInv /\ [Next]_vars => WebInv'
<1> SUFFICES ASSUME FramesInv, WebInv, [Next]_vars PROVE WebInv'
  OBVIOUS
<1>1. CASE UNCHANGED webVars
  BY <1>1 DEF WebInv, webVars
<1>2. CASE PushUpdate
  BY <1>2 DEF PushUpdate, Publish, WebInv
<1>3. CASE Receive
  BY <1>1, <1>2, <1>3 DEF Receive, Ignore, ObeyStatus, ObeyNews, ObeyOther, Fail
<1>4. CASE Connect
  <2>1. PICK d \in Digest : OnUpgrade(d, status, JsonLen[version])
    BY <1>4 DEF Connect
  <2>2. d \in Seq(Byte)
    BY StreamAssumption
  <2>3. /\ expects' = Rfc4648(d) /\ accept' = base64_encode(d)
        /\ browser' = "handshake" /\ shown' = shown
    BY <2>1 DEF OnUpgrade
  <2>4. Rfc4648(d) \in Seq(Digit \cup {Pad}) /\ base64_encode(d) = Rfc4648(d)
    BY <2>2, Rfc4648Type, EncodeIsRfc4648
  <2>5. QED
    BY <2>3, <2>4 DEF WebInv
<1>5. CASE ReadsAccept
  <2>1. PICK d \in Digest : expects = Rfc4648(d) /\ accept = base64_encode(d)
    BY <1>5 DEF ReadsAccept, WebInv
  <2>2. d \in Seq(Byte)
    BY StreamAssumption
  <2>3. accept = expects
    BY <2>1, <2>2, EncodeIsRfc4648
  <2>4. browser' = "open" /\ expects' = <<>> /\ accept' = <<>> /\ shown' = shown
    BY <1>5, <2>3 DEF ReadsAccept
  <2>5. <<>> \in Seq(Digit \cup {Pad})
    OBVIOUS
  <2>6. {expects', accept'} \subseteq Seq(Digit \cup {Pad})
    BY <2>4, <2>5
  <2>7. QED
    BY <2>4, <2>6 DEF WebInv
<1>6. CASE ReadsFrame
  <2>1. Head(wire) \in GoodFrame
    BY <1>6 DEF FramesInv, ReadsFrame
  <2>2. WellFramed(Head(wire).header, Head(wire).len) /\ Head(wire).status \in BOOLEAN
    BY <2>1 DEF GoodFrame
  <2>3. /\ browser' = browser /\ shown' = {Head(wire).status}
        /\ expects' = expects /\ accept' = accept
    BY <1>6, <2>2 DEF ReadsFrame
  <2>4. QED
    BY <2>2, <2>3 DEF WebInv
<1>7. QED
  BY <1>1, <1>3, <1>4, <1>5, <1>6 DEF Next, Peer, Browse, BrowserReads, vars

LEMMA WebInvInit == Init => FramesInv /\ WebInv
BY JsonLenType DEF Init, WebInit, FramesInv, FramesInStep, WebInv

(* onClientData answers every upgrade with the Accept of RFC 6455, and     *)
(* base64_decode takes it back to the hash, for hashes of every length.    *)
THEOREM HandshakeAlwaysAccepted == Spec => []HandshakeAccepted
<1>1. WebInv => HandshakeAccepted
  <2> SUFFICES ASSUME WebInv PROVE HandshakeAccepted
    OBVIOUS
  <2>1. ASSUME browser = "handshake"
        PROVE  Rfc4648(base64_decode(accept)) = expects
    <3>1. PICK d \in Digest : expects = Rfc4648(d) /\ accept = base64_encode(d)
      BY <2>1 DEF WebInv
    <3>2. base64_decode(base64_encode(d)) = d
      BY StreamAssumption, DecodeInvertsEncode
    <3>3. QED
      BY <3>1, <3>2
  <2>2. QED
    BY <2>1 DEF WebInv, HandshakeAccepted
<1>2. QED
  BY <1>1, WebInvInit, FramesInvStep, WebInvStep, PTL DEF Spec

LEMMA SeqWider ==
    ASSUME NEW S, NEW T, S \subseteq T, NEW w \in Seq(S)
    PROVE  w \in Seq(T)
<1>1. /\ Len(w) \in Nat /\ w = [i \in 1 .. Len(w) |-> w[i]]
      /\ \A i \in 1 .. Len(w) : w[i] \in T
  BY ElementOfSeq
<1>2. [i \in 1 .. Len(w) |-> w[i]] \in Seq(T)
  BY <1>1
<1>3. QED
  BY <1>1, <1>2

(* The types of the whole way of a status, from the lines of the peer to   *)
(* what the browser shows.                                                 *)
THEOREM TypeAlwaysOK == Spec => []TypeOK
<1>1. Init => LineInv
  BY LineInvInit DEF Init
<1>2. LineInv /\ FramesInv /\ WebInv => TypeOK
  <2> SUFFICES ASSUME LineInv, FramesInv, WebInv PROVE TypeOK
    OBVIOUS
  <2>1. GoodFrame \subseteq [header : Seq(Byte), status : BOOLEAN, len : Nat]
    BY DEF GoodFrame
  <2>2. wire \in Seq([header : Seq(Byte), status : BOOLEAN, len : Nat])
    BY <2>1, SeqWider DEF FramesInv
  <2>3. DOMAIN JsonLen = 1 .. Len(JsonLen)
    BY StreamAssumption
  <2>4. QED
    BY <2>2, <2>3 DEF LineInv, FramesInv, WebInv, TypeOK, WebTypeOK
<1>3. QED
  BY <1>1, <1>2, LineInvStep, WebInvInit, FramesInvStep, WebInvStep, PTL DEF Spec

-----------------------------------------------------------------------------
(* The last status.                                                        *)

StatusLines == whole /\ StatusAt(sent) = DOMAIN sent

LastInv ==
    (StatusLines /\ ~raised) =>
      /\ link # "dropped"
      /\ sent # <<>> /\ stream = <<>> => status = Value(LastSent.arg)

(* What a browser is to read last is the status of the daemon. *)
ShownInv ==
    /\ browser = "handshake" => wire # <<>>
    /\ ~raised /\ browser \in {"handshake", "open"} /\ wire # <<>> =>
         wire[Len(wire)].status = status
    /\ ~raised /\ browser = "open" /\ wire = <<>> => shown = {status}

LEMMA StatusRead ==
    ASSUME LineInv, StatusLines, NEW n \in Receivable
    PROVE  Message(n) # <<>> /\ Commands(Message(n)) # {}
<1> DEFINE s == SubSeq(stream, 1, n)
           m == Message(n)
<1>1. /\ stream \in Seq(Piece) /\ from \in {"php", "fonera"} /\ Lines(sent)
      /\ n \in 1 .. Len(stream) /\ n \in 0 .. Len(stream) /\ stream # <<>>
      /\ whole /\ stream[n] = "\n" /\ DOMAIN sent = 1 .. Len(sent)
  <2>1. /\ stream \in Seq(Piece) /\ from \in {"php", "fonera"} /\ Lines(sent)
        /\ sent \in Seq(PhpLine \cup FoneraLine)
    BY SentLines DEF LineInv, LineTypeOK
  <2>2. n \in DOMAIN stream /\ whole /\ stream[n] = "\n"
    BY DEF Receivable, StatusLines
  <2>3. QED
    BY <2>1, <2>2
<1>2. PICK own, off : Laid(stream, sent, own, off) /\ off[1] = 1
  BY <1>1 DEF LineInv
<1>3. /\ s \in Seq(Piece) /\ Len(s) = n /\ Laid(s, sent, own, off)
      /\ \A p \in 1 .. n : s[p] = stream[p]
  BY <1>1, <1>2, LaidPrefix
<1>4. m \in Seq(Piece) /\ \E idx : Indexes(s, idx, m)
  BY <1>3, MessageIndexes DEF Message
<1> HIDE DEF s, m
<1>5. PICK idx : Indexes(s, idx, m)
  BY <1>4
<1>6. s # <<>> /\ s[Len(s)] = "\n" /\ 1 \in 1 .. Len(s) /\ Len(s) \in 1 .. Len(s)
  BY <1>1, <1>3
<1>7. ASSUME NEW p \in 1 .. Len(s)
      PROVE  /\ sent[own[p]].key = "status" /\ IsInt(sent[own[p]].arg)
             /\ Len(sent[own[p]].arg) = 1
  <2>1. own[p] \in 1 .. Len(sent)
    BY <1>1, <1>3, LaidPiece
  <2>2. sent[own[p]].key = "status"
    BY <1>1, <2>1 DEF StatusLines, StatusAt
  <2>3. WellFormed(sent[own[p]])
    BY <1>1, <2>1 DEF Lines
  <2>4. "status" \in IntKey.php
    BY DEF IntKey
  <2>5. QED
    BY <2>2, <2>3, <2>4 DEF WellFormed
<1>8. "status" \in DOMAIN Keyword /\ "status" \in IntKey[from]
  <2>1. "status" \in IntKey["php"] /\ "status" \in IntKey["fonera"]
    BY DEF IntKey
  <2>2. QED
    BY <1>1, <2>1, Keywords
<1>9. IsInt(LastPart(m, "status"))
  BY <1>1, <1>2, <1>3, <1>4, <1>5, <1>6, <1>7, <1>8, NumberAtEnd
<1>10. StartsWith(m, "status") /\ m # <<>>
  <2>1. /\ Len(sent[own[1]].arg) \in Nat
        /\ m[1] = Keyword[sent[own[1]].key][1] /\ m[2] = Keyword[sent[own[1]].key][2]
        /\ Len(m) >= 2 + Len(sent[own[1]].arg)
    BY <1>1, <1>2, <1>3, <1>4, <1>5, <1>6, WholeStart
  <2>2. sent[own[1]].key = "status" /\ Len(sent[own[1]].arg) = 1
    BY <1>6, <1>7
  <2>3. Len(m) \in Nat /\ Len(m) >= 3 /\ 1 \in 1 .. Len(m) - 1 /\ 1 + 1 = 2
    <3>1. Len(m) \in Nat /\ 2 + 1 = 3
      BY <1>4
    <3>2. Len(m) >= 3
      BY <2>1, <2>2, <3>1
    <3>3. QED
      BY <3>1, <3>2
  <2>4. SubSeq(m, 1, 1 + 1) = Keyword["status"]
    BY <1>4, <1>8, <2>1, <2>2, <2>3, KeywordAt
  <2>5. m # <<>>
    BY <2>3
  <2>6. QED
    BY <2>3, <2>4, <2>5 DEF StartsWith
<1>11. [key |-> "status", arg |-> LastPart(m, "status")] \in IntCommand(m)
  BY <1>8, <1>9, <1>10 DEF IntCommand
<1>12. QED
  BY <1>10, <1>11 DEF m, Commands

LEMMA LastInvStep == LineInv /\ LastInv /\ [Next]_vars => LastInv'
<1> SUFFICES ASSUME LineInv, LastInv, [Next]_vars PROVE LastInv'
  OBVIOUS
<1>1. CASE UNCHANGED <<lineVars, pathVars>>
  BY <1>1 DEF LastInv, StatusLines, StatusAt, LastSent, lineVars, pathVars, Value
<1>0. ASSUME UNCHANGED <<from, whole, stream, sent, called, raised, status>>,
             link' \in {"closing", "gone"}
      PROVE  LastInv'
  <2>1. ~(link' = "dropped")
    BY <1>0
  <2>2. QED
    BY <1>0, <2>1 DEF LastInv, StatusLines, StatusAt, LastSent, Value
<1>2. CASE Peer
  <2>1. CASE HangsUp
    BY <1>0, <1>2, <2>1 DEF HangsUp, Peer, pathVars
  <2>2. ASSUME NEW line \in PhpLine \cup FoneraLine, Speaks(line)
        PROVE  LastInv'
    <3>1. stream \in Seq(Piece) /\ Text(line) \in Seq(Piece) /\ Len(Text(line)) >= 3
      <4>1. WellFormed(line)
        BY LineAssumption
      <4>2. /\ Text(line) \in Seq(Piece) /\ Len(line.arg) \in Nat
            /\ Len(Text(line)) = 3 + Len(line.arg)
        BY <4>1, TextPieces
      <4>3. QED
        BY <4>2 DEF LineInv, LineTypeOK
    <3>2. stream' # <<>> /\ link' = "up"
      <4>1. stream' = stream \o Text(line) /\ link' = "up"
        BY <2>2 DEF Speaks
      <4>2. Len(stream \o Text(line)) = Len(stream) + Len(Text(line))
        BY <3>1
      <4>3. Len(stream) \in Nat /\ Len(Text(line)) \in Nat
        BY <3>1
      <4>4. Len(stream \o Text(line)) # 0
        BY <3>1, <4>2, <4>3
      <4>5. stream \o Text(line) # <<>>
        BY <4>4
      <4>6. QED
        BY <4>1, <4>5
    <3>3. QED
      BY <3>2 DEF LastInv
  <2>3. QED
    BY <1>2, <2>1, <2>2 DEF Peer
<1>3. ASSUME NEW n \in Receivable, Ignore(n)
      PROVE  LastInv'
  <2>1. ~StatusLines
    BY <1>3, StatusRead DEF Ignore, ReadNothing, ReadNonsense
  <2>2. whole' = whole /\ sent' = sent
    BY <1>3 DEF Ignore, ReadNothing, ReadNonsense, Disconnect, Consume
  <2>3. ~StatusLines'
    BY <2>1, <2>2 DEF StatusLines, StatusAt
  <2>4. QED
    BY <2>3 DEF LastInv
<1>4. ASSUME NEW n \in Receivable, NEW c \in Commands(Message(n)), ReadCommand(n, c),
             ObeyStatus(n, c) \/ ObeyNews(n, c) \/ ObeyOther(n, c)
      PROVE  LastInv'
  <2> SUFFICES ASSUME StatusLines
               PROVE  /\ link' # "dropped"
                      /\ sent # <<>> /\ stream' = <<>> => status' = Value(LastSent.arg)
    BY <1>4 DEF ReadCommand, Consume, LastInv, StatusLines, StatusAt, LastSent, Value
  <2>1. PICK own, off : /\ Laid(stream, sent, own, off) /\ Ends(stream, sent, own, off)
                        /\ whole /\ stream # <<>> => off[1] = 1
    BY DEF LineInv
  <2>2. PICK p \in 1 .. n : /\ own[p] \in 1 .. Len(sent) /\ c = sent[own[p]]
                            /\ c.key = "status" => own[p] = own[n]
    BY <2>1, CommandSent DEF StatusLines
  <2>3. c.key = "status"
    <3>1. DOMAIN sent = 1 .. Len(sent)
      BY DEF LineInv, LineTypeOK
    <3>2. QED
      BY <2>2, <3>1 DEF StatusLines, StatusAt
  <2>4. status' = Value(c.arg)
    BY <1>4, <2>3 DEF ObeyStatus, ObeyNews, ObeyOther
  <2>5. link' # "dropped"
    BY <1>4 DEF ReadCommand, Consume, Receivable
  <2>6. ASSUME stream' = <<>>
        PROVE  c = LastSent
    <3>1. stream' \in Seq(Piece) /\ Len(stream') = Len(stream) - n /\ n \in 1 .. Len(stream)
      BY <1>4, <2>1, Taken DEF ReadCommand
    <3>2. stream \in Seq(Piece) /\ Len(stream) \in Nat
      BY DEF LineInv, LineTypeOK
    <3>3. n = Len(stream) /\ stream # <<>>
      <4>1. Len(stream') = 0
        BY <2>6
      <4>2. QED
        BY <3>1, <3>2, <4>1
    <3>4. own[n] = Len(sent)
      BY <2>1, <3>3 DEF Ends
    <3>5. QED
      BY <2>2, <2>3, <3>4 DEF LastSent
  <2>7. QED
    BY <2>4, <2>5, <2>6
<1>5. ASSUME NEW n \in Receivable, NEW c \in Commands(Message(n)), Fail(n, c)
      PROVE  LastInv'
  BY <1>5 DEF Fail, CommandRaises, LastInv
<1>6. CASE Receive
  <2>1. CASE ReadEnd /\ UNCHANGED <<webVars, pathVars>>
    BY <1>0, <2>1 DEF ReadEnd, pathVars
  <2>2. QED
    BY <1>3, <1>4, <1>5, <1>6, <2>1 DEF Receive, ObeyStatus, ObeyNews, ObeyOther
<1>7. QED
  BY <1>1, <1>2, <1>6 DEF Next, Connect, Browse, vars

LEMMA ShownInvStep == FramesInv /\ WebInv /\ ShownInv /\ [Next]_vars => ShownInv'
<1> SUFFICES ASSUME FramesInv, WebInv, ShownInv, [Next]_vars PROVE ShownInv'
  OBVIOUS
<1>0. raised => raised'
  BY DEF Next, Peer, HangsUp, Speaks, Receive, ReadEnd, Ignore, ReadNothing, ReadNonsense,
     ObeyStatus, ObeyNews, ObeyOther, ReadCommand, Fail, CommandRaises,
     Connect, Browse, vars, lineVars
<1>1. CASE UNCHANGED <<webVars, status>>
  BY <1>0, <1>1 DEF ShownInv, webVars
<1>2. ASSUME PushUpdate PROVE ShownInv'
  <2> DEFINE f == Frame(status', JsonLen[version'])
  <2>1. wire \in Seq(GoodFrame) /\ f.status = status'
    BY DEF FramesInv, Frame
  <2>2. /\ wire' = IF browser \in {"handshake", "open"} THEN Append(wire, f) ELSE wire
        /\ browser' = browser
    BY <1>2 DEF PushUpdate, Publish
  <2> HIDE DEF f
  <2>3. CASE browser \in {"handshake", "open"}
    <3>1. Len(Append(wire, f)) = Len(wire) + 1 /\ Append(wire, f)[Len(wire) + 1] = f
      BY <2>1
    <3>2. Append(wire, f) # <<>>
      <4>1. Len(Append(wire, f)) # Len(<<>>)
        BY <2>1, <3>1
      <4>2. QED
        BY <4>1, Zenon
    <3>3. QED
      BY <2>1, <2>2, <2>3, <3>1, <3>2 DEF ShownInv
  <2>4. CASE browser \notin {"handshake", "open"}
    BY <1>0, <2>2, <2>4 DEF ShownInv
  <2>5. QED
    BY <2>3, <2>4
<1>3. CASE Receive
  <2>1. ASSUME NEW n, NEW c, ObeyStatus(n, c) PROVE ShownInv'
    BY <1>1, <1>2, <2>1 DEF ObeyStatus
  <2>2. ASSUME NEW n, NEW c, ObeyNews(n, c) PROVE ShownInv'
    BY <1>1, <1>2, <2>2 DEF ObeyNews
  <2>3. ASSUME NEW n, NEW c, Fail(n, c) PROVE ShownInv'
    <3>1. CASE UNCHANGED webVars
      BY <2>3, <3>1 DEF Fail, CommandRaises, ShownInv, webVars
    <3>2. QED
      BY <1>2, <2>3, <3>1 DEF Fail, pathVars
  <2>4. QED
    BY <1>1, <1>3, <2>1, <2>2, <2>3 DEF Receive, Ignore, ObeyOther, pathVars
<1>4. CASE Connect
  <2>1. PICK d \in Digest : OnUpgrade(d, status, JsonLen[version])
    BY <1>4 DEF Connect
  <2>2. status' = status
    BY <1>4 DEF Connect, pathVars
  <2> DEFINE f == Frame(status, JsonLen[version])
  <2>3. wire' = <<f>> /\ browser' = "handshake" /\ f.status = status
    BY <2>1 DEF OnUpgrade, Frame
  <2> HIDE DEF f
  <2>4. <<f>> # <<>> /\ Len(<<f>>) = 1 /\ <<f>>[1] = f
    OBVIOUS
  <2>5. QED
    BY <2>2, <2>3, <2>4 DEF ShownInv
<1>5. CASE Browse /\ ReadsAccept
  <2>1. wire # <<>> /\ browser = "handshake" /\ wire' = wire /\ status' = status
    BY <1>5 DEF Browse, ReadsAccept, ShownInv, pathVars
  <2>2. QED
    BY <1>0, <2>1 DEF ShownInv
<1>6. CASE Browse /\ ReadsFrame
  <2>1. wire \in Seq(GoodFrame) /\ wire # <<>> /\ Head(wire) \in GoodFrame /\ browser = "open"
    BY <1>6 DEF FramesInv, ReadsFrame
  <2>2. WellFramed(Head(wire).header, Head(wire).len)
    BY <2>1 DEF GoodFrame
  <2>3. /\ browser' = browser /\ wire' = Tail(wire)
        /\ shown' = {Head(wire).status} /\ status' = status
    BY <1>6, <2>2 DEF Browse, ReadsFrame, pathVars
  <2>4. ~raised => wire[Len(wire)].status = status
    BY <2>1 DEF ShownInv
  <2>5. /\ Len(wire) \in Nat /\ Len(wire) >= 1 /\ Head(wire) = wire[1]
        /\ Tail(wire) \in Seq(GoodFrame) /\ Len(Tail(wire)) = Len(wire) - 1
        /\ \A i \in 1 .. Len(wire) - 1 : Tail(wire)[i] = wire[i + 1]
    BY <2>1
  <2>6. PICK t \in Seq(GoodFrame) :
          /\ wire' = t /\ Len(t) = Len(wire) - 1
          /\ \A i \in 1 .. Len(wire) - 1 : t[i] = wire[i + 1]
    BY <2>3, <2>5, Zenon
  <2>7. CASE Len(wire) = 1
    <3>1. t = <<>>
      BY <2>6, <2>7
    <3>2. QED
      BY <1>0, <2>1, <2>3, <2>4, <2>5, <2>7, <2>6, <3>1 DEF ShownInv
  <2>8. CASE Len(wire) # 1
    <3>1. Len(wire) - 1 \in 1 .. Len(wire) - 1 /\ (Len(wire) - 1) + 1 = Len(wire)
      BY <2>5, <2>8
    <3>2. t[Len(t)] = wire[Len(wire)]
      BY <2>6, <3>1
    <3>3. t # <<>>
      BY <2>5, <2>8, <2>6
    <3>4. QED
      BY <1>0, <2>1, <2>3, <2>4, <2>6, <3>2, <3>3 DEF ShownInv
  <2>9. QED
    BY <2>7, <2>8
<1>7. QED
  BY <1>1, <1>3, <1>4, <1>5, <1>6 DEF Next, Peer, Browse, BrowserReads, vars, pathVars

(* A peer that sends whole status lines is not dropped, and when all of it *)
(* is read the daemon has the status of its last line, although the split  *)
(* skips the others of a recv, and so has a browser that has read its all. *)
THEOREM LastStatusAlwaysShown == Spec => []LastStatusShown
<1>1. Init => LineInv /\ LastInv /\ ShownInv
  BY LineInvInit DEF Init, LineInit, WebInit, LastInv, ShownInv
<1>2. LastInv /\ ShownInv => LastStatusShown
  BY DEF LastInv, ShownInv, LastStatusShown, OnlyStatusSent, StatusLines
<1>3. QED
  BY <1>1, <1>2, LineInvStep, WebInvInit, FramesInvStep, WebInvStep,
     LastInvStep, ShownInvStep, PTL DEF Spec
=============================================================================
