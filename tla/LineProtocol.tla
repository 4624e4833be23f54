---------------------------- MODULE LineProtocol ----------------------------
(***************************************************************************)
(* How the daemon reads commands from a PHP client or from the Fonera: one *)
(* recv(2048), the newlines deleted, startswith, split and int.  TCP keeps *)
(* the order of the bytes and nothing else: a recv returns several lines,  *)
(* or a part of one.                                                       *)
(*                                                                         *)
(* Text is a sequence of pieces: half a keyword, a digit, a blank, a whole *)
(* base64 text ("T", or "T=" for one that ends in padding), a newline.     *)
(***************************************************************************)
EXTENDS Naturals, Sequences

CONSTANTS
    PhpLine, FoneraLine,  \* commands that each sends: [key, arg]
    MaxLines              \* BOUND: lines that one connection sends

IntKey == [php |-> {"status", "enter", "leave", "sound"},
           fonera |-> {"status", "enter", "leave"}]
Keyword == [status |-> <<"stat", "us ">>, enter |-> <<"ent", "er ">>,
            leave |-> <<"lea", "ve ">>, sound |-> <<"sou", "nd ">>,
            message |-> <<"mess", "age ">>,
            temperature |-> <<"temper", "ature ">>]
NumberDigit == {"0", "1", "2", "3", "4", "5", "6", "7", "8", "9"}
Space == " "
Piece == NumberDigit \cup {Space, "T", "T=", "\n"} \cup
           UNION {{Keyword[k][1], Keyword[k][2]} : k \in DOMAIN Keyword}

(* MUTANT of IsInt: atoi, which takes what a number begins with. *)
IsIntBefore(s) == s # <<>> /\ s[1] \in NumberDigit

(* int(s) does not raise. *)
IsInt(s) == s # <<>> /\ \A i \in DOMAIN s : s[i] \in NumberDigit

(* The lines that a handler has a meaning for: a status of one digit, a    *)
(* user or a sound, a user and a text, a sensor and a value.               *)
IntBefore(arg, i) == arg[i] = Space /\ IsInt(SubSeq(arg, 1, i - 1))
After(arg, i) == SubSeq(arg, i + 1, Len(arg))
WellFormed(line) ==
    /\ line \in [key : DOMAIN Keyword, arg : Seq(Piece)]
    /\ line.key \in IntKey.php => IsInt(line.arg)
    /\ line.key = "status" => Len(line.arg) = 1
    /\ line.key = "message" =>
         \E i \in DOMAIN line.arg :
           IntBefore(line.arg, i) /\ After(line.arg, i) \in {<<>>, <<"T">>, <<"T=">>}
    /\ line.key = "temperature" =>
         \E i \in DOMAIN line.arg : IntBefore(line.arg, i) /\ IsInt(After(line.arg, i))

ASSUME LineAssumption ==
    MaxLines \in Nat /\ \A line \in PhpLine \cup FoneraLine : WellFormed(line)

VARIABLES
    from,       \* "php" or "fonera"
    whole,      \* TCP delivers whole lines only, one or more at a time
    link,       \* "up", "closing": the peer hung up, "gone": the daemon saw
                \* the end of the connection, "dropped" by the daemon before
    stream,     \* sent and not received: what is left at the end is lost
    sent,       \* lines sent, in order
    called,     \* commands the handler obeyed, in order
    raised      \* what a handler called raised

lineVars == <<from, whole, link, stream, sent, called, raised>>

LineTypeOK ==
    /\ from \in {"php", "fonera"} /\ {whole, raised} \subseteq BOOLEAN
    /\ link \in {"up", "closing", "gone", "dropped"}
    /\ stream \in Seq(Piece) /\ Len(sent) <= MaxLines
    /\ sent \in Seq(PhpLine \cup FoneraLine)
    /\ called \in Seq([key : DOMAIN Keyword, arg : Seq(Piece)])

LineInit ==
    /\ from \in {"php", "fonera"} /\ whole \in BOOLEAN
    /\ link = "up" /\ raised = FALSE
    /\ stream = <<>> /\ sent = <<>> /\ called = <<>>

-----------------------------------------------------------------------------
(* What a message means.                                                   *)

StartsWith(msg, k) == Len(msg) >= 2 /\ SubSeq(msg, 1, 2) = Keyword[k]

(* MUTANT of LastPart: split(keyword)[1]. *)
FirstPart(msg, k) ==
    LET ends == {i \in 3 .. Len(msg) - 1 : SubSeq(msg, i, i + 1) = Keyword[k]}
    IN  SubSeq(msg, 3, IF ends = {} THEN Len(msg)
                       ELSE (CHOOSE i \in ends : \A j \in ends : i <= j) - 1)

(* msg.split(keyword)[-1], for a message that starts with the keyword. *)
LastPart(msg, k) ==
    LET starts == {i \in 1 .. Len(msg) - 1 : SubSeq(msg, i, i + 1) = Keyword[k]}
    IN  SubSeq(msg, 2 + CHOOSE i \in starts : \A j \in starts : i >= j, Len(msg))

(* msg.split(" ")[1:]: what a keyword's second half ends with is a blank. *)
Blank == {Space} \cup {Keyword[k][2] : k \in DOMAIN Keyword}
Blanks(msg) == {i \in DOMAIN msg : msg[i] \in Blank}
NextBlank(msg, i) ==  \* the first after i, or the end
    CHOOSE j \in Blanks(msg) \cup {Len(msg) + 1} :
      j > i /\ \A x \in i + 1 .. j - 1 : x \notin Blanks(msg)
Element(msg, i) ==  \* from the blank at i to the next
    LET stop == NextBlank(msg, i)
    IN  SubSeq(msg, i + 1, IF stop \in Blanks(msg) /\ msg[stop] # Space THEN stop ELSE stop - 1)

(* b64decode takes four letters at a time, and padding ends the text; the  *)
(* names of the commands are of five, six or seven, two of the halves of   *)
(* four.                                                                   *)
FourLetters == {"T", "stat", "mess"}
Decodes(s) == (\A i \in DOMAIN s : s[i] \in FourLetters) \/ s[1] = "T="
Decoded(s) == IF s # <<>> /\ s[1] = "T=" THEN <<"T=">> ELSE s

IntCommand(msg) ==
    {[key |-> k, arg |-> LastPart(msg, k)] :
       k \in {k \in IntKey[from] : StartsWith(msg, k) /\ IsInt(LastPart(msg, k))}}

(* The keyword ends with the first blank. *)
TextCommand(msg) ==
    LET second == NextBlank(msg, 2)
    IN  IF /\ from = "php" /\ StartsWith(msg, "message") /\ second \in Blanks(msg)
           /\ IsInt(Element(msg, 2)) /\ Decodes(Element(msg, second))
        THEN {[key |-> "message",
               arg |-> Element(msg, 2) \o <<Space>> \o Decoded(Element(msg, second))]}
        ELSE {}

TemperatureCommand(msg) ==
    LET second == NextBlank(msg, 2)
    IN  IF /\ from = "fonera" /\ StartsWith(msg, "temperature") /\ second \in Blanks(msg)
           /\ \A i \in Blanks(msg) : i <= second
           /\ IsInt(Element(msg, 2)) /\ IsInt(Element(msg, second))
        THEN {[key |-> "temperature",
               arg |-> Element(msg, 2) \o <<Space>> \o Element(msg, second)]}
        ELSE {}

Commands(msg) == IntCommand(msg) \cup TextCommand(msg) \cup TemperatureCommand(msg)

-----------------------------------------------------------------------------
(* The peer.                                                               *)

Text(line) == Keyword[line.key] \o line.arg \o <<"\n">>

Speaks(line) ==
    /\ link = "up" /\ Len(sent) < MaxLines
    /\ line \in IF from = "php" THEN PhpLine ELSE FoneraLine
    /\ sent' = Append(sent, line)
    /\ stream' = stream \o Text(line)
    /\ UNCHANGED <<from, whole, link, called, raised>>

(* It closes its end; what it sent is still to be read.                    *)
HangsUp ==
    /\ link = "up" /\ link' = "closing"
    /\ UNCHANGED <<from, whole, stream, sent, called, raised>>

-----------------------------------------------------------------------------
(* php_message_handler and fonera_command_handler, on a recv of n pieces.  *)

(* MUTANT of Receivable: a recv waits for two lines. *)
ReceivablePairs ==
    {n \in DOMAIN stream : link \in {"up", "closing"} /\ stream[n] = "\n" /\
                           \E m \in 1 .. n - 1 : stream[m] = "\n"}

Receivable ==
    {n \in DOMAIN stream : link \in {"up", "closing"} /\ (whole => stream[n] = "\n")}

(* replace("\n","") *)
WithoutNewlines(s) ==
    LET kept[k \in 0 .. Len(s)] ==  \* of the first k pieces
          IF k = 0 THEN <<>>
          ELSE IF s[k] = "\n" THEN kept[k - 1] ELSE Append(kept[k - 1], s[k])
    IN  kept[Len(s)]

Message(n) == WithoutNewlines(SubSeq(stream, 1, n))

Disconnect ==
    link' = "dropped" /\ stream' = <<>> /\ UNCHANGED <<from, whole, sent>>

(* MUTANT of Consume: what was received stays in the buffer. *)
ConsumeNothing(n) == UNCHANGED <<from, whole, link, sent, stream>>

Consume(n) ==
    /\ stream' = SubSeq(stream, n + 1, Len(stream))
    /\ UNCHANGED <<from, whole, link, sent>>

(* recv returns nothing, or raises and what is not read is lost.           *)
ReadEnd ==
    /\ link = "closing" /\ link' = "gone"
    /\ UNCHANGED <<from, whole, stream, sent, called, raised>>

(* Nothing is left: the handler takes it for the end of the connection. *)
ReadNothing(n) ==
    /\ Message(n) = <<>>
    /\ Disconnect /\ UNCHANGED <<called, raised>>

(* A command with an argument that does not parse ends a PHP connection; a *)
(* line that starts with no keyword does not, and the Fonera stays.        *)
ReadNonsense(n) ==
    /\ Message(n) # <<>> /\ Commands(Message(n)) = {}
    /\ IF from = "php" /\ \E k \in IntKey.php \cup {"message"} : StartsWith(Message(n), k)
       THEN Disconnect ELSE Consume(n)
    /\ UNCHANGED <<called, raised>>

(* c: the command that the message is. *)
ReadCommand(n, c) ==
    /\ called' = Append(called, c)
    /\ Consume(n) /\ UNCHANGED raised

(* What the handler calls raises: BitsService has when. *)
CommandRaises(n, c) ==
    /\ raised' = TRUE
    /\ IF from = "php" THEN Disconnect ELSE Consume(n)
    /\ UNCHANGED called
=============================================================================
