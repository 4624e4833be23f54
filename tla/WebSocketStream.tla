--------------------------- MODULE WebSocketStream ---------------------------
(***************************************************************************)
(* What one browser reads from the native server: the handshake's          *)
(* Sec-WebSocket-Accept, then a stream of text frames (push_server.cpp,    *)
(* packAsTextFrame and the end of onClientData).  A dictionary is its      *)
(* status and the length of its JSON text.  PushServer has the order in    *)
(* which the server sends; here is whether the browser can read it.        *)
(***************************************************************************)
EXTENDS Base64

CONSTANTS
    Digest,   \* hashes that sha1binary returns
    JsonLen   \* JsonLen[v]: length of the JSON text of the v-th dictionary

ASSUME StreamAssumption ==
    /\ Digest \subseteq Seq(Byte)
    /\ JsonLen \in Seq(Nat)
    /\ \A v \in DOMAIN JsonLen : JsonLen[v] <= 65535   \* the assert of packAsTextFrame

VARIABLES
    browser,  \* "away", "handshake", "open"; "refused": wrong Accept;
              \* "lost": a frame does not end where its header says
    expects,  \* the Accept that it waits for
    accept,   \* Sec-WebSocket-Accept of the response, not yet read
    wire,     \* frames sent and not yet read
    shown     \* the status it displays, {} for none yet

webVars == <<browser, expects, accept, wire, shown>>

(* MUTANT of FrameHeader: 126 takes the short form. *)
FrameHeaderLate(len) ==
    IF len <= 126 THEN <<129, len % 256>>
    ELSE <<129, 126, (len \div 256) % 256, len % 256>>

(* packAsTextFrame: the bytes before the data. *)
FrameHeader(len) ==
    IF len <= 125 THEN <<129, len % 256>>
    ELSE <<129, 126, (len \div 256) % 256, len % 256>>

Frame(status, len) == [header |-> FrameHeader(len), status |-> status, len |-> len]

(* RFC 6455, 5.2: a final text frame, unmasked; the length is the second   *)
(* byte, or the next two when that is 126, which is for lengths over 125.  *)
HeaderSize(h) == IF h[2] < 126 THEN 2 ELSE IF h[2] = 126 THEN 4 ELSE 10
PayloadLength(h) == IF h[2] < 126 THEN h[2] ELSE 256 * h[3] + h[4]
WellFramed(h, len) ==
    /\ h[1] = 129 /\ h[2] < 128
    /\ Len(h) = HeaderSize(h) /\ Len(h) \in {2, 4}
    /\ PayloadLength(h) = len
    /\ Len(h) = 4 => len > 125

WebTypeOK ==
    /\ browser \in {"away", "handshake", "open", "refused", "lost"}
    /\ {expects, accept} \subseteq Seq(Digit \cup {Pad})
    /\ wire \in Seq([header : Seq(Byte), status : BOOLEAN, len : Nat])
    /\ shown \in {{}, {TRUE}, {FALSE}}

WebInit ==
    browser = "away" /\ expects = <<>> /\ accept = <<>> /\ wire = <<>> /\ shown = {}

(* onClientData: the response and the welcome message are one write. *)
OnUpgrade(digest, status, len) ==
    /\ browser = "away" /\ browser' = "handshake"
    /\ expects' = Rfc4648(digest) /\ accept' = base64_encode(digest)
    /\ wire' = <<Frame(status, len)>>
    /\ UNCHANGED shown

(* welcomeMessage and send: every upgraded client gets the dictionary. *)
Publish(status, len) ==
    /\ wire' = IF browser \in {"handshake", "open"}
               THEN Append(wire, Frame(status, len)) ELSE wire
    /\ UNCHANGED <<browser, expects, accept, shown>>

ReadsAccept ==
    /\ browser = "handshake"
    /\ browser' = IF accept = expects THEN "open" ELSE "refused"
    /\ expects' = <<>> /\ accept' = <<>>
    /\ UNCHANGED <<wire, shown>>

ReadsFrame ==
    /\ browser = "open" /\ wire # <<>>
    /\ IF WellFramed(Head(wire).header, Head(wire).len)
       THEN shown' = {Head(wire).status} /\ UNCHANGED browser
       ELSE browser' = "lost" /\ UNCHANGED shown
    /\ wire' = Tail(wire)
    /\ UNCHANGED <<expects, accept>>

BrowserReads == ReadsAccept \/ ReadsFrame
=============================================================================
