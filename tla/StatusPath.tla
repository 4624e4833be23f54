----------------------------- MODULE StatusPath -----------------------------
(***************************************************************************)
(* The way of a status from the line that asks for it to the browser that  *)
(* shows it: LineProtocol, the daemon's status, WebSocketStream.           *)
(***************************************************************************)
EXTENDS LineProtocol, WebSocketStream

VARIABLES
    status,   \* fonera.status, the status of the dictionary
    version   \* dictionaries so far

pathVars == <<status, version>>
vars == <<lineVars, webVars, pathVars>>

ASSUME PathAssumption == Len(JsonLen) > MaxLines

Init == LineInit /\ WebInit /\ status \in BOOLEAN /\ version = 1

(* bool(int(s)) *)
Value(arg) == \E i \in DOMAIN arg : arg[i] # "0"

(* PushService.change_dictionary, on to the upgraded clients.  BOUND: the  *)
(* number of dictionaries, which PathAssumption puts out of reach.         *)
PushUpdate ==
    /\ version < Len(JsonLen)
    /\ version' = version + 1
    /\ Publish(status', JsonLen[version'])

(* The handler of a status command pushes when the status is another. *)
ObeyStatus(n, c) ==
    /\ c.key = "status" /\ ReadCommand(n, c)
    /\ status' = Value(c.arg)
    /\ IF status' = status THEN UNCHANGED <<webVars, version>> ELSE PushUpdate

(* store_msg and store_temperature are followed by a push; a message of an *)
(* unknown user is only logged.                                            *)
ObeyNews(n, c) ==
    /\ c.key \in {"message", "temperature"} /\ ReadCommand(n, c)
    /\ UNCHANGED status
    /\ PushUpdate \/ (c.key = "message" /\ UNCHANGED <<webVars, version>>)

ObeyOther(n, c) ==
    /\ c.key \in {"enter", "leave", "sound"} /\ ReadCommand(n, c)
    /\ UNCHANGED <<webVars, pathVars>>

Ignore(n) == (ReadNothing(n) \/ ReadNonsense(n)) /\ UNCHANGED <<webVars, pathVars>>

(* An exception stops a handler after nothing, with the status adopted and *)
(* not pushed, or with a message pushed and not displayed.                 *)
Fail(n, c) ==
    /\ CommandRaises(n, c)
    /\ \/ UNCHANGED <<webVars, pathVars>>
       \/ c.key = "status" /\ status' = Value(c.arg) /\ UNCHANGED <<webVars, version>>
       \/ c.key = "message" /\ UNCHANGED status /\ PushUpdate

Receive ==
    \/ ReadEnd /\ UNCHANGED <<webVars, pathVars>>
    \/ \E n \in Receivable :
         \/ Ignore(n)
         \/ \E c \in Commands(Message(n)) :
              ObeyStatus(n, c) \/ ObeyNews(n, c) \/ ObeyOther(n, c) \/ Fail(n, c)

Peer ==
    /\ HangsUp \/ \E line \in PhpLine \cup FoneraLine : Speaks(line)
    /\ UNCHANGED <<webVars, pathVars>>

Connect ==
    /\ \E digest \in Digest : OnUpgrade(digest, status, JsonLen[version])
    /\ UNCHANGED <<lineVars, pathVars>>

Browse == BrowserReads /\ UNCHANGED <<lineVars, pathVars>>

Next == Peer \/ Receive \/ Connect \/ Browse

Spec == Init /\ [][Next]_vars

(* The daemon serves a connection that has something to read, and the      *)
(* browser reads.  Nothing is assumed of the peer.                         *)
FairSpec == Spec /\ WF_vars(Receive) /\ WF_vars(Browse)

-----------------------------------------------------------------------------
(* Properties.                                                             *)

TypeOK ==
    /\ LineTypeOK /\ WebTypeOK
    /\ status \in BOOLEAN /\ version \in DOMAIN JsonLen

(* The elements I of s are elements J of t, in the same order. *)
InOrder(s, I, t, J) ==
    \E place \in [I -> J] :
      /\ \A i \in I : s[i] = t[place[i]]
      /\ \A i, j \in I : i < j => place[i] < place[j]

StatusAt(lines) == {i \in DOMAIN lines : lines[i].key = "status"}

(* INVARIANT: however TCP merges and cuts the lines, the status commands   *)
(* that the handlers of bits_service.py obey are commands that were sent,  *)
(* in the order in which they were: some may be lost, none is made up.     *)
StatusesWereSent == InOrder(called, StatusAt(called), sent, StatusAt(sent))

(* INVARIANT: lines that TCP may merge, but does not cut, are obeyed as    *)
(* they were sent or not at all, whatever the command: no argument of one  *)
(* ends up in another (the splits of both handlers).                       *)
WholeLinesWereSent == whole => InOrder(called, DOMAIN called, sent, DOMAIN sent)

LastSent == sent[Len(sent)]
OnlyStatusSent == whole /\ sent # <<>> /\ StatusAt(sent) = DOMAIN sent

(* INVARIANT: a peer that sends whole status lines is never dropped, and   *)
(* its last one is obeyed, even if it hangs up after it: when everything   *)
(* is read it is what the daemon has and what an open browser shows,       *)
(* although the handler skips all but the last of the lines of a recv      *)
(* (split("status ")[-1]).                                                 *)
LastStatusShown ==
    (OnlyStatusSent /\ ~raised /\ stream = <<>>) =>
      /\ link # "dropped"
      /\ status = Value(LastSent.arg)
      /\ browser = "open" /\ wire = <<>> => shown = {status}

(* INVARIANT: the browser finds the Accept that RFC 6455 asks for, and     *)
(* base64_decode gives back the hash that base64_encode was given.         *)
HandshakeAccepted ==
    /\ browser # "refused"
    /\ browser = "handshake" => Rfc4648(base64_decode(accept)) = expects

(* INVARIANT: every frame of packAsTextFrame ends where its header says,   *)
(* for all lengths that the assertion lets through.                        *)
FramesInStep == browser # "lost"

(* LIVENESS: the last of a peer's whole status lines gets to the browser,  *)
(* whether the peer hangs up or not, unless it is lost on its way.         *)
LastStatusArrives ==
    (OnlyStatusSent /\ Len(sent) = MaxLines /\ browser \in {"handshake", "open"}) ~>
      \/ raised \/ (link = "gone" /\ stream # <<>>)
      \/ (sent # <<>> /\ shown = {Value(LastSent.arg)})
=============================================================================
