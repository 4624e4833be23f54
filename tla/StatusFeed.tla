----------------------------- MODULE StatusFeed -----------------------------
(***************************************************************************)
(* What the websocket server of nativews/push_server.cpp promises, free of *)
(* sockets, threads and queues: a subscriber hears the version that is     *)
(* current when it subscribes, then every later one, one after another.    *)
(* Version 0 stands for "no dictionary yet"; the first dictionary, version *)
(* 1, is only for those who subscribe after it.                            *)
(***************************************************************************)
EXTENDS Integers

CONSTANTS Client, MaxVersion

VARIABLES
    cur,    \* the current version
    heard   \* heard[c]: the last version sent to c, or Nobody

Nobody == -1
feedVars == <<cur, heard>>

FeedInit == cur = 0 /\ heard = [c \in Client |-> Nobody]

UpToDate(c) == heard[c] \in {Nobody, cur}

(* A version is superseded only once every subscriber has heard it, the    *)
(* very first one apart.                                                   *)
Publish ==
    /\ cur < MaxVersion
    /\ cur > 1 => \A c \in Client : UpToDate(c)
    /\ cur' = cur + 1
    /\ UNCHANGED heard

Subscribe(c) ==
    /\ heard[c] = Nobody
    /\ heard' = [heard EXCEPT ![c] = cur]
    /\ UNCHANGED cur

Leave(c) ==
    /\ heard' = [heard EXCEPT ![c] = Nobody]
    /\ UNCHANGED cur

(* Everybody subscribed hears the current version. *)
Deliver ==
    /\ heard' = [c \in Client |-> IF heard[c] = Nobody THEN Nobody ELSE cur]
    /\ UNCHANGED cur

(* The feed ends for everybody at once. *)
Shutdown ==
    /\ heard' = [c \in Client |-> Nobody]
    /\ UNCHANGED cur

FeedNext ==
    \/ Publish \/ Deliver \/ Shutdown
    \/ \E c \in Client : Subscribe(c) \/ Leave(c)

FeedSpec == FeedInit /\ [][FeedNext]_feedVars
=============================================================================
