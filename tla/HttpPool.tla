------------------------------- MODULE HttpPool -------------------------------
(***************************************************************************)
(* The HTTP connections of one thread (util/http/pool.cpp) and its two     *)
(* users: the synchronisation of a remote's listing (get_remote_db), which *)
(* may hear 304, and the download of a package (pull_pkg_ar_from_remote).  *)
(* A request takes a connection from the pool or opens one, follows        *)
(* redirects, and hands the connection to its user together with the head  *)
(* of the response; when that http_client is destroyed, the connection     *)
(* goes back to the pool, or is closed.                                    *)
(*                                                                         *)
(* A server answers every request once, with a body that is delimited as   *)
(* its head says, and may hang up at any time. A body is a number of       *)
(* parts. A failed assertion ends the program.                             *)
(***************************************************************************)
EXTENDS Integers, FiniteSets

CONSTANTS Conns,        \* bound: the connections at a time
          Origins,
          MaxRedirects, \* 100 in the code
          MaxParts,     \* bound: parts of a body
          MaxRequests,  \* bound: requests of the users
          None

VARIABLES
    origin, state, peer_disconnected, \* http_client_impl, of each connection
    open,      \* has the server not hung up?
    unread,    \* parts of a body that the server sends and nobody has read
    pool,      \* http_pool_impl::_clients
    pc, user,  \* where the request is, and whose it is
    client,    \* the connection of the http_client there is, or None
    url,       \* where the request goes: to which origin
    hops,      \* how often it was redirected
    resp,      \* the head of the response, or None
    requests

connVars == <<origin, state, peer_disconnected, open, unread>>
vars == <<connVars, pool, pc, user, client, url, hops, resp, requests>>

States == {"ready", "sent_req_body", "recvd_resp_head"}
Users == {"sync", "download"}
Steps == {"idle", "client", "send", "recv", "respond", "result", "body", "read", "aborted"}

(* What matters of a head: the status; how the body is delimited ("zero":  *)
(* Content-Length: 0; "marked": another length, chunks, or a gzip stream;  *)
(* "until close": not at all); whether the server keeps the connection;    *)
(* and whether it speaks HTTP/1.0.                                         *)
Statuses == {"ok", "not_modified", "redirect", "error"}
Framings == {"zero", "marked", "until close"}
Heads == {h \in [status : Statuses, framing : Framings, close : BOOLEAN, v1_0 : BOOLEAN] :
              h.v1_0 => h.close}

(* 304 has no body, whatever its head says of the one it does not send. *)
Bodiless(h) == h.status = "not_modified" \/ h.framing = "zero"

ASSUME HttpPoolAssumption ==
    /\ MaxRedirects \in Nat /\ MaxParts \in Nat /\ MaxRequests \in Nat
    /\ None \notin Conns \cup Origins \cup Users \cup Heads

Init == /\ origin = [c \in Conns |-> None]
        /\ state = [c \in Conns |-> "ready"]
        /\ peer_disconnected = [c \in Conns |-> FALSE]
        /\ open = [c \in Conns |-> FALSE]
        /\ unread = [c \in Conns |-> 0]
        /\ pool = {}
        /\ pc = "idle"
        /\ user = None
        /\ client = None
        /\ url = None
        /\ hops = 0
        /\ resp = None
        /\ requests = 0

Go(a, b) == pc = a /\ pc' = b

SetState(s) == state' = [state EXCEPT ![client] = s]

Abort == pc' = "aborted"
-----------------------------------------------------------------------------
(* Mutation: a connection is pooled although it will be closed, or has     *)
(* been given up with a body unread.                                       *)
PoolsAnyReady(disconnected) == TRUE

(* ~http_client: what is ready goes back to the pool. *)
ReturnsToPool(disconnected) == ~disconnected

DropReady(disconnected) ==
    /\ pool' = IF ReturnsToPool(disconnected) THEN pool \cup {client} ELSE pool
    /\ client' = None

Quit == pc' = "idle" /\ user' = None /\ url' = None /\ resp' = None /\ hops' = 0

(* The http_client is still the one of http_pool::request.                 *)
Inside == \/ pc \in {"send", "recv"}
          \/ resp # None /\ resp.status \in {"redirect", "error"}

(* The http_client is dropped. If it is not ready, it is just closed when  *)
(* an exception unwinds, which it sees by _n_exceptions. Inside of request *)
(* that is uninitialised: client_for_origin's object has never been moved. *)
Drop(unwinding) ==
    /\ \/ /\ state[client] = "ready"
          /\ DropReady(peer_disconnected[client])
          /\ Quit
       \/ /\ state[client] # "ready"
          /\ unwinding \/ Inside
          /\ client' = None
          /\ Quit
          /\ UNCHANGED pool
       \/ /\ state[client] # "ready"
          /\ ~unwinding \/ Inside
          /\ Abort
          /\ UNCHANGED <<pool, client, user, url, resp, hops>>
    /\ UNCHANGED <<connVars, requests>>
-----------------------------------------------------------------------------
Request(u, o) == /\ requests < MaxRequests
                 /\ requests' = requests + 1
                 /\ Go("idle", "client")
                 /\ user' = u
                 /\ url' = o
                 /\ UNCHANGED <<connVars, pool, client, hops, resp>>

(* client_for_origin. *)
Connect(c) == /\ Go("client", "send")
              /\ \A d \in pool : origin[d] # url
              /\ c \notin pool
              /\ client' = c
              /\ origin' = [origin EXCEPT ![c] = url]
              /\ state' = [state EXCEPT ![c] = "ready"]
              /\ peer_disconnected' = [peer_disconnected EXCEPT ![c] = FALSE]
              /\ open' = [open EXCEPT ![c] = TRUE]
              /\ unread' = [unread EXCEPT ![c] = 0]
              /\ UNCHANGED <<pool, user, url, hops, resp, requests>>

ConnectFails == /\ pc = "client"
                /\ \A d \in pool : origin[d] # url
                /\ Quit
                /\ UNCHANGED <<connVars, pool, client, requests>>

Reuse(c) == /\ Go("client", "send")
            /\ c \in pool
            /\ origin[c] = url
            /\ pool' = pool \ {c}
            /\ client' = c
            /\ UNCHANGED <<connVars, user, url, hops, resp, requests>>

SendHead == /\ pc = "send"
            /\ IF state[client] = "ready" THEN pc' = "recv" /\ SetState("sent_req_body")
               ELSE Abort /\ UNCHANGED state
            /\ UNCHANGED <<origin, peer_disconnected, open, unread, pool, user, client,
                           url, hops, resp, requests>>

SendFails == pc = "send" /\ state[client] = "ready" /\ ~open[client] /\ Drop(TRUE)

(* The server's answer. Its body is under way. *)
PartsOf(h) == {n \in 0..MaxParts : /\ Bodiless(h) => n = 0
                                   /\ n = 0 => Bodiless(h) \/ h.framing = "until close"}

RecvHead(h) ==
    /\ Go("recv", "respond")
    /\ open[client]
    /\ resp' = h
    /\ SetState(IF h.framing = "zero" THEN "ready" ELSE "recvd_resp_head")
    /\ peer_disconnected' = [peer_disconnected EXCEPT ![client] = h.v1_0 \/ h.close]
    /\ \E n \in PartsOf(h) : unread' = [unread EXCEPT ![client] = @ + n]
    /\ UNCHANGED <<origin, open, pool, user, client, url, hops, requests>>

RecvFails == pc = "recv" /\ ~open[client] /\ Drop(TRUE)
-----------------------------------------------------------------------------
(* _make_body_reader. *)
Readable(h) == \/ h.status = "not_modified"
               \/ h.framing # "until close"
               \/ h.v1_0

MakeBodyReader ==
    /\ IF state[client] = "recvd_resp_head" /\ Readable(resp) THEN pc' = "body" ELSE Abort
    /\ UNCHANGED <<connVars, pool, user, client, url, hops, resp, requests>>

(* request hands over what was asked for ... *)
Answer == /\ Go("respond", "result")
          /\ resp.status \in {"ok", "not_modified"}
          /\ UNCHANGED <<connVars, pool, user, client, url, hops, resp, requests>>

(* ... and discards the bodies of errors and redirects. *)
Discard == pc = "respond" /\ resp.status \in {"error", "redirect"} /\ MakeBodyReader

(* Its users discard the body of a 304 and save the others. *)
UseBody == pc = "result" /\ MakeBodyReader

ReadPart == /\ pc = "body"
            /\ ~Bodiless(resp)
            /\ unread[client] > 0
            /\ unread' = [unread EXCEPT ![client] = @ - 1]
            /\ UNCHANGED <<origin, state, peer_disconnected, open, pool, pc, user, client,
                           url, hops, resp, requests>>

(* The connection ends early: nobody notices (but a decoder may). *)
ReadEof == /\ Go("body", "read")
           /\ ~Bodiless(resp)
           /\ unread[client] > 0
           /\ ~open[client]
           /\ unread' = [unread EXCEPT ![client] = 0]
           /\ SetState("ready")
           /\ UNCHANGED <<origin, peer_disconnected, open, pool, user, client, url, hops,
                          resp, requests>>

(* Mutation: nobody sets the client ready that read the body of a 304.     *)
EndsUnready == /\ Go("body", "read")
               /\ \/ Bodiless(resp)
                  \/ /\ unread[client] = 0
                     /\ resp.framing = "until close" => ~open[client]
               /\ IF Bodiless(resp) THEN UNCHANGED state ELSE SetState("ready")
               /\ UNCHANGED <<origin, peer_disconnected, open, unread, pool, user, client,
                              url, hops, resp, requests>>

BodyEnds == /\ Go("body", "read")
            /\ \/ Bodiless(resp)
               \/ /\ unread[client] = 0
                  /\ resp.framing = "until close" => ~open[client]
            /\ SetState("ready")
            /\ UNCHANGED <<origin, peer_disconnected, open, unread, pool, user, client,
                           url, hops, resp, requests>>

(* The file to be written, the connection or a decoder may fail.           *)
(* get_remote_db then aborts the client that it saves from.                *)
AbortsClient == user = "sync" /\ resp.status = "ok"

BodyFails == /\ \/ pc = "body"
                \/ pc = "result" /\ (resp.status = "ok" \/ user = "download")
             /\ IF AbortsClient
                THEN /\ SetState("ready")
                     /\ peer_disconnected' = [peer_disconnected EXCEPT ![client] = TRUE]
                     /\ DropReady(TRUE)
                     /\ Quit
                     /\ UNCHANGED <<origin, open, unread, requests>>
                ELSE Drop(TRUE)
-----------------------------------------------------------------------------
(* What became of the request. *)
Finish == /\ pc = "read"
          /\ resp.status \in {"ok", "not_modified"}
          /\ Drop(FALSE)

ThrowStatus == /\ pc = "read"
               /\ \/ resp.status = "error"
                  \/ resp.status = "redirect"   \* too many, or no Location
               /\ Drop(TRUE)

(* Mutation: the redirects are not counted. *)
FollowForEver(o) == /\ Go("read", "client")
                    /\ resp.status = "redirect"
                    /\ url' = o
                    /\ resp' = None
                    /\ DropReady(peer_disconnected[client])
                    /\ UNCHANGED <<connVars, user, hops, requests>>

(* Mutation: one redirect too many is followed.                            *)
FollowOneMore(o) == /\ Go("read", "client")
                    /\ resp.status = "redirect"
                    /\ hops <= MaxRedirects
                    /\ hops' = hops + 1
                    /\ url' = o
                    /\ resp' = None
                    /\ DropReady(peer_disconnected[client])
                    /\ UNCHANGED <<connVars, user, requests>>

Follow(o) == /\ Go("read", "client")
             /\ resp.status = "redirect"
             /\ hops < MaxRedirects
             /\ hops' = hops + 1
             /\ url' = o
             /\ resp' = None
             /\ DropReady(peer_disconnected[client])
             /\ UNCHANGED <<connVars, user, requests>>

HangUp(c) == /\ c = client \/ c \in pool
             /\ open[c]
             /\ open' = [open EXCEPT ![c] = FALSE]
             /\ UNCHANGED <<origin, state, peer_disconnected, unread, pool, pc, user,
                            client, url, hops, resp, requests>>

Step == \/ ConnectFails \/ SendHead \/ SendFails \/ RecvFails \/ Answer \/ Discard \/ UseBody
        \/ ReadPart \/ ReadEof \/ BodyEnds \/ BodyFails \/ Finish \/ ThrowStatus
        \/ \E c \in Conns : Connect(c) \/ Reuse(c)
        \/ \E h \in Heads : RecvHead(h)
        \/ \E o \in Origins : Follow(o)

Next == \/ Step
        \/ \E u \in Users, o \in Origins : Request(u, o)
        \/ \E c \in Conns : HangUp(c)

Spec == Init /\ [][Next]_vars

(* Servers answer, and close a connection that they said they would close. *)
Closes(c) == c = client /\ peer_disconnected[c] /\ HangUp(c)

FairSpec == Spec /\ WF_vars(Step) /\ \A c \in Conns : WF_vars(Closes(c))
-----------------------------------------------------------------------------
TypeOK == /\ origin \in [Conns -> Origins \cup {None}]
          /\ state \in [Conns -> States]
          /\ peer_disconnected \in [Conns -> BOOLEAN]
          /\ open \in [Conns -> BOOLEAN]
          /\ unread \in [Conns -> 0..MaxParts]
          /\ pool \subseteq Conns
          /\ pc \in Steps
          /\ user \in Users \cup {None}
          /\ client \in Conns \cup {None}
          /\ (client # None) <=> (pc \notin {"idle", "client"})
          /\ url \in Origins \cup {None}
          /\ hops \in 0..MaxRedirects
          /\ resp \in Heads \cup {None}
          /\ requests \in 0..MaxRequests

(* A connection in the pool is between two messages: the next head that is *)
(* read from it will be the answer to the next request, not what is left   *)
(* of the body of an answer that was aborted, discarded or redirected.     *)
PooledAreBetweenMessages ==
    \A c \in pool : /\ state[c] = "ready"
                    /\ unread[c] = 0
                    /\ c # client

(* However servers redirect, hang up or cut bodies short: a request ends.  *)
(* (If they answer at all: the pool has no timeouts.)                      *)
RequestsEnd == pc = "client" ~> pc \in {"idle", "aborted"}

(* The assertions of send_head, recv_head, _make_body_reader and the       *)
(* destructor hold, but for the following: a body of Content-Length 0,     *)
(* after which the client is ready before the body was asked for; a body   *)
(* that HTTP/1.1 delimits by closing; and the uninitialised count.         *)
AssertionsHoldOtherwise ==
    pc = "aborted" => \/ resp # None /\ resp.framing \in {"zero", "until close"}
                      \/ state[client] # "ready" /\ resp = None
                      \/ state[client] # "ready" /\ resp.status \in {"redirect", "error"}

(* A body is read from a client that has received the head of the response *)
(* and not yet its end: "Invalid state to ready HTTP response body. Have   *)
(* not yet received the response header". Not so after Content-Length: 0,  *)
(* with which recv_head leaves the client ready; the "Empty response body" *)
(* of _make_body_reader, after the assertion, is never reached that way.   *)
BodyFollowsHead == pc \in {"respond", "result"} => state[client] = "recvd_resp_head"
=============================================================================
