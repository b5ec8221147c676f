---------------------------- MODULE HttpPoolProofs ----------------------------
(***************************************************************************)
(* For any number of connections, origins, requests and redirects, and any *)
(* length of bodies: what the pool holds can be used again, and assertions *)
(* fail for the causes that HttpPool names only.                           *)
(***************************************************************************)
EXTENDS HttpPool, TLAPS

(* The head of the response is kept from its arrival until it is done with.*)
HeadIsKept ==
    /\ pc \in {"respond", "result", "body", "read"} => resp \in Heads
    /\ pc \in {"idle", "client", "send", "recv"} => resp = None
    /\ pc # "idle" => user \in Users /\ url \in Origins

(* The state of the client follows where the request is.                   *)
StateFollowsStep ==
    /\ pc \in {"send", "read"} => state[client] = "ready"
    /\ pc = "recv" => state[client] = "sent_req_body"
    /\ pc \in {"respond", "result"} =>
           state[client] = IF resp.framing = "zero" THEN "ready" ELSE "recvd_resp_head"
    /\ pc = "body" => state[client] = "recvd_resp_head"

(* Between two bodies nothing is unread; nor is anything after a head that *)
(* announces none.                                                         *)
UnreadFollowsStep ==
    /\ pc \in {"send", "recv", "read"} => unread[client] = 0
    /\ pc \in {"respond", "result", "body"} => (Bodiless(resp) => unread[client] = 0)

IInv == /\ TypeOK
        /\ HeadIsKept
        /\ StateFollowsStep
        /\ UnreadFollowsStep
        /\ PooledAreBetweenMessages
        /\ AssertionsHoldOtherwise
-----------------------------------------------------------------------------
LEMMA InitIInv == Init => IInv
  BY HttpPoolAssumption
  DEF Init, IInv, TypeOK, HeadIsKept, StateFollowsStep, UnreadFollowsStep,
      PooledAreBetweenMessages, AssertionsHoldOtherwise, States, Steps

LEMMA ClientIsConn ==
  ASSUME TypeOK, pc \notin {"idle", "client"}
  PROVE  client \in Conns /\ client # None
  BY DEF TypeOK

LEMMA DropKeepsIInv ==
  ASSUME IInv, NEW unwinding \in BOOLEAN, Drop(unwinding), pc \in Steps \ {"idle", "client", "aborted"},
         state[client] = "ready" => (resp # None => pc = "read" \/ Bodiless(resp)),
         pc = "read" \/ unwinding
  PROVE  IInv'
<1> USE HttpPoolAssumption, ClientIsConn DEF Drop, DropReady, ReturnsToPool, Quit, Abort, connVars, Steps
<1>1. TypeOK'
  BY DEF IInv, TypeOK
<1>2. HeadIsKept'
  BY DEF IInv, HeadIsKept
<1>3. StateFollowsStep' /\ UnreadFollowsStep'
  BY DEF StateFollowsStep, UnreadFollowsStep
<1>4. PooledAreBetweenMessages'
  BY DEF IInv, TypeOK, PooledAreBetweenMessages, UnreadFollowsStep, HeadIsKept
<1>5. AssertionsHoldOtherwise'
  BY DEF IInv, TypeOK, AssertionsHoldOtherwise, Inside, StateFollowsStep, HeadIsKept, States
<1>6. QED
  BY <1>1, <1>2, <1>3, <1>4, <1>5 DEF IInv

(* The steps that take a connection and send a request.                    *)
LEMMA SendingKeepsIInv ==
  ASSUME IInv,
         \/ \E u \in Users, o \in Origins : Request(u, o)
         \/ \E c \in Conns : Connect(c) \/ Reuse(c)
         \/ ConnectFails
         \/ SendHead
  PROVE  IInv'
<1> USE HttpPoolAssumption, ClientIsConn DEF Go, SetState, Abort, connVars, Steps
<1>1. ASSUME NEW u \in Users, NEW o \in Origins, Request(u, o)
      PROVE  IInv'
  BY <1>1 DEF IInv, TypeOK, HeadIsKept, StateFollowsStep, UnreadFollowsStep,
              PooledAreBetweenMessages, AssertionsHoldOtherwise, Request
<1>2. ASSUME NEW c \in Conns, Connect(c)
      PROVE  IInv'
  BY <1>2 DEF IInv, TypeOK, HeadIsKept, StateFollowsStep, UnreadFollowsStep,
              PooledAreBetweenMessages, AssertionsHoldOtherwise, Connect, States
<1>3. ASSUME NEW c \in Conns, Reuse(c)
      PROVE  IInv'
  BY <1>3 DEF IInv, TypeOK, HeadIsKept, StateFollowsStep, UnreadFollowsStep,
              PooledAreBetweenMessages, AssertionsHoldOtherwise, Reuse
<1>4. CASE ConnectFails
  BY <1>4 DEF IInv, TypeOK, HeadIsKept, StateFollowsStep, UnreadFollowsStep,
              PooledAreBetweenMessages, AssertionsHoldOtherwise, ConnectFails, Quit
<1>5. CASE SendHead
  BY <1>5 DEF IInv, TypeOK, HeadIsKept, StateFollowsStep, UnreadFollowsStep,
              PooledAreBetweenMessages, AssertionsHoldOtherwise, SendHead, States
<1>6. QED
  BY <1>1, <1>2, <1>3, <1>4, <1>5

(* The arrival of a head, and what request makes of it.                    *)
LEMMA ReceivingKeepsIInv ==
  ASSUME IInv,
         \/ \E h \in Heads : RecvHead(h)
         \/ Answer
         \/ pc \in {"respond", "result"} /\ MakeBodyReader
         \/ \E o \in Origins : Follow(o)
  PROVE  IInv'
<1> USE HttpPoolAssumption, ClientIsConn DEF Go, SetState, Abort, connVars, Steps
<1>1. ASSUME NEW h \in Heads, RecvHead(h)
      PROVE  IInv'
  <2>1. PICK n \in PartsOf(h) : unread' = [unread EXCEPT ![client] = @ + n]
    BY <1>1 DEF RecvHead
  <2>2. n \in 0..MaxParts /\ (Bodiless(h) => n = 0)
    BY <2>1 DEF PartsOf
  <2>3. client \in Conns /\ unread[client] = 0
    BY <1>1 DEF IInv, UnreadFollowsStep, RecvHead
  <2>4. unread' = [unread EXCEPT ![client] = n]
    BY <2>1, <2>2, <2>3
  <2>5. TypeOK'
    BY <1>1, <2>2, <2>3, <2>4 DEF IInv, TypeOK, RecvHead, States, Heads
  <2>6. HeadIsKept' /\ StateFollowsStep' /\ UnreadFollowsStep'
    BY <1>1, <2>2, <2>3, <2>4
    DEF IInv, TypeOK, HeadIsKept, StateFollowsStep, UnreadFollowsStep, RecvHead
  <2>7. PooledAreBetweenMessages' /\ AssertionsHoldOtherwise'
    BY <1>1, <2>3, <2>4
    DEF IInv, TypeOK, PooledAreBetweenMessages, AssertionsHoldOtherwise, RecvHead
  <2>8. QED
    BY <2>5, <2>6, <2>7 DEF IInv
<1>2. CASE Answer
  BY <1>2 DEF IInv, TypeOK, HeadIsKept, StateFollowsStep, UnreadFollowsStep,
              PooledAreBetweenMessages, AssertionsHoldOtherwise, Answer
<1>3. CASE pc \in {"respond", "result"} /\ MakeBodyReader
  <2>1. TypeOK' /\ HeadIsKept' /\ PooledAreBetweenMessages'
    BY <1>3 DEF IInv, TypeOK, HeadIsKept, PooledAreBetweenMessages, MakeBodyReader
  <2>2. StateFollowsStep' /\ UnreadFollowsStep'
    BY <1>3 DEF IInv, StateFollowsStep, UnreadFollowsStep, MakeBodyReader
  <2>3. AssertionsHoldOtherwise'
    BY <1>3 DEF IInv, HeadIsKept, StateFollowsStep, AssertionsHoldOtherwise, MakeBodyReader,
                Readable
  <2>4. QED
    BY <2>1, <2>2, <2>3 DEF IInv
<1>4. ASSUME NEW o \in Origins, Follow(o)
      PROVE  IInv'
  BY <1>4 DEF IInv, TypeOK, HeadIsKept, StateFollowsStep, UnreadFollowsStep,
              PooledAreBetweenMessages, AssertionsHoldOtherwise, Follow, DropReady, ReturnsToPool
<1>5. QED
  BY <1>1, <1>2, <1>3, <1>4

(* The body, and the server.                                               *)
LEMMA ReadingKeepsIInv ==
  ASSUME IInv,
         \/ ReadPart \/ ReadEof \/ BodyEnds
         \/ \E c \in Conns : HangUp(c)
  PROVE  IInv'
<1> USE HttpPoolAssumption, ClientIsConn DEF Go, SetState, connVars, Steps
<1>1. CASE ReadPart
  BY <1>1 DEF IInv, TypeOK, HeadIsKept, StateFollowsStep, UnreadFollowsStep,
              PooledAreBetweenMessages, AssertionsHoldOtherwise, ReadPart
<1>2. CASE ReadEof
  BY <1>2 DEF IInv, TypeOK, HeadIsKept, StateFollowsStep, UnreadFollowsStep,
              PooledAreBetweenMessages, AssertionsHoldOtherwise, ReadEof, States
<1>3. CASE BodyEnds
  BY <1>3 DEF IInv, TypeOK, HeadIsKept, StateFollowsStep, UnreadFollowsStep,
              PooledAreBetweenMessages, AssertionsHoldOtherwise, BodyEnds, States
<1>4. ASSUME NEW c \in Conns, HangUp(c)
      PROVE  IInv'
  BY <1>4 DEF IInv, TypeOK, HeadIsKept, StateFollowsStep, UnreadFollowsStep,
              PooledAreBetweenMessages, AssertionsHoldOtherwise, HangUp
<1>5. QED
  BY <1>1, <1>2, <1>3, <1>4

(* The ways a request ends.                                                *)
LEMMA EndingKeepsIInv ==
  ASSUME IInv, SendFails \/ RecvFails \/ BodyFails \/ Finish \/ ThrowStatus
  PROVE  IInv'
<1> USE ClientIsConn DEF Steps
<1>1. CASE SendFails \/ RecvFails
  BY <1>1, DropKeepsIInv DEF IInv, HeadIsKept, SendFails, RecvFails
<1>2. CASE Finish \/ ThrowStatus
  BY <1>2, DropKeepsIInv DEF IInv, Finish, ThrowStatus
<1>3. CASE BodyFails /\ ~AbortsClient
  <2>1. Drop(TRUE) /\ pc \in {"body", "result"}
    BY <1>3 DEF BodyFails
  <2>2. state[client] = "ready" => Bodiless(resp)
    BY <2>1 DEF IInv, StateFollowsStep, Bodiless
  <2>3. QED
    BY <2>1, <2>2, DropKeepsIInv
<1>4. CASE BodyFails /\ AbortsClient
  <2>1. /\ pc \in {"body", "result"}
        /\ SetState("ready")
        /\ peer_disconnected' = [peer_disconnected EXCEPT ![client] = TRUE]
        /\ DropReady(TRUE)
        /\ Quit
        /\ UNCHANGED <<origin, open, unread, requests>>
    BY <1>4 DEF BodyFails
  <2>2. TypeOK'
    BY <2>1, HttpPoolAssumption DEF IInv, TypeOK, SetState, DropReady, ReturnsToPool, Quit, States
  <2>3. HeadIsKept'
    BY <2>1 DEF HeadIsKept, Quit
  <2>4. StateFollowsStep' /\ UnreadFollowsStep' /\ AssertionsHoldOtherwise'
    BY <2>1 DEF StateFollowsStep, UnreadFollowsStep, AssertionsHoldOtherwise, Quit
  <2>5. client \notin pool'
    BY <2>1 DEF IInv, PooledAreBetweenMessages, DropReady, ReturnsToPool
  <2>6. PooledAreBetweenMessages'
    BY <2>1, <2>5, HttpPoolAssumption
    DEF IInv, TypeOK, PooledAreBetweenMessages, SetState, DropReady, ReturnsToPool
  <2>7. QED
    BY <2>2, <2>4, <2>6, <2>3 DEF IInv
<1>5. QED
  BY <1>1, <1>2, <1>3, <1>4

LEMMA StutterKeepsIInv ==
  ASSUME IInv, UNCHANGED vars
  PROVE  IInv'
  BY DEF IInv, TypeOK, HeadIsKept, StateFollowsStep, UnreadFollowsStep,
         PooledAreBetweenMessages, AssertionsHoldOtherwise, vars, connVars

LEMMA NextIInv == IInv /\ [Next]_vars => IInv'
<1> SUFFICES ASSUME IInv, [Next]_vars PROVE IInv'
  OBVIOUS
<1>1. CASE Step
  <2>1. CASE Discard \/ UseBody
    BY <2>1, ReceivingKeepsIInv DEF Discard, UseBody
  <2>2. CASE SendFails \/ RecvFails \/ BodyFails \/ Finish \/ ThrowStatus
    BY <2>2, EndingKeepsIInv
  <2>3. QED
    BY <1>1, <2>1, <2>2, SendingKeepsIInv, ReceivingKeepsIInv, ReadingKeepsIInv DEF Step
<1>2. QED
  BY <1>1, SendingKeepsIInv, ReadingKeepsIInv, StutterKeepsIInv DEF Next

LEMMA SpecIInv == Spec => []IInv
  BY InitIInv, NextIInv, PTL DEF Spec
-----------------------------------------------------------------------------
(* Types: a request has a client exactly between taking a connection and   *)
(* giving it back, and is redirected MaxRedirects times at most.           *)
THEOREM TypeCorrect == Spec => []TypeOK
<1>1. IInv => TypeOK
  BY DEF IInv
<1>2. QED
  BY <1>1, SpecIInv, PTL

(* ~http_client pools no connection with a part of a body unread, and none *)
(* that is in use: see PooledAreBetweenMessages.                           *)
THEOREM PoolIsReusable == Spec => []PooledAreBetweenMessages
<1>1. IInv => PooledAreBetweenMessages
  BY DEF IInv
<1>2. QED
  BY <1>1, SpecIInv, PTL

(* The assertions of pool.cpp fail for an empty body, for one delimited by *)
(* closing, or by the uninitialised _n_exceptions, and for nothing else.   *)
THEOREM AssertionsHold == Spec => []AssertionsHoldOtherwise
<1>1. IInv => AssertionsHoldOtherwise
  BY DEF IInv
<1>2. QED
  BY <1>1, SpecIInv, PTL
=============================================================================
