----------------------------- MODULE TurnClient -----------------------------
(***************************************************************************)
(* One TURN allocation of a modern call, infrastructure/turn/turn_client,  *)
(* as TgcallsConnection drives it: Start opens it on one thread, and every *)
(* signaling thread that delivers candidates asks it for permissions,      *)
(* while the socket's callbacks bring in answers and data.                 *)
(*                                                                         *)
(* m_lock is held for a few lines at a time, so a request is a sequence of *)
(* steps: its slot is taken, it is sent, its answer is awaited.  There is  *)
(* one slot, and nothing keeps a second thread from taking it while the    *)
(* first still waits.                                                      *)
(*                                                                         *)
(* The network loses, repeats and reorders; the server is external, and    *)
(* may forget an allocation or its permissions, or change its nonce: the   *)
(* client refreshes none of them.                                          *)
(***************************************************************************)
EXTENDS Naturals, FiniteSets

CONSTANTS
  Opener,     \* the thread in TgcallsConnection::Start
  Callers,    \* the threads in OnPeerCandidates
  Handlers,   \* the threads that run MessageReceived
  Peers,      \* relay candidates of the peer
  MaxTxn,     \* bound: requests the threads make
  MaxFaults,  \* bound: what the network and the server do to them
  None        \* no peer, no message

ASSUME OpenerAssumption == Opener \notin Callers
ASSUME NoneAssumption == None \notin Peers
ASSUME BoundsAssumption == MaxTxn \in Nat /\ MaxFaults \in Nat

Threads == {Opener} \cup Callers
Txns == 1..MaxTxn
Nonces == 0..(MaxFaults + 1)

Requests == [kind : {"allocate", "permit"}, txn : Txns, peer : Peers \cup {None},
             nonce : Nonces]
Responses == [txn : Txns, class : {"success", "error"}, code : {0, 401, 437, 438},
              nonce : Nonces]

\* Nonce 0 is none: a request that carries it is not authenticated.
NoNonce == 0

VARIABLES
  active,      \* m_active
  socket,      \* m_socketState is set and its Active flag is up
  allocated,   \* m_allocated
  nonce,       \* m_nonce, with m_realm and m_key
  permitted,   \* m_permittedPeers
  pending,     \* m_havePending, m_pendingComplete, m_pendingTxnId and
               \* m_pendingResponse
  thread,      \* where each thread stands, with its locals
  handler,     \* the message each callback is in OnInboundUdp with
  txns,        \* GenerateTxnId: how many it has made
  requests,    \* requests on their way to the server
  responses,   \* responses on their way back
  server,      \* the server's allocation and the transaction that made it,
               \* its permissions and nonce, whether it asks for none
  faults,      \* bound
  granted, answers,  \* history: what the server has ever granted, and the
                     \* class of its answer to each transaction
  overlapped         \* history: two threads have had a request at once

clientVars == <<active, socket, allocated, nonce, permitted, pending, txns,
                overlapped>>
networkVars == <<requests, responses, server, granted, answers>>
vars == <<clientVars, thread, handler, networkVars, faults>>

Idle == [at |-> "idle", peer |-> None, txn |-> 0, ok |-> FALSE]
NoPending == [have |-> FALSE, complete |-> FALSE, txn |-> 0, response |-> {}]

Init ==
  /\ active = FALSE /\ socket = FALSE /\ allocated = FALSE
  /\ nonce = NoNonce /\ permitted = {}
  /\ pending = NoPending
  /\ thread = [t \in Threads |-> Idle]
  /\ handler = [h \in Handlers |-> {}]
  /\ txns = 0
  /\ requests = {} /\ responses = {}
  /\ server \in [allocated : {FALSE}, permitted : {{}}, nonce : {1},
                    by : {0}, open : BOOLEAN]
  /\ faults = 0
  /\ granted = {} /\ answers = {} /\ overlapped = FALSE

Goto(t, at) == thread' = [thread EXCEPT ![t].at = at]

-----------------------------------------------------------------------------
(* OpenAllocation and DoAllocateHandshake.                                  *)

\* The peers it could be given to ask permission for at once are none: its one
\* caller, TgcallsConnection::Start, passes an empty list.
OpenAllocation(t) ==
  /\ t = Opener /\ thread[t].at = "idle" /\ ~active
  /\ \/ /\ socket' = TRUE /\ active' = TRUE
        /\ permitted' = {} /\ nonce' = NoNonce
        /\ pending' = NoPending
        /\ Goto(t, "allocate1")
     \/ \* no socket
        /\ Goto(t, "failed")
        /\ UNCHANGED <<socket, active, permitted, nonce, pending>>
  /\ UNCHANGED <<allocated, txns, overlapped, handler, networkVars, faults>>

Sending == {"send1", "send2", "send"}
Waiting == {"wait1", "wait2", "wait"}

\* Takes the slot for a new transaction, whoever waits for the old one.
TakeSlot(t) ==
  /\ txns < MaxTxn
  /\ txns' = txns + 1
  /\ pending' = [have |-> TRUE, complete |-> FALSE, txn |-> txns + 1, response |-> {}]
  /\ overlapped' = (overlapped \/ \E u \in Threads : thread[u].at \in Sending \cup Waiting)

Begin(t) ==
  /\ thread[t].at \in {"allocate1", "allocate2", "permit"}
  /\ TakeSlot(t)
  /\ thread' = [thread EXCEPT ![t].txn = txns + 1,
                  ![t].at = CASE thread[t].at = "allocate1" -> "send1"
                              [] thread[t].at = "allocate2" -> "send2"
                              [] thread[t].at = "permit"    -> "send"]
  /\ UNCHANGED <<active, socket, allocated, nonce, permitted, handler,
                 networkVars, faults>>

Failed(t) ==
  [thread EXCEPT ![t].at = IF thread[t].at \in {"send", "wait"} THEN "returned" ELSE "close",
                 ![t].ok = FALSE]

Close ==
  /\ active' = FALSE /\ socket' = FALSE /\ allocated' = FALSE
  /\ pending' = [pending EXCEPT !.have = FALSE]

\* SendRawDatagram, then WaitForResponse; a write that fails leaves the slot
\* as it is.
Send(t) ==
  /\ thread[t].at \in Sending
  /\ \/ /\ requests' = requests \cup
            {[kind  |-> IF thread[t].at = "send" THEN "permit" ELSE "allocate",
              txn   |-> thread[t].txn, peer |-> thread[t].peer,
              nonce |-> IF thread[t].at = "send1" THEN NoNonce ELSE nonce]}
        /\ Goto(t, CASE thread[t].at = "send1" -> "wait1"
                     [] thread[t].at = "send2" -> "wait2"
                     [] thread[t].at = "send"  -> "wait")
        /\ UNCHANGED faults
     \/ /\ faults < MaxFaults /\ faults' = faults + 1
        /\ thread' = Failed(t)
        /\ UNCHANGED requests
  /\ UNCHANGED <<clientVars, handler, responses, server, granted, answers>>

\* Faulty variant: any complete answer will do.
AnsweredAtAll(t) == active /\ pending.have /\ pending.complete

Answered(t) ==
  active /\ pending.have /\ pending.complete /\ pending.txn = thread[t].txn

\* A deadline is early, a fault, when the answer is still under way or there.
Late(t) ==
  IF /\ pending.txn = thread[t].txn
     /\ \/ Answered(t)
        \/ \E q \in requests \cup responses : q.txn = thread[t].txn
        \/ \E h \in Handlers : \E r \in handler[h] : r.txn = thread[t].txn
  THEN 1 ELSE 0

\* What the thread does with the answer r.
Next1(r) == IF r.class = "error" /\ r.code = 401 THEN "allocate2"
            ELSE IF r.class = "success" THEN "grant" ELSE "close"
Next2(r) == IF r.class = "success" THEN "grant" ELSE "close"

\* Faulty variant: the challenge's nonce is not kept.
ReturnWithoutNonce(t) ==
  /\ thread[t].at \in Waiting /\ Answered(t)
  /\ \E r \in pending.response :
       thread' = [thread EXCEPT
            ![t].at = CASE thread[t].at = "wait1" -> Next1(r)
                        [] thread[t].at = "wait2" -> Next2(r)
                        [] thread[t].at = "wait"  -> "returned",
            ![t].ok = (r.class = "success")]
  /\ pending' = [pending EXCEPT !.have = FALSE, !.complete = FALSE]
  /\ UNCHANGED <<active, socket, allocated, nonce, permitted, txns, overlapped,
                 handler, networkVars, faults>>

Return(t) ==
  /\ thread[t].at \in Waiting /\ Answered(t)
  /\ \E r \in pending.response :
       /\ thread' = [thread EXCEPT
            ![t].at = CASE thread[t].at = "wait1" -> Next1(r)
                        [] thread[t].at = "wait2" -> Next2(r)
                        [] thread[t].at = "wait"  -> "returned",
            ![t].ok = (r.class = "success")]
       /\ nonce' = IF thread[t].at = "wait1" /\ Next1(r) = "allocate2"
                   THEN r.nonce ELSE nonce
  /\ pending' = [pending EXCEPT !.have = FALSE, !.complete = FALSE]
  /\ UNCHANGED <<active, socket, allocated, permitted, txns, overlapped,
                 handler, networkVars, faults>>

\* Faulty variant: the deadline is looked at only while the slot is this
\* thread's own.
TimeOutInSlot(t) ==
  /\ thread[t].at \in Waiting /\ pending.txn = thread[t].txn
  /\ faults + Late(t) <= MaxFaults
  /\ faults' = faults + Late(t)
  /\ thread' = Failed(t)
  /\ UNCHANGED <<clientVars, handler, networkVars>>

\* wait_until reports the deadline without looking at the slot again.
TimeOut(t) ==
  /\ thread[t].at \in Waiting
  /\ faults + Late(t) <= MaxFaults
  /\ faults' = faults + Late(t)
  /\ thread' = Failed(t)
  /\ UNCHANGED <<clientVars, handler, networkVars>>

Grant(t) ==
  /\ thread[t].at = "grant"
  /\ allocated' = TRUE
  /\ Goto(t, "open")
  /\ UNCHANGED <<active, socket, nonce, permitted, pending, txns, overlapped,
                 handler, networkVars, faults>>

CloseAfterFailure(t) ==
  /\ thread[t].at = "close"
  /\ Close
  /\ Goto(t, "failed")
  /\ UNCHANGED <<nonce, permitted, txns, overlapped, handler, networkVars, faults>>

-----------------------------------------------------------------------------
(* AddPeerPermission: the allocation is tested, then the list, then the     *)
(* slot taken, each under a lock of its own.                                *)

AddPeerPermission(t, p) ==
  /\ t \in Callers /\ thread[t].at = "idle"
  /\ thread[Opener].at = "open"
  /\ txns + Cardinality({u \in Callers : thread[u].at # "idle"}) < MaxTxn
  /\ thread' = [thread EXCEPT ![t] = [Idle EXCEPT !.peer = p, !.at = "check"]]
  /\ UNCHANGED <<clientVars, handler, networkVars, faults>>

CheckPermitted(t) ==
  /\ thread[t].at = "check"
  /\ IF ~allocated THEN thread' = [thread EXCEPT ![t] = Idle]
     ELSE IF thread[t].peer \in permitted
     THEN thread' = [thread EXCEPT ![t] = Idle]
     ELSE Goto(t, "permit")
  /\ UNCHANGED <<clientVars, handler, networkVars, faults>>

\* Faulty variant: the address is listed whatever the server said.
RecordPermissionAnyway(t) ==
  /\ thread[t].at = "returned"
  /\ permitted' = permitted \cup {thread[t].peer}
  /\ thread' = [thread EXCEPT ![t] = Idle]
  /\ UNCHANGED <<active, socket, allocated, nonce, pending, txns, overlapped,
                 handler, networkVars, faults>>

RecordPermission(t) ==
  /\ thread[t].at = "returned"
  /\ permitted' = IF thread[t].ok THEN permitted \cup {thread[t].peer} ELSE permitted
  /\ thread' = [thread EXCEPT ![t] = Idle]
  /\ UNCHANGED <<active, socket, allocated, nonce, pending, txns, overlapped,
                 handler, networkVars, faults>>

-----------------------------------------------------------------------------
(* The socket's callbacks.                                                  *)

Disturbed(again) == IF again THEN 1 ELSE 0

\* The callback looks at Active and is on its way into OnInboundUdp.
MessageReceived(h, r, again) ==
  /\ handler[h] = {} /\ socket
  /\ faults + Disturbed(again) <= MaxFaults
  /\ faults' = faults + Disturbed(again)
  /\ responses' = IF again THEN responses ELSE responses \ {r}
  /\ handler' = [handler EXCEPT ![h] = {r}]
  /\ UNCHANGED <<clientVars, thread, requests, server, granted, answers>>

OnInboundUdp(h) ==
  /\ handler[h] # {}
  /\ handler' = [handler EXCEPT ![h] = {}]
  /\ pending' = IF pending.have /\ \E r \in handler[h] : r.txn = pending.txn
                THEN [pending EXCEPT !.complete = TRUE, !.response = handler[h]]
                ELSE pending
  /\ UNCHANGED <<active, socket, allocated, nonce, permitted, txns, overlapped,
                 thread, networkVars, faults>>

\* The call is gone and nobody holds the client any more.  A callback that has
\* seen Active still enters OnInboundUdp.
Destroy ==
  /\ thread[Opener].at = "open"
  /\ \A t \in Callers : thread[t].at = "idle"
  /\ Close
  /\ Goto(Opener, "destroyed")
  /\ UNCHANGED <<nonce, permitted, txns, overlapped, handler, networkVars, faults>>

-----------------------------------------------------------------------------
(* The network and the server.                                              *)

Lose ==
  /\ faults < MaxFaults /\ faults' = faults + 1
  /\ \/ \E q \in requests : requests' = requests \ {q} /\ UNCHANGED responses
     \/ \E r \in responses : responses' = responses \ {r} /\ UNCHANGED requests
  /\ UNCHANGED <<clientVars, thread, handler, server, granted, answers>>

Answer(q, class, code) ==
  /\ responses' = responses \cup {[txn |-> q.txn, class |-> class, code |-> code,
                                   nonce |-> server.nonce]}
  /\ answers' = answers \cup {<<q.txn, class>>}

Authenticated(q) == server.open \/ q.nonce = server.nonce

ServerRefuses(q) ==
  /\ \/ ~Authenticated(q) /\ Answer(q, "error", IF q.nonce = NoNonce THEN 401 ELSE 438)
     \/ /\ Authenticated(q)
        /\ IF q.kind = "allocate" THEN server.allocated /\ server.by # q.txn
                                  ELSE ~server.allocated
        /\ Answer(q, "error", 437)
  /\ UNCHANGED <<server, granted>>

ServerGrants(q) ==
  /\ Authenticated(q)
  /\ IF q.kind = "allocate"
     THEN /\ server.allocated => server.by = q.txn
          /\ server' = [server EXCEPT !.allocated = TRUE, !.by = q.txn]
     ELSE /\ server.allocated
          /\ server' = [server EXCEPT !.permitted = @ \cup {q.peer}]
  /\ granted' = granted \cup {q.peer}
  /\ Answer(q, "success", 0)

ServerReceives(q, again) ==
  /\ faults + Disturbed(again) <= MaxFaults
  /\ faults' = faults + Disturbed(again)
  /\ requests' = IF again THEN requests ELSE requests \ {q}
  /\ ServerRefuses(q) \/ ServerGrants(q)
  /\ UNCHANGED <<clientVars, thread, handler>>

\* Ten minutes without a Refresh, or five without a new CreatePermission; a
\* nonce that has served its time.
ServerForgets ==
  /\ faults < MaxFaults /\ faults' = faults + 1
  /\ \/ server.allocated /\ server' = [server EXCEPT !.allocated = FALSE, !.permitted = {}]
     \/ server.permitted # {} /\ server' = [server EXCEPT !.permitted = {}]
     \/ server' = [server EXCEPT !.nonce = @ + 1]
  /\ UNCHANGED <<clientVars, thread, handler, requests, responses, granted, answers>>

-----------------------------------------------------------------------------

ThreadStep(t) ==
  \/ Begin(t) \/ Send(t) \/ Return(t) \/ TimeOut(t)
  \/ Grant(t) \/ CloseAfterFailure(t)
  \/ CheckPermitted(t) \/ RecordPermission(t)

Next ==
  \/ OpenAllocation(Opener)
  \/ \E t \in Callers, p \in Peers : AddPeerPermission(t, p)
  \/ \E t \in Threads : ThreadStep(t)
  \/ \E h \in Handlers :
       \/ \E r \in responses, again \in BOOLEAN : MessageReceived(h, r, again)
       \/ OnInboundUdp(h)
  \/ Destroy
  \/ Lose
  \/ \E q \in requests, again \in BOOLEAN : ServerReceives(q, again)
  \/ ServerForgets

Spec == Init /\ [][Next]_vars

(***************************************************************************)
(* Threads run, a wait ends by its deadline at the latest, what the        *)
(* network holds arrives, and the server answers what it gets.  Nothing    *)
(* obliges the peer to offer candidates or the call to end.                *)
(***************************************************************************)
Fairness ==
  /\ \A t \in Threads : WF_vars(ThreadStep(t))
  /\ \A h \in Handlers :
       /\ WF_vars(\E r \in responses : MessageReceived(h, r, FALSE))
       /\ WF_vars(OnInboundUdp(h))
  /\ WF_vars(\E q \in requests : ServerReceives(q, FALSE))

FairSpec == Spec /\ Fairness

-----------------------------------------------------------------------------
(* Properties.                                                              *)

ThreadType ==
  [at : {"idle", "allocate1", "allocate2", "check", "permit", "grant", "close",
         "returned", "open", "failed", "destroyed"} \cup Sending \cup Waiting,
   peer : Peers \cup {None}, txn : 0..MaxTxn, ok : BOOLEAN]

\* A client without a socket holds no allocation, whichever thread closes it.
SocketType ==
  /\ active \in BOOLEAN /\ socket = active
  /\ allocated \in BOOLEAN /\ (allocated => active)

SlotType ==
  pending \in [have : BOOLEAN, complete : BOOLEAN, txn : 0..MaxTxn,
               response : SUBSET Responses]

DataType ==
  /\ nonce \in Nonces /\ permitted \subseteq Peers
  /\ thread \in [Threads -> ThreadType]
  /\ handler \in [Handlers -> SUBSET Responses]
  /\ txns \in 0..MaxTxn /\ faults \in 0..MaxFaults
  /\ requests \subseteq Requests /\ responses \subseteq Responses

\* Types of the variables.
TypeOK == SocketType /\ SlotType /\ DataType

\* However threads share the one slot and answers are late or repeated, a
\* request that is told it succeeded is one the server granted.
AnswerIsOwn ==
  \A t \in Threads : thread[t].ok => <<thread[t].txn, "success">> \in answers

\* An address the client lists as permitted, and the allocation it goes by,
\* have been granted by the server.
GrantsAreReal ==
  /\ permitted \subseteq granted
  /\ allocated => None \in granted

\* No thread stays in the client: not one whose slot was taken, nor one whose
\* answer was lost.
CallsReturn ==
  \A t \in Threads :
    thread[t].at # "idle" ~> thread[t].at \in {"idle", "open", "failed", "destroyed"}

\* What nothing disturbs succeeds: the allocation through its challenge, and a
\* permission asked for while no other request is out.
UndisturbedSucceeds ==
  /\ thread[Opener].at = "allocate1" ~> allocated \/ faults > 0
  /\ \A t \in Callers, p \in Peers :
       thread[t].at = "permit" /\ thread[t].peer = p
         ~> p \in permitted \/ faults > 0 \/ overlapped
=============================================================================
