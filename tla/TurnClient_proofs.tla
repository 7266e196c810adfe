--------------------------- MODULE TurnClient_proofs ---------------------------
(***************************************************************************)
(* Proofs about the two protocols by which a modern call finds its way to  *)
(* the peer: TurnClient, for any callers, peers and faults (its types,     *)
(* AnswerIsOwn and GrantsAreReal), and, in the second part, IceCall, for   *)
(* any candidates and retry budget (its types, SelectionIsEarned and       *)
(* NominationsAreEarned).                                                  *)
(*                                                                         *)
(* The argument for TurnClient: a transaction number belongs to one thread, from the      *)
(* moment it takes the slot, and so does every request and answer that     *)
(* bears it (TxnInv); the slot only ever holds answers to the transaction  *)
(* it is for (ResponseInv); and a thread takes only its own transaction's  *)
(* answer out of it, whoever has taken the slot meanwhile (OkInv).         *)
(***************************************************************************)
EXTENDS TurnClient, IceCall, TLAPS

OpenerAt == {"allocate1", "send1", "wait1", "allocate2", "send2", "wait2", "grant",
             "close", "open"}
CallerAt == {"check", "permit", "send", "wait", "returned"}
Unanswered == {"idle", "allocate1", "allocate2", "check", "permit"} \cup Sending \cup Waiting

\* Where a thread stands says who it is, whom it asks for and what it was told.
PlaceInv ==
  \A t \in Threads :
    /\ thread[t].at \in OpenerAt => t = Opener /\ active
    /\ thread[t].at \in CallerAt => thread[t].peer \in Peers
    /\ thread[t].at \notin CallerAt => thread[t].peer = None
    /\ thread[t].at \in Unanswered => ~thread[t].ok
    /\ thread[t].at = "grant" => thread[t].ok
    /\ thread[t].at \in Sending \cup Waiting => thread[t].txn # 0

\* A transaction has one owner, and its requests ask for what the owner wants.
TxnInv ==
  /\ \A t \in Threads : thread[t].txn <= txns
  /\ \A t, u \in Threads : thread[t].txn = thread[u].txn => t = u \/ thread[t].txn = 0
  /\ \A q \in requests : q.txn <= txns
  /\ \A q \in requests : \A t \in Threads :
       thread[t].txn = q.txn => thread[t].peer = q.peer
  /\ \A n \in Nat : <<n, "success">> \in answers => n # 0 /\ n <= txns

\* What is on its way back, in a callback or in the slot was answered so.
ResponseInv ==
  /\ \A h \in Handlers : \A r, s \in handler[h] : r = s
  /\ \A r \in responses : r.class = "success" => <<r.txn, "success">> \in answers
  /\ \A h \in Handlers : \A r \in handler[h] :
       r.class = "success" => <<r.txn, "success">> \in answers
  /\ \A r \in pending.response :
       /\ r.txn = pending.txn
       /\ r.class = "success" => <<r.txn, "success">> \in answers

\* A thread was told of its own transaction, and what it asked for is granted.
OkInv ==
  \A t \in Threads :
    /\ thread[t].ok => <<thread[t].txn, "success">> \in answers
    /\ <<thread[t].txn, "success">> \in answers => thread[t].peer \in granted

\* The server changes its nonce no more often than there are faults.
ServerInv ==
  /\ server \in [allocated : BOOLEAN, permitted : SUBSET (Peers \cup {None}), nonce : Nat,
                 by : Nat, open : BOOLEAN]
  /\ server.nonce \in 1..(faults + 1)

IInv ==
  /\ TypeOK
  /\ ServerInv
  /\ PlaceInv
  /\ TxnInv
  /\ ResponseInv
  /\ OkInv
  /\ GrantsAreReal

\* One thread goes elsewhere with its request; the others stay.
Moved(t) ==
  /\ thread' \in [Threads -> ThreadType]
  /\ \A u \in Threads : u # t => thread'[u] = thread[u]
  /\ thread'[t].txn = thread[t].txn /\ thread'[t].peer = thread[t].peer

-------------------------------------------------------------------------------
(* Lemmas about parts of a step.                                            *)

\* The invariant holds before the socket is bound.
LEMMA InitHolds == Init => IInv
<1> SUFFICES ASSUME Init PROVE IInv
  OBVIOUS
<1>1. \A t \in Threads : thread[t] = Idle
  BY DEF Init
<1>2. Idle \in ThreadType /\ Idle.at = "idle" /\ Idle.peer = None /\ Idle.txn = 0 /\ Idle.ok = FALSE
  <2>1. Idle \in ThreadType
    BY BoundsAssumption DEF Idle, ThreadType
  <2>2. Idle.at = "idle" /\ Idle.peer = None /\ Idle.txn = 0 /\ ~Idle.ok
    BY DEF Idle
  <2>3. Idle.ok = FALSE
    BY DEF Idle
  <2> QED BY <2>1, <2>2, <2>3
<1>3. SlotType /\ pending.response = {}
  BY BoundsAssumption DEF Init, NoPending, SlotType
<1>4. TypeOK
  <2>1. SocketType
    BY DEF Init, SocketType
  <2>2. DataType
    BY <1>2, BoundsAssumption DEF Init, DataType, Nonces, NoNonce
  <2> QED BY <2>1, <2>2, <1>3 DEF TypeOK
<1>5. ServerInv
  <2>1. server \in [allocated : {FALSE}, permitted : {{}}, nonce : {1}, by : {0}, open : BOOLEAN]
    BY DEF Init
  <2>2. server \in [allocated : BOOLEAN, permitted : SUBSET (Peers \cup {None}), nonce : Nat,
                    by : Nat, open : BOOLEAN]
    <3>1. PICK o \in BOOLEAN : server = [allocated |-> FALSE, permitted |-> {}, nonce |-> 1,
                                         by |-> 0, open |-> o]
      BY <2>1
    <3> QED BY <3>1
  <2>3. server.nonce = 1 /\ faults = 0
    BY <2>1 DEF Init
  <2> QED BY <2>2, <2>3 DEF ServerInv
<1>6. PlaceInv
  BY <1>1, <1>2 DEF PlaceInv, OpenerAt, CallerAt, Unanswered, Sending, Waiting
<1>7. TxnInv
  BY <1>1, <1>2 DEF Init, TxnInv
<1>8. ResponseInv
  BY <1>3 DEF Init, ResponseInv
<1>9. OkInv
  BY <1>1, <1>2 DEF Init, OkInv
<1>10. GrantsAreReal
  BY DEF Init, GrantsAreReal
<1> QED BY <1>4, <1>5, <1>6, <1>7, <1>8, <1>9, <1>10 DEF IInv

\* Whoever moves, the transactions keep their owners.
LEMMA MovedTxn ==
  ASSUME TypeOK, TxnInv, NEW t \in Threads, Moved(t), UNCHANGED <<txns, requests, answers>>
  PROVE  TxnInv'
<1>1. \A u \in Threads : thread'[u].txn = thread[u].txn /\ thread'[u].peer = thread[u].peer
  BY DEF Moved
<1> QED BY <1>1 DEF TxnInv

\* A thread that is not told that it succeeded knows no more than before.
LEMMA MovedOk ==
  ASSUME TypeOK, OkInv, NEW t \in Threads, Moved(t), UNCHANGED <<answers, granted>>,
         thread'[t].ok => <<thread[t].txn, "success">> \in answers
  PROVE  OkInv'
<1>1. \A u \in Threads : thread'[u].txn = thread[u].txn /\ thread'[u].peer = thread[u].peer
  BY DEF Moved
<1>2. \A u \in Threads : thread'[u].ok => thread[u].ok \/ u = t
  BY DEF Moved
<1> QED BY <1>1, <1>2 DEF OkInv

\* The place of the thread that moves is all there is to show of the places.
LEMMA MovedPlace ==
  ASSUME PlaceInv, NEW t \in Threads, \A u \in Threads : u # t => thread'[u] = thread[u],
         active' = active \/ t = Opener,
         /\ thread'[t].at \in OpenerAt => t = Opener /\ active'
         /\ thread'[t].at \in CallerAt => thread'[t].peer \in Peers
         /\ thread'[t].at \notin CallerAt => thread'[t].peer = None
         /\ thread'[t].at \in Unanswered => ~thread'[t].ok
         /\ thread'[t].at = "grant" => thread'[t].ok
         /\ thread'[t].at \in Sending \cup Waiting => thread'[t].txn # 0
  PROVE  PlaceInv'
<1> SUFFICES ASSUME NEW u \in Threads
             PROVE  /\ thread'[u].at \in OpenerAt => u = Opener /\ active'
                    /\ thread'[u].at \in CallerAt => thread'[u].peer \in Peers
                    /\ thread'[u].at \notin CallerAt => thread'[u].peer = None
                    /\ thread'[u].at \in Unanswered => ~thread'[u].ok
                    /\ thread'[u].at = "grant" => thread'[u].ok
                    /\ thread'[u].at \in Sending \cup Waiting => thread'[u].txn # 0
  BY DEF PlaceInv
<1>1. CASE u = t
  BY <1>1
<1>2. CASE u # t
  <2>1. thread'[u] = thread[u]
    BY <1>2
  <2>2. thread[u].at \in OpenerAt => u = Opener /\ active
    BY DEF PlaceInv
  <2>3. thread'[u].at \in OpenerAt => u = Opener /\ active'
    BY <2>1, <2>2, <1>2
  <2> QED BY <2>1, <2>3 DEF PlaceInv
<1> QED BY <1>1, <1>2

\* Answers outlive what happens to threads and slot.
LEMMA ResponsesKeep ==
  ASSUME ResponseInv, UNCHANGED <<responses, handler, answers>>,
         pending'.response = {} \/
           (pending'.response = pending.response /\ pending'.txn = pending.txn)
  PROVE  ResponseInv'
BY DEF ResponseInv

\* What is left to show of a step of a thread.
LEMMA ThreadKeeps ==
  ASSUME IInv, SocketType', SlotType', thread' \in [Threads -> ThreadType],
         nonce' \in Nonces, permitted' \subseteq Peers, txns' \in 0..MaxTxn,
         faults' \in 0..MaxFaults, faults' >= faults, requests' \subseteq Requests,
         PlaceInv', TxnInv', OkInv', GrantsAreReal',
         UNCHANGED <<handler, responses, server, answers>>,
         pending'.response = {} \/
           (pending'.response = pending.response /\ pending'.txn = pending.txn)
  PROVE  IInv'
<1>1. DataType'
  BY DEF IInv, TypeOK, DataType
<1>2. ResponseInv'
  BY ResponsesKeep DEF IInv
<1>3. ServerInv'
  BY BoundsAssumption DEF IInv, TypeOK, DataType, ServerInv
<1> QED BY <1>1, <1>2, <1>3 DEF IInv, TypeOK

\* A thread that moves with its request in hand.
LEMMA MoveKeeps ==
  ASSUME IInv, NEW t \in Threads, Moved(t), PlaceInv', SocketType', SlotType',
         thread'[t].ok => <<thread[t].txn, "success">> \in answers,
         nonce' \in Nonces, permitted' \subseteq Peers, GrantsAreReal',
         faults' \in 0..MaxFaults, faults' >= faults,
         UNCHANGED <<txns, requests, handler, responses, server, answers, granted>>,
         pending'.response = {} \/
           (pending'.response = pending.response /\ pending'.txn = pending.txn)
  PROVE  IInv'
<1>1. TypeOK /\ TxnInv /\ OkInv
  BY DEF IInv
<1>2. TxnInv' /\ OkInv'
  BY <1>1, MovedTxn, MovedOk
<1>3. thread' \in [Threads -> ThreadType] /\ txns' \in 0..MaxTxn /\ requests' \subseteq Requests
  BY <1>1 DEF TypeOK, DataType, Moved
<1> QED BY <1>2, <1>3, ThreadKeeps

\* What a step to another place does to the thread.
LEMMA GotoMoves ==
  ASSUME TypeOK, NEW t \in Threads, NEW at, Goto(t, at),
         at \in {"idle", "allocate1", "allocate2", "check", "permit", "grant", "close",
                 "returned", "open", "failed", "destroyed"} \cup Sending \cup Waiting
  PROVE  Moved(t) /\ thread'[t].at = at /\ thread'[t].ok = thread[t].ok
<1>1. thread \in [Threads -> ThreadType] /\ thread[t] \in ThreadType
  BY DEF TypeOK, DataType
<1>2. thread' = [thread EXCEPT ![t] = [thread[t] EXCEPT !.at = at]]
  BY DEF Goto
<1> DEFINE r == [thread[t] EXCEPT !.at = at]
<1>3. r \in ThreadType /\ r.at = at /\ r.txn = thread[t].txn /\ r.peer = thread[t].peer
  BY <1>1 DEF ThreadType
<1>4. r.ok = thread[t].ok
  BY <1>1 DEF ThreadType
<1> HIDE DEF r
<1>5. thread' \in [Threads -> ThreadType] /\ thread'[t] = r
      /\ \A u \in Threads : u # t => thread'[u] = thread[u]
  BY <1>1, <1>2, <1>3 DEF r
<1> QED BY <1>3, <1>4, <1>5 DEF Moved

\* The same with a verdict.
LEMMA VerdictMoves ==
  ASSUME TypeOK, NEW t \in Threads, NEW at, NEW ok \in BOOLEAN,
         thread' = [thread EXCEPT ![t].at = at, ![t].ok = ok],
         at \in {"idle", "allocate1", "allocate2", "check", "permit", "grant", "close",
                 "returned", "open", "failed", "destroyed"} \cup Sending \cup Waiting
  PROVE  Moved(t) /\ thread'[t].at = at /\ thread'[t].ok = ok
<1>1. thread \in [Threads -> ThreadType] /\ thread[t] \in ThreadType
  BY DEF TypeOK, DataType
<1> DEFINE r == [thread[t] EXCEPT !.at = at, !.ok = ok]
<1>2. r \in ThreadType /\ r.at = at /\ r.txn = thread[t].txn /\ r.peer = thread[t].peer
  BY <1>1 DEF ThreadType
<1>3. r.ok = ok
  BY <1>1 DEF ThreadType
<1>4. thread' = [thread EXCEPT ![t] = r]
  BY <1>1
<1> HIDE DEF r
<1>5. thread' \in [Threads -> ThreadType] /\ thread'[t] = r
      /\ \A u \in Threads : u # t => thread'[u] = thread[u]
  BY <1>1, <1>2, <1>4
<1> QED BY <1>2, <1>3, <1>5 DEF Moved

\* A client that closes has no allocation, and its slot keeps its answer.
LEMMA CloseTyped ==
  ASSUME TypeOK, Close
  PROVE  /\ SocketType' /\ SlotType' /\ allocated' = FALSE
         /\ pending'.response = pending.response /\ pending'.txn = pending.txn
<1>1. SocketType'
  BY DEF Close, SocketType
<1>2. SlotType' /\ pending'.response = pending.response /\ pending'.txn = pending.txn
  BY DEF Close, TypeOK, SlotType
<1> QED BY <1>1, <1>2 DEF Close

-------------------------------------------------------------------------------
(* The steps of the threads.                                                *)

\* The allocation is begun.
LEMMA OpenPreserves ==
  ASSUME IInv, OpenAllocation(Opener)
  PROVE  IInv'
<1>1. TypeOK /\ PlaceInv /\ GrantsAreReal /\ Opener \in Threads /\ thread[Opener].at = "idle"
  BY DEF IInv, OpenAllocation, Threads
<1>2. /\ UNCHANGED <<allocated, txns, requests, handler, responses, server, answers, granted,
                     faults>>
      /\ ~active
  BY DEF OpenAllocation, networkVars
<1>3. thread[Opener].peer = None /\ faults \in 0..MaxFaults /\ ~allocated
  BY <1>1, <1>2 DEF PlaceInv, CallerAt, TypeOK, SocketType, DataType
<1>4. ~thread[Opener].ok
  BY <1>1 DEF PlaceInv, Unanswered
<1>5. CASE Goto(Opener, "failed") /\ UNCHANGED <<socket, active, permitted, nonce, pending>>
  <2>1. Moved(Opener) /\ thread'[Opener].at = "failed" /\ thread'[Opener].ok = thread[Opener].ok
    BY <1>1, <1>5, GotoMoves
  <2>2. PlaceInv'
    BY <1>1, <1>3, <1>5, <2>1, MovedPlace
       DEF Moved, OpenerAt, CallerAt, Unanswered, Sending, Waiting
  <2>3. SocketType' /\ SlotType'
    BY <1>1, <1>2, <1>5 DEF TypeOK, SocketType, SlotType
  <2>4. nonce' \in Nonces /\ permitted' \subseteq Peers /\ GrantsAreReal'
    BY <1>1, <1>2, <1>5 DEF TypeOK, DataType, GrantsAreReal
  <2>5. thread'[Opener].ok => <<thread[Opener].txn, "success">> \in answers
    BY <1>1, <2>1 DEF IInv, OkInv
  <2> QED BY <1>1, <1>2, <1>3, <1>5, <2>1, <2>2, <2>3, <2>4, <2>5, MoveKeeps
<1>6. CASE /\ socket' = TRUE /\ active' = TRUE /\ permitted' = {} /\ nonce' = NoNonce
           /\ pending' = NoPending /\ Goto(Opener, "allocate1")
  <2>1. Moved(Opener) /\ thread'[Opener].at = "allocate1"
        /\ thread'[Opener].ok = thread[Opener].ok
    BY <1>1, <1>6, GotoMoves
  <2>2. PlaceInv'
    BY <1>1, <1>3, <1>4, <1>6, <2>1, MovedPlace
       DEF Moved, OpenerAt, CallerAt, Unanswered, Sending, Waiting
  <2>3. SocketType'
    BY <1>1, <1>2, <1>3, <1>6 DEF TypeOK, SocketType
  <2>4. SlotType' /\ pending'.response = {}
    BY <1>6, BoundsAssumption DEF NoPending, SlotType
  <2>5. nonce' \in Nonces /\ permitted' \subseteq Peers /\ GrantsAreReal'
    BY <1>1, <1>2, <1>6, BoundsAssumption DEF Nonces, NoNonce, GrantsAreReal
  <2>6. thread'[Opener].ok => <<thread[Opener].txn, "success">> \in answers
    BY <1>1, <2>1 DEF IInv, OkInv
  <2> QED BY <1>1, <1>2, <1>3, <2>1, <2>2, <2>3, <2>4, <2>5, <2>6, MoveKeeps
<1> QED BY <1>5, <1>6 DEF OpenAllocation

\* The slot is taken for a number nobody has used.
LEMMA BeginPreserves ==
  ASSUME IInv, NEW t \in Threads, Begin(t)
  PROVE  IInv'
<1> DEFINE n == txns + 1
           at == CASE thread[t].at = "allocate1" -> "send1"
                   [] thread[t].at = "allocate2" -> "send2"
                   [] thread[t].at = "permit"    -> "send"
           r == [thread[t] EXCEPT !.txn = n, !.at = at]
<1>1. /\ TypeOK /\ PlaceInv /\ TxnInv /\ OkInv /\ GrantsAreReal
      /\ thread \in [Threads -> ThreadType] /\ thread[t] \in ThreadType
      /\ thread[t].at \in {"allocate1", "allocate2", "permit"}
      /\ txns \in 0..MaxTxn /\ txns < MaxTxn
  BY DEF IInv, TypeOK, DataType, Begin, TakeSlot
<1>2. n \in 1..MaxTxn /\ n \in 0..MaxTxn /\ n # 0 /\ txns' = n /\ txns' > txns
  BY <1>1, BoundsAssumption DEF Begin, TakeSlot
<1>3. at \in Sending /\ (at \in OpenerAt => thread[t].at \in OpenerAt)
      /\ (at \in CallerAt <=> thread[t].at \in CallerAt)
  <2>1. CASE thread[t].at = "allocate1"
    BY <2>1 DEF Sending, OpenerAt, CallerAt
  <2>2. CASE thread[t].at = "allocate2"
    BY <2>2 DEF Sending, OpenerAt, CallerAt
  <2>3. CASE thread[t].at = "permit"
    BY <2>3 DEF Sending, OpenerAt, CallerAt
  <2> QED BY <1>1, <2>1, <2>2, <2>3
<1>4. thread' = [thread EXCEPT ![t] = r]
  BY <1>1 DEF Begin
<1>5. pending' = [have |-> TRUE, complete |-> FALSE, txn |-> n, response |-> {}]
      /\ UNCHANGED <<active, socket, allocated, nonce, permitted, handler, requests, responses,
                     server, granted, answers, faults>>
  BY DEF Begin, TakeSlot, networkVars
<1> HIDE DEF n, at
<1>6. r \in ThreadType /\ r.txn = n /\ r.at = at /\ r.peer = thread[t].peer
  BY <1>1, <1>2, <1>3 DEF ThreadType
<1>7. r.ok = thread[t].ok
  BY <1>1 DEF ThreadType
<1> HIDE DEF r
<1>8. thread' \in [Threads -> ThreadType] /\ thread'[t] = r
      /\ \A u \in Threads : u # t => thread'[u] = thread[u]
  BY <1>1, <1>4, <1>6
<1>9. ~thread[t].ok
  BY <1>1 DEF PlaceInv, Unanswered
<1>10. PlaceInv'
  <2>1. /\ thread[t].at \in OpenerAt => t = Opener /\ active
        /\ thread[t].at \in CallerAt => thread[t].peer \in Peers
        /\ thread[t].at \notin CallerAt => thread[t].peer = None
    BY <1>1 DEF PlaceInv
  <2>2. at # "grant"
    BY <1>3 DEF Sending
  <2> QED BY <1>1, <1>2, <1>3, <1>5, <1>6, <1>7, <1>8, <1>9, <2>1, <2>2, MovedPlace
<1>11. TxnInv'
  <2>1. \A u \in Threads : thread[u].txn \in Nat /\ thread[u].txn <= txns
    BY <1>1 DEF TxnInv, ThreadType
  <2>2. \A u \in Threads : thread'[u].txn = IF u = t THEN n ELSE thread[u].txn
    BY <1>6, <1>8
  <2>3. \A q \in requests : q.txn \in Nat /\ q.txn <= txns
    BY <1>1 DEF TypeOK, DataType, Requests, Txns, TxnInv
  <2>4. \A u \in Threads : thread'[u].txn <= txns'
    BY <1>1, <1>2, <2>1, <2>2
  <2>5. \A u, v \in Threads : thread'[u].txn = thread'[v].txn => u = v \/ thread'[u].txn = 0
    BY <1>1, <1>2, <2>1, <2>2 DEF TxnInv
  <2>6. \A q \in requests' : q.txn <= txns'
    BY <1>1, <1>2, <1>5, <2>3
  <2>7. \A q \in requests' : \A u \in Threads :
          thread'[u].txn = q.txn => thread'[u].peer = q.peer
    BY <1>1, <1>2, <1>5, <1>8, <2>2, <2>3 DEF TxnInv
  <2>8. ASSUME NEW m \in Nat, <<m, "success">> \in answers'
        PROVE  m # 0 /\ m <= txns'
    <3>1. <<m, "success">> \in answers
      BY <1>5, <2>8
    <3>2. m # 0 /\ m <= txns
      BY <1>1, <3>1 DEF TxnInv
    <3> QED BY <1>1, <1>2, <3>2
  <2> QED BY <2>4, <2>5, <2>6, <2>7, <2>8 DEF TxnInv
<1>12. OkInv'
  <2>1. <<n, "success">> \notin answers
    <3>1. n \in Nat /\ ~(n <= txns)
      BY <1>1, <1>2
    <3> QED BY <1>1, <3>1 DEF TxnInv
  <2> QED BY <1>1, <1>5, <1>6, <1>7, <1>8, <1>9, <2>1 DEF OkInv
<1>13. SocketType' /\ SlotType' /\ GrantsAreReal'
  <2>1. SocketType'
    BY <1>1, <1>5 DEF TypeOK, SocketType
  <2>2. SlotType'
    BY <1>2, <1>5 DEF SlotType
  <2> QED BY <1>1, <1>5, <2>1, <2>2 DEF GrantsAreReal
<1>14. /\ nonce' \in Nonces /\ permitted' \subseteq Peers /\ txns' \in 0..MaxTxn
       /\ faults' \in 0..MaxFaults /\ faults' >= faults /\ requests' \subseteq Requests
       /\ pending'.response = {} /\ UNCHANGED <<handler, responses, server, answers>>
  BY <1>1, <1>2, <1>5 DEF TypeOK, DataType
<1> QED BY <1>8, <1>10, <1>11, <1>12, <1>13, <1>14, ThreadKeeps

\* Failed: back to the caller, or on to Close.
LEMMA FailedMoves ==
  ASSUME IInv, NEW t \in Threads, thread[t].at \in Sending \cup Waiting, thread' = Failed(t),
         UNCHANGED active
  PROVE  Moved(t) /\ PlaceInv' /\ ~thread'[t].ok
<1> DEFINE at == IF thread[t].at \in {"send", "wait"} THEN "returned" ELSE "close"
<1>1. TypeOK /\ PlaceInv
  BY DEF IInv
<1>2. thread' = [thread EXCEPT ![t].at = at, ![t].ok = FALSE]
  BY DEF Failed
<1>3. at \in {"returned", "close"}
  OBVIOUS
<1>4. at = "close" => thread[t].at \in OpenerAt
  BY DEF Sending, Waiting, OpenerAt
<1>5. at = "returned" <=> thread[t].at \in CallerAt
  BY DEF Sending, Waiting, CallerAt
<1> HIDE DEF at
<1>6. Moved(t) /\ thread'[t].at = at /\ thread'[t].ok = FALSE
  BY <1>1, <1>2, <1>3, VerdictMoves
<1>7. PlaceInv'
  <2>1. /\ thread[t].at \in OpenerAt => t = Opener /\ active
        /\ thread[t].at \in CallerAt => thread[t].peer \in Peers
        /\ thread[t].at \notin CallerAt => thread[t].peer = None
    BY <1>1 DEF PlaceInv
  <2>2. /\ at \in OpenerAt <=> at = "close"
        /\ at \in CallerAt <=> at = "returned"
        /\ at \notin Unanswered /\ at # "grant" /\ at \notin Sending \cup Waiting
    BY <1>3 DEF OpenerAt, CallerAt, Unanswered, Sending, Waiting
  <2> QED BY <1>1, <1>4, <1>5, <1>6, <2>1, <2>2, MovedPlace DEF Moved
<1> QED BY <1>6, <1>7

\* A wait ends by its deadline; the slot stays as it is.
LEMMA TimeOutPreserves ==
  ASSUME IInv, NEW t \in Threads, TimeOut(t)
  PROVE  IInv'
<1>1. /\ thread[t].at \in Sending \cup Waiting /\ thread' = Failed(t)
      /\ UNCHANGED <<clientVars, handler, networkVars>>
      /\ faults + Late(t) <= MaxFaults /\ faults' = faults + Late(t)
  BY DEF TimeOut
<1>2. UNCHANGED <<active, socket, allocated, nonce, permitted, pending, txns, handler, requests,
                  responses, server, granted, answers>>
  BY <1>1 DEF clientVars, networkVars
<1>3. Moved(t) /\ PlaceInv' /\ ~thread'[t].ok
  BY <1>1, <1>2, FailedMoves
<1>4. SocketType' /\ SlotType' /\ GrantsAreReal' /\ nonce' \in Nonces /\ permitted' \subseteq Peers
  BY <1>2 DEF IInv, TypeOK, SocketType, SlotType, DataType, GrantsAreReal
<1>5. faults' \in 0..MaxFaults /\ faults' >= faults
  <2>1. Late(t) \in {0, 1} /\ faults \in 0..MaxFaults
    BY DEF Late, IInv, TypeOK, DataType
  <2> QED BY <1>1, <2>1, BoundsAssumption
<1> QED BY <1>2, <1>3, <1>4, <1>5, MoveKeeps

\* What is sent bears the number and the address of its thread.
LEMMA SendPreserves ==
  ASSUME IInv, NEW t \in Threads, Send(t)
  PROVE  IInv'
<1>1. /\ TypeOK /\ PlaceInv /\ TxnInv /\ OkInv
      /\ thread[t] \in ThreadType /\ thread[t].at \in Sending
      /\ faults \in 0..MaxFaults
  BY DEF IInv, TypeOK, DataType, Send
<1>2. UNCHANGED <<active, socket, allocated, nonce, permitted, pending, txns, handler,
                  responses, server, granted, answers>>
  BY DEF Send, clientVars
<1>3. SocketType' /\ SlotType' /\ GrantsAreReal' /\ nonce' \in Nonces /\ permitted' \subseteq Peers
  BY <1>2 DEF IInv, TypeOK, SocketType, SlotType, DataType, GrantsAreReal
<1>4. CASE faults < MaxFaults /\ faults' = faults + 1 /\ thread' = Failed(t) /\ UNCHANGED requests
  <2>1. Moved(t) /\ PlaceInv' /\ ~thread'[t].ok
    BY <1>1, <1>2, <1>4, FailedMoves
  <2>2. faults' \in 0..MaxFaults /\ faults' >= faults
    BY <1>1, <1>4, BoundsAssumption
  <2> QED BY <1>2, <1>3, <1>4, <2>1, <2>2, MoveKeeps
<1>5. CASE ~(faults < MaxFaults /\ faults' = faults + 1 /\ thread' = Failed(t) /\ UNCHANGED requests)
  <2> DEFINE q == [kind  |-> IF thread[t].at = "send" THEN "permit" ELSE "allocate",
                   txn   |-> thread[t].txn, peer |-> thread[t].peer,
                   nonce |-> IF thread[t].at = "send1" THEN NoNonce ELSE nonce]
             at == CASE thread[t].at = "send1" -> "wait1"
                     [] thread[t].at = "send2" -> "wait2"
                     [] thread[t].at = "send"  -> "wait"
  <2>1. requests' = requests \cup {q} /\ Goto(t, at) /\ UNCHANGED faults
    BY <1>5 DEF Send
  <2>2. at \in Waiting /\ (at \in OpenerAt => thread[t].at \in OpenerAt)
        /\ (at \in CallerAt <=> thread[t].at \in CallerAt)
    <3>1. CASE thread[t].at = "send1"
      BY <3>1 DEF Waiting, OpenerAt, CallerAt
    <3>2. CASE thread[t].at = "send2"
      BY <3>2 DEF Waiting, OpenerAt, CallerAt
    <3>3. CASE thread[t].at = "send"
      BY <3>3 DEF Waiting, OpenerAt, CallerAt
    <3> QED BY <1>1, <3>1, <3>2, <3>3 DEF Sending
  <2>3. thread[t].txn \in Txns /\ thread[t].peer \in Peers \cup {None}
    BY <1>1, BoundsAssumption DEF PlaceInv, ThreadType, Txns
  <2>4. q \in Requests /\ q.txn = thread[t].txn /\ q.peer = thread[t].peer
    BY <1>1, <2>3, BoundsAssumption DEF TypeOK, DataType, Requests, Nonces, NoNonce
  <2> HIDE DEF q, at
  <2>5. Moved(t) /\ thread'[t].at = at /\ thread'[t].ok = thread[t].ok
    BY <1>1, <2>1, <2>2, GotoMoves
  <2>6. PlaceInv'
    <3>1. /\ thread[t].at \in OpenerAt => t = Opener /\ active
          /\ thread[t].at \in CallerAt => thread[t].peer \in Peers
          /\ thread[t].at \notin CallerAt => thread[t].peer = None
          /\ ~thread[t].ok /\ thread[t].txn # 0
      BY <1>1 DEF PlaceInv, Unanswered
    <3>2. at # "grant"
      BY <2>2 DEF Waiting
    <3> QED BY <1>1, <1>2, <2>2, <2>5, <3>1, <3>2, MovedPlace DEF Moved
  <2>7. \A u \in Threads : thread'[u].txn = thread[u].txn /\ thread'[u].peer = thread[u].peer
    BY <2>5 DEF Moved
  <2>8. TxnInv'
    <3>1. \A u \in Threads : thread[u].txn = thread[t].txn => thread[u].peer = thread[t].peer
      BY <1>1, <2>3 DEF TxnInv, Txns
    <3>2. \A r \in requests' : r \in requests \/ r = q
      BY <2>1
    <3>3. thread[t].txn <= txns
      BY <1>1 DEF TxnInv
    <3> QED BY <1>1, <1>2, <2>4, <2>7, <3>1, <3>2, <3>3 DEF TxnInv
  <2>9. OkInv'
    <3>1. thread'[t].ok => <<thread[t].txn, "success">> \in answers
      BY <1>1, <2>5 DEF OkInv
    <3> QED BY <1>1, <1>2, <2>5, <3>1, MovedOk
  <2>10. /\ thread' \in [Threads -> ThreadType] /\ txns' \in 0..MaxTxn
         /\ faults' \in 0..MaxFaults /\ faults' >= faults /\ requests' \subseteq Requests
    BY <1>1, <1>2, <2>1, <2>4, <2>5 DEF TypeOK, DataType, Moved
  <2> QED BY <1>2, <1>3, <2>6, <2>8, <2>9, <2>10, ThreadKeeps
<1> QED BY <1>4, <1>5

\* Where the answer takes a thread.
LEMMA AnswerPlaces ==
  ASSUME NEW t \in Threads, thread[t].at \in Waiting, NEW r, NEW at,
         at = CASE thread[t].at = "wait1" -> Next1(r)
                [] thread[t].at = "wait2" -> Next2(r)
                [] thread[t].at = "wait"  -> "returned"
  PROVE  /\ at \in {"allocate2", "grant", "close", "returned"}
         /\ at \in OpenerAt => thread[t].at \in OpenerAt
         /\ at \in CallerAt <=> thread[t].at \in CallerAt
         /\ at = "allocate2" => r.class # "success"
         /\ at = "grant" => r.class = "success"
<1>1. CASE thread[t].at = "wait1"
  BY <1>1 DEF Next1, OpenerAt, CallerAt
<1>2. CASE thread[t].at = "wait2"
  BY <1>2 DEF Next2, OpenerAt, CallerAt
<1>3. CASE thread[t].at = "wait"
  BY <1>3 DEF OpenerAt, CallerAt
<1> QED BY <1>1, <1>2, <1>3 DEF Waiting

\* The answer a thread takes is to its own transaction.
LEMMA ReturnPreserves ==
  ASSUME IInv, NEW t \in Threads, Return(t)
  PROVE  IInv'
<1>1. /\ TypeOK /\ PlaceInv /\ TxnInv /\ OkInv /\ ResponseInv /\ GrantsAreReal
      /\ thread[t] \in ThreadType /\ thread[t].at \in Waiting
      /\ pending.txn = thread[t].txn
      /\ faults \in 0..MaxFaults
  BY DEF IInv, TypeOK, DataType, Return, Answered
<1>2. /\ UNCHANGED <<active, socket, allocated, permitted, txns, handler, requests, responses,
                     server, granted, answers, faults>>
      /\ pending' = [pending EXCEPT !.have = FALSE, !.complete = FALSE]
  BY DEF Return, networkVars
<1>3. PICK r \in pending.response :
        /\ thread' = [thread EXCEPT
             ![t].at = CASE thread[t].at = "wait1" -> Next1(r)
                         [] thread[t].at = "wait2" -> Next2(r)
                         [] thread[t].at = "wait"  -> "returned",
             ![t].ok = (r.class = "success")]
        /\ nonce' = IF thread[t].at = "wait1" /\ Next1(r) = "allocate2"
                    THEN r.nonce ELSE nonce
  BY DEF Return
<1> DEFINE at == CASE thread[t].at = "wait1" -> Next1(r)
                   [] thread[t].at = "wait2" -> Next2(r)
                   [] thread[t].at = "wait"  -> "returned"
           ok == (r.class = "success")
<1>4. /\ at \in {"allocate2", "grant", "close", "returned"}
      /\ at \in OpenerAt => thread[t].at \in OpenerAt
      /\ at \in CallerAt <=> thread[t].at \in CallerAt
      /\ at = "allocate2" => r.class # "success"
      /\ at = "grant" => r.class = "success"
  BY <1>1, AnswerPlaces
<1>5. thread' = [thread EXCEPT ![t].at = at, ![t].ok = ok] /\ ok \in BOOLEAN
  BY <1>3
<1>6. (ok <=> r.class = "success")
  OBVIOUS
<1> HIDE DEF at, ok
<1>7. Moved(t) /\ thread'[t].at = at /\ thread'[t].ok = ok
  BY <1>1, <1>4, <1>5, VerdictMoves
<1>8. PlaceInv'
  <2>1. /\ thread[t].at \in OpenerAt => t = Opener /\ active
        /\ thread[t].at \in CallerAt => thread[t].peer \in Peers
        /\ thread[t].at \notin CallerAt => thread[t].peer = None
    BY <1>1 DEF PlaceInv
  <2>2. at \notin Sending \cup Waiting /\ (at \in Unanswered => at = "allocate2")
    BY <1>4 DEF Unanswered, Sending, Waiting
  <2>3. /\ at \in Unanswered => ~ok
        /\ at = "grant" => ok
    BY <1>4, <1>6, <2>2
  <2> QED BY <1>1, <1>2, <1>4, <1>7, <2>1, <2>2, <2>3, MovedPlace DEF Moved
<1>9. ok => <<thread[t].txn, "success">> \in answers
  BY <1>1, <1>6 DEF ResponseInv
<1>10. SlotType' /\ pending'.response = pending.response /\ pending'.txn = pending.txn
  BY <1>1, <1>2 DEF TypeOK, SlotType
<1>11. SocketType' /\ GrantsAreReal' /\ permitted' \subseteq Peers
  BY <1>1, <1>2 DEF TypeOK, SocketType, DataType, GrantsAreReal
<1>12. nonce' \in Nonces
  <2>1. r \in Responses
    BY <1>1 DEF TypeOK, SlotType
  <2> QED BY <1>1, <1>3, <2>1 DEF TypeOK, DataType, Responses
<1>13. faults' \in 0..MaxFaults /\ faults' >= faults
  BY <1>1, <1>2, BoundsAssumption
<1> QED BY <1>2, <1>7, <1>8, <1>9, <1>10, <1>11, <1>12, <1>13, MoveKeeps

\* The opener believes it holds an allocation only when it was told so.
LEMMA GrantPreserves ==
  ASSUME IInv, NEW t \in Threads, Grant(t)
  PROVE  IInv'
<1>1. /\ TypeOK /\ PlaceInv /\ OkInv /\ GrantsAreReal /\ thread[t].at = "grant"
      /\ faults \in 0..MaxFaults
  BY DEF IInv, TypeOK, DataType, Grant
<1>2. /\ UNCHANGED <<active, socket, nonce, permitted, pending, txns, handler, requests,
                     responses, server, granted, answers, faults>>
      /\ allocated' = TRUE /\ Goto(t, "open")
  BY DEF Grant, networkVars
<1>3. t = Opener /\ active /\ thread[t].peer = None /\ thread[t].ok
  BY <1>1 DEF PlaceInv, OpenerAt, CallerAt
<1>4. Moved(t) /\ thread'[t].at = "open" /\ thread'[t].ok = thread[t].ok
  BY <1>1, <1>2, GotoMoves
<1>5. PlaceInv'
  BY <1>1, <1>2, <1>3, <1>4, MovedPlace
     DEF Moved, OpenerAt, CallerAt, Unanswered, Sending, Waiting
<1>6. GrantsAreReal'
  BY <1>1, <1>2, <1>3 DEF OkInv, GrantsAreReal
<1>7. SocketType' /\ SlotType' /\ nonce' \in Nonces /\ permitted' \subseteq Peers
  BY <1>1, <1>2, <1>3 DEF TypeOK, SocketType, SlotType, DataType
<1>8. thread'[t].ok => <<thread[t].txn, "success">> \in answers
  BY <1>1, <1>4 DEF OkInv
<1>9. faults' \in 0..MaxFaults /\ faults' >= faults
  BY <1>1, <1>2, BoundsAssumption
<1> QED BY <1>2, <1>4, <1>5, <1>6, <1>7, <1>8, <1>9, MoveKeeps

\* Close, by the opener that failed or by the last owner.
LEMMA ClosePreserves ==
  ASSUME IInv, Opener \in Threads, NEW at \in {"failed", "destroyed"}, Close,
         thread[Opener].at \in OpenerAt, Goto(Opener, at),
         UNCHANGED <<nonce, permitted, txns, handler, requests, responses, server, granted,
                     answers, faults>>
  PROVE  IInv'
<1>1. /\ TypeOK /\ PlaceInv /\ OkInv /\ GrantsAreReal /\ faults \in 0..MaxFaults
  BY DEF IInv, TypeOK, DataType
<1>2. Moved(Opener) /\ thread'[Opener].at = at /\ thread'[Opener].ok = thread[Opener].ok
  BY <1>1, GotoMoves
<1>3. thread[Opener].peer = None
  BY <1>1 DEF PlaceInv, OpenerAt, CallerAt
<1>4. PlaceInv'
  BY <1>1, <1>2, <1>3, MovedPlace
     DEF Moved, OpenerAt, CallerAt, Unanswered, Sending, Waiting
<1>5. SocketType' /\ SlotType' /\ allocated' = FALSE
      /\ pending'.response = pending.response /\ pending'.txn = pending.txn
  BY <1>1, CloseTyped
<1>6. GrantsAreReal' /\ nonce' \in Nonces /\ permitted' \subseteq Peers
  BY <1>1, <1>5 DEF TypeOK, DataType, GrantsAreReal
<1>7. thread'[Opener].ok => <<thread[Opener].txn, "success">> \in answers
  BY <1>1, <1>2 DEF OkInv
<1>8. faults' \in 0..MaxFaults /\ faults' >= faults
  BY <1>1, BoundsAssumption
<1> QED BY <1>2, <1>4, <1>5, <1>6, <1>7, <1>8, MoveKeeps

\* A failed allocation closes the socket.
LEMMA CloseAfterFailurePreserves ==
  ASSUME IInv, NEW t \in Threads, CloseAfterFailure(t)
  PROVE  IInv'
<1>1. t = Opener /\ thread[t].at \in OpenerAt
  BY DEF IInv, PlaceInv, CloseAfterFailure, OpenerAt
<1> QED BY <1>1, ClosePreserves DEF CloseAfterFailure, networkVars

\* The client is destroyed by the thread that opened it.
LEMMA DestroyPreserves ==
  ASSUME IInv, Destroy
  PROVE  IInv'
<1>1. Opener \in Threads /\ thread[Opener].at \in OpenerAt
  BY DEF Destroy, Threads, OpenerAt
<1> QED BY <1>1, ClosePreserves DEF Destroy, networkVars

\* A caller that starts or ends a request has none.
LEMMA ResetKeeps ==
  ASSUME IInv, NEW t \in Threads, NEW r \in ThreadType,
         thread' = [thread EXCEPT ![t] = r],
         r.txn = 0, ~r.ok,
         \/ r.at = "idle" /\ r.peer = None
         \/ r.at = "check" /\ r.peer \in Peers,
         permitted' \subseteq Peers, GrantsAreReal',
         UNCHANGED <<active, socket, allocated, nonce, pending, txns, requests, handler,
                     responses, server, granted, answers, faults>>
  PROVE  IInv'
<1>1. /\ TypeOK /\ PlaceInv /\ TxnInv /\ OkInv
      /\ thread \in [Threads -> ThreadType] /\ faults \in 0..MaxFaults /\ txns \in 0..MaxTxn
  BY DEF IInv, TypeOK, DataType
<1>2. thread' \in [Threads -> ThreadType] /\ thread'[t] = r
      /\ \A u \in Threads : u # t => thread'[u] = thread[u]
  BY <1>1
<1>3. PlaceInv'
  <2>1. /\ r.at \in {"idle", "check"}
        /\ r.at \in CallerAt => r.peer \in Peers
        /\ r.at \notin CallerAt => r.peer = None
    BY DEF CallerAt
  <2>2. r.at \notin OpenerAt /\ r.at # "grant" /\ r.at \notin Sending \cup Waiting
    BY <2>1 DEF OpenerAt, Sending, Waiting
  <2> QED BY <1>1, <1>2, <2>1, <2>2, MovedPlace
<1>4. TxnInv'
  <2>1. \A u \in Threads : thread'[u].txn = IF u = t THEN 0 ELSE thread[u].txn
    BY <1>2
  <2>2. \A q \in requests : q.txn \in Nat /\ q.txn # 0
    BY <1>1 DEF TypeOK, DataType, Requests, Txns
  <2>3. \A u \in Threads : thread'[u].txn <= txns'
    BY <1>1, <2>1, BoundsAssumption DEF TxnInv
  <2>4. \A u, v \in Threads : thread'[u].txn = thread'[v].txn => u = v \/ thread'[u].txn = 0
    BY <1>1, <2>1 DEF TxnInv
  <2>5. \A q \in requests : \A u \in Threads :
          thread'[u].txn = q.txn => thread'[u].peer = q.peer
    BY <1>1, <1>2, <2>1, <2>2 DEF TxnInv
  <2> QED BY <1>1, <2>3, <2>4, <2>5 DEF TxnInv
<1>5. OkInv'
  <2>1. <<0, "success">> \notin answers
    BY <1>1 DEF TxnInv
  <2> QED BY <1>1, <1>2, <2>1 DEF OkInv
<1>6. SocketType' /\ SlotType'
  BY <1>1 DEF TypeOK, SocketType, SlotType
<1>7. /\ nonce' \in Nonces /\ txns' \in 0..MaxTxn /\ faults' \in 0..MaxFaults
      /\ faults' >= faults /\ requests' \subseteq Requests
  BY <1>1, BoundsAssumption DEF TypeOK, DataType
<1> QED BY <1>2, <1>3, <1>4, <1>5, <1>6, <1>7, ThreadKeeps

\* A thread outside the client.
LEMMA IdleTyped ==
  Idle \in ThreadType /\ Idle.at = "idle" /\ Idle.peer = None /\ Idle.txn = 0 /\ ~Idle.ok
<1>1. Idle \in ThreadType
  BY BoundsAssumption DEF Idle, ThreadType
<1> QED BY <1>1 DEF Idle

\* A thread asks for a peer's permission.
LEMMA AddPreserves ==
  ASSUME IInv, NEW t \in Callers, NEW p \in Peers, AddPeerPermission(t, p)
  PROVE  IInv'
<1> DEFINE r == [Idle EXCEPT !.peer = p, !.at = "check"]
<1>1. r \in ThreadType /\ r.txn = 0 /\ r.at = "check" /\ r.peer = p
  BY IdleTyped DEF ThreadType
<1>2. r.ok = Idle.ok
  BY IdleTyped DEF ThreadType
<1>3. thread' = [thread EXCEPT ![t] = r] /\ t \in Threads
  BY DEF AddPeerPermission, Threads
<1>4. UNCHANGED <<active, socket, allocated, nonce, permitted, pending, txns, requests, handler,
                  responses, server, granted, answers, faults>>
  BY DEF AddPeerPermission, clientVars, networkVars
<1>5. permitted' \subseteq Peers /\ GrantsAreReal'
  BY <1>4 DEF IInv, TypeOK, DataType, GrantsAreReal
<1> HIDE DEF r
<1> QED BY <1>1, <1>2, <1>3, <1>4, <1>5, IdleTyped, ResetKeeps

\* A permission there is already needs no request.
LEMMA CheckPreserves ==
  ASSUME IInv, NEW t \in Threads, CheckPermitted(t)
  PROVE  IInv'
<1>1. UNCHANGED <<active, socket, allocated, nonce, permitted, pending, txns, requests, handler,
                  responses, server, granted, answers, faults>>
  BY DEF CheckPermitted, clientVars, networkVars
<1>2. /\ TypeOK /\ PlaceInv /\ OkInv /\ GrantsAreReal /\ thread[t].at = "check"
      /\ faults \in 0..MaxFaults
  BY DEF IInv, TypeOK, DataType, CheckPermitted
<1>3. SocketType' /\ SlotType' /\ GrantsAreReal' /\ nonce' \in Nonces /\ permitted' \subseteq Peers
  BY <1>1, <1>2 DEF TypeOK, SocketType, SlotType, DataType, GrantsAreReal
<1>4. CASE thread' = [thread EXCEPT ![t] = Idle]
  BY <1>1, <1>3, <1>4, IdleTyped, ResetKeeps
<1>5. CASE Goto(t, "permit")
  <2>1. Moved(t) /\ thread'[t].at = "permit" /\ thread'[t].ok = thread[t].ok
    BY <1>2, <1>5, GotoMoves
  <2>2. thread[t].peer \in Peers /\ ~thread[t].ok
    BY <1>2 DEF PlaceInv, CallerAt, Unanswered
  <2>3. PlaceInv'
    BY <1>1, <1>2, <2>1, <2>2, MovedPlace
       DEF Moved, OpenerAt, CallerAt, Unanswered, Sending, Waiting
  <2>4. faults' \in 0..MaxFaults /\ faults' >= faults
    BY <1>1, <1>2, BoundsAssumption
  <2> QED BY <1>1, <1>3, <2>1, <2>2, <2>3, <2>4, MoveKeeps
<1> QED BY <1>4, <1>5 DEF CheckPermitted

\* An address is listed when its own request was granted.
LEMMA RecordPreserves ==
  ASSUME IInv, NEW t \in Threads, RecordPermission(t)
  PROVE  IInv'
<1>1. /\ UNCHANGED <<active, socket, allocated, nonce, pending, txns, requests, handler,
                     responses, server, granted, answers, faults>>
      /\ thread' = [thread EXCEPT ![t] = Idle]
  BY DEF RecordPermission, networkVars
<1>2. /\ thread[t].peer \in Peers
      /\ thread[t].ok => thread[t].peer \in granted
  BY DEF RecordPermission, IInv, PlaceInv, CallerAt, OkInv
<1>3. permitted' \subseteq Peers /\ GrantsAreReal'
  BY <1>1, <1>2 DEF RecordPermission, IInv, TypeOK, DataType, GrantsAreReal
<1> QED BY <1>1, <1>3, IdleTyped, ResetKeeps

-------------------------------------------------------------------------------
(* The callbacks, the network and the server.                               *)

\* Faults are counted up to their bound.
LEMMA DisturbedFaults ==
  ASSUME TypeOK, NEW again \in BOOLEAN, faults + Disturbed(again) <= MaxFaults,
         faults' = faults + Disturbed(again)
  PROVE  faults' \in 0..MaxFaults /\ faults' >= faults
BY BoundsAssumption DEF TypeOK, DataType, Disturbed

\* What is left to show when no thread moves.
LEMMA OthersKeep ==
  ASSUME IInv, SlotType', handler' \in [Handlers -> SUBSET Responses],
         requests' \subseteq Requests, responses' \subseteq Responses,
         faults' \in 0..MaxFaults, ServerInv', TxnInv', ResponseInv', OkInv', GrantsAreReal',
         UNCHANGED <<active, socket, allocated, nonce, permitted, txns, thread>>
  PROVE  IInv'
<1>1. SocketType'
  BY DEF IInv, TypeOK, SocketType
<1>2. DataType'
  BY DEF IInv, TypeOK, DataType
<1>3. PlaceInv'
  BY DEF IInv, PlaceInv
<1> QED BY <1>1, <1>2, <1>3 DEF IInv, TypeOK

\* A server that does nothing keeps what it granted.
LEMMA ServerKeeps ==
  ASSUME TypeOK, ServerInv, UNCHANGED server, faults' \in 0..MaxFaults, faults' >= faults
  PROVE  ServerInv'
BY BoundsAssumption DEF TypeOK, DataType, ServerInv

\* An answer arrives at the socket's handler.
LEMMA MessageReceivedPreserves ==
  ASSUME IInv, NEW h \in Handlers, NEW r \in responses, NEW again \in BOOLEAN,
         MessageReceived(h, r, again)
  PROVE  IInv'
<1>1. UNCHANGED <<active, socket, allocated, nonce, permitted, pending, txns, thread, requests,
                  server, granted, answers>>
  BY DEF MessageReceived, clientVars
<1>2. /\ TypeOK /\ ServerInv /\ TxnInv /\ ResponseInv /\ OkInv /\ GrantsAreReal
      /\ handler \in [Handlers -> SUBSET Responses] /\ responses \subseteq Responses
      /\ faults \in 0..MaxFaults
  BY DEF IInv, TypeOK, DataType
<1>3. faults' \in 0..MaxFaults /\ faults' >= faults
  BY <1>2, DisturbedFaults DEF MessageReceived
<1>4. handler' = [handler EXCEPT ![h] = {r}] /\ responses' \subseteq responses
  BY DEF MessageReceived
<1>5. handler' \in [Handlers -> SUBSET Responses] /\ responses' \subseteq Responses
  BY <1>2, <1>4
<1>6. ResponseInv'
  <2>1. \A g \in Handlers : \A a \in handler'[g] : a \in handler[g] \/ a = r
    BY <1>2, <1>4
  <2> QED BY <1>1, <1>2, <1>4, <2>1 DEF ResponseInv
<1>7. SlotType' /\ requests' \subseteq Requests /\ TxnInv' /\ OkInv' /\ GrantsAreReal' /\ ServerInv'
  <2>1. SlotType' /\ requests' \subseteq Requests
    BY <1>1, <1>2 DEF TypeOK, SlotType, DataType
  <2>2. TxnInv'
    BY <1>1, <1>2 DEF TxnInv
  <2>3. OkInv' /\ GrantsAreReal'
    BY <1>1, <1>2 DEF OkInv, GrantsAreReal
  <2> QED BY <1>1, <1>2, <1>3, <2>1, <2>2, <2>3, ServerKeeps
<1> QED BY <1>1, <1>3, <1>5, <1>6, <1>7, OthersKeep

\* The slot takes an answer to the transaction it is for.
LEMMA InboundPreserves ==
  ASSUME IInv, NEW h \in Handlers, OnInboundUdp(h)
  PROVE  IInv'
<1>1. /\ UNCHANGED <<active, socket, allocated, nonce, permitted, txns, thread, requests,
                     responses, server, granted, answers, faults>>
      /\ handler' = [handler EXCEPT ![h] = {}]
  BY DEF OnInboundUdp, networkVars
<1>2. /\ TypeOK /\ ServerInv /\ TxnInv /\ ResponseInv /\ OkInv /\ GrantsAreReal
      /\ handler \in [Handlers -> SUBSET Responses] /\ handler[h] \subseteq Responses
      /\ faults \in 0..MaxFaults
  BY DEF IInv, TypeOK, DataType
<1>3. handler' \in [Handlers -> SUBSET Responses]
      /\ \A g \in Handlers : handler'[g] \subseteq handler[g]
  BY <1>1, <1>2
<1>4. SlotType' /\ \A r \in pending'.response :
        /\ r.txn = pending'.txn
        /\ r.class = "success" => <<r.txn, "success">> \in answers
  <2>1. CASE pending' = pending
    BY <1>2, <2>1 DEF ResponseInv, TypeOK, SlotType
  <2>2. CASE pending' # pending
    <3>1. /\ pending' = [pending EXCEPT !.complete = TRUE, !.response = handler[h]]
          /\ \E r \in handler[h] : r.txn = pending.txn
      BY <2>2 DEF OnInboundUdp
    <3>2. SlotType' /\ pending'.response = handler[h] /\ pending'.txn = pending.txn
      BY <1>2, <3>1 DEF TypeOK, SlotType
    <3>3. \A r, s \in handler[h] : r = s
      BY <1>2 DEF ResponseInv
    <3> QED BY <1>2, <3>1, <3>2, <3>3 DEF ResponseInv
  <2> QED BY <2>1, <2>2
<1>5. ResponseInv'
  BY <1>1, <1>2, <1>3, <1>4 DEF ResponseInv
<1>6. requests' \subseteq Requests /\ responses' \subseteq Responses /\ faults' \in 0..MaxFaults
      /\ ServerInv'
  BY <1>1, <1>2 DEF TypeOK, DataType, ServerInv
<1>7. TxnInv'
  BY <1>1, <1>2 DEF TxnInv
<1>8. OkInv' /\ GrantsAreReal'
  BY <1>1, <1>2 DEF OkInv, GrantsAreReal
<1> QED BY <1>1, <1>3, <1>4, <1>5, <1>6, <1>7, <1>8, OthersKeep

\* A message is lost.
LEMMA LosePreserves ==
  ASSUME IInv, Lose
  PROVE  IInv'
<1>1. /\ UNCHANGED <<active, socket, allocated, nonce, permitted, pending, txns, thread, handler,
                     server, granted, answers>>
      /\ requests' \subseteq requests /\ responses' \subseteq responses
      /\ faults < MaxFaults /\ faults' = faults + 1
  BY DEF Lose, clientVars
<1>2. /\ TypeOK /\ ServerInv /\ TxnInv /\ ResponseInv /\ OkInv /\ GrantsAreReal
      /\ faults \in 0..MaxFaults
  BY DEF IInv, TypeOK, DataType
<1>3. faults' \in 0..MaxFaults /\ faults' >= faults
  BY <1>1, <1>2, BoundsAssumption
<1>4. SlotType' /\ handler' \in [Handlers -> SUBSET Responses] /\ requests' \subseteq Requests
      /\ responses' \subseteq Responses
  BY <1>1, <1>2 DEF TypeOK, SlotType, DataType
<1>5. TxnInv'
  BY <1>1, <1>2 DEF TxnInv
<1>6. ResponseInv'
  BY <1>1, <1>2 DEF ResponseInv
<1>7. OkInv' /\ GrantsAreReal' /\ ServerInv'
  BY <1>1, <1>2, <1>3, ServerKeeps DEF OkInv, GrantsAreReal
<1> QED BY <1>1, <1>3, <1>4, <1>5, <1>6, <1>7, OthersKeep

\* The server forgets an allocation or its permissions.
LEMMA ForgetsPreserves ==
  ASSUME IInv, ServerForgets
  PROVE  IInv'
<1>1. /\ UNCHANGED <<active, socket, allocated, nonce, permitted, pending, txns, thread, handler,
                     requests, responses, granted, answers>>
      /\ faults < MaxFaults /\ faults' = faults + 1
  BY DEF ServerForgets, clientVars
<1>2. /\ TypeOK /\ ServerInv /\ TxnInv /\ ResponseInv /\ OkInv /\ GrantsAreReal
      /\ faults \in 0..MaxFaults
  BY DEF IInv, TypeOK, DataType
<1>3. faults' \in 0..MaxFaults
  BY <1>1, <1>2, BoundsAssumption
<1>4. ServerInv'
  <2> DEFINE n == server.nonce + 1
  <2>1. server.nonce \in 1..(faults + 1) /\ server.nonce \in 1..(faults' + 1)
        /\ n \in 1..(faults' + 1)
    BY <1>1, <1>2, BoundsAssumption DEF ServerInv
  <2>2. n \in Nat
    BY <2>1, <1>3, BoundsAssumption
  <2> HIDE DEF n
  <2>3. CASE server' = [server EXCEPT !.nonce = n]
    <3>1. /\ server' \in [allocated : BOOLEAN, permitted : SUBSET (Peers \cup {None}),
                          nonce : Nat, by : Nat, open : BOOLEAN]
          /\ server'.nonce = n
      BY <1>2, <2>2, <2>3 DEF ServerInv
    <3> QED BY <2>1, <3>1 DEF ServerInv
  <2>4. CASE server' = [server EXCEPT !.allocated = FALSE, !.permitted = {}]
    BY <1>2, <2>1, <2>4 DEF ServerInv
  <2>5. CASE server' = [server EXCEPT !.permitted = {}]
    BY <1>2, <2>1, <2>5 DEF ServerInv
  <2> QED BY <2>3, <2>4, <2>5 DEF ServerForgets, n
<1>5. SlotType' /\ handler' \in [Handlers -> SUBSET Responses] /\ requests' \subseteq Requests
      /\ responses' \subseteq Responses
  BY <1>1, <1>2 DEF TypeOK, SlotType, DataType
<1>6. TxnInv'
  BY <1>1, <1>2 DEF TxnInv
<1>7. ResponseInv'
  BY <1>1, <1>2 DEF ResponseInv
<1>8. OkInv' /\ GrantsAreReal'
  BY <1>1, <1>2 DEF OkInv, GrantsAreReal
<1> QED BY <1>1, <1>3, <1>4, <1>5, <1>6, <1>7, <1>8, OthersKeep

\* An answer bears its request's transaction, and a grant the request's address.
LEMMA ServerReceivesPreserves ==
  ASSUME IInv, NEW q \in requests, NEW again \in BOOLEAN, ServerReceives(q, again)
  PROVE  IInv'
<1>1. /\ UNCHANGED <<active, socket, allocated, nonce, permitted, pending, txns, thread, handler>>
      /\ requests' \subseteq requests
  BY DEF ServerReceives, clientVars
<1>2. /\ TypeOK /\ ServerInv /\ TxnInv /\ ResponseInv /\ OkInv /\ GrantsAreReal
      /\ faults \in 0..MaxFaults /\ requests \subseteq Requests /\ q \in Requests
      /\ responses \subseteq Responses
  BY DEF IInv, TypeOK, DataType
<1>3. faults' \in 0..MaxFaults /\ faults' >= faults
  BY <1>2, DisturbedFaults DEF ServerReceives
<1>4. q.txn \in Txns /\ q.txn \in Nat /\ q.txn # 0 /\ q.txn <= txns
  BY <1>2 DEF Requests, Txns, TxnInv
<1>5. server.nonce \in Nonces /\ server.nonce \in 1..(faults' + 1)
  BY <1>2, <1>3, BoundsAssumption DEF ServerInv, Nonces
<1>6. PICK class \in {"success", "error"}, code \in {0, 401, 437, 438} :
        /\ Answer(q, class, code)
        /\ granted' = IF class = "success" THEN granted \cup {q.peer} ELSE granted
  BY DEF ServerReceives, ServerRefuses, ServerGrants
<1> DEFINE a == [txn |-> q.txn, class |-> class, code |-> code, nonce |-> server.nonce]
<1>7. responses' = responses \cup {a} /\ answers' = answers \cup {<<q.txn, class>>}
  BY <1>6 DEF Answer
<1>8. a \in Responses /\ a.txn = q.txn /\ a.class = class
  BY <1>4, <1>5 DEF Responses
<1> HIDE DEF a
<1>9. ServerInv'
  <2>1. \/ UNCHANGED server
        \/ server' = [server EXCEPT !.allocated = TRUE, !.by = q.txn]
        \/ server' = [server EXCEPT !.permitted = @ \cup {q.peer}]
    BY DEF ServerReceives, ServerRefuses, ServerGrants
  <2>2. q.peer \in Peers \cup {None}
    BY <1>2 DEF Requests
  <2>3. /\ server' \in [allocated : BOOLEAN, permitted : SUBSET (Peers \cup {None}),
                        nonce : Nat, by : Nat, open : BOOLEAN]
        /\ server'.nonce = server.nonce
    <3>1. CASE UNCHANGED server
      BY <1>2, <3>1 DEF ServerInv
    <3>2. CASE server' = [server EXCEPT !.allocated = TRUE, !.by = q.txn]
      BY <1>2, <1>4, <3>2 DEF ServerInv
    <3>3. CASE server' = [server EXCEPT !.permitted = @ \cup {q.peer}]
      <4> DEFINE P == server.permitted \cup {q.peer}
      <4>1. P \in SUBSET (Peers \cup {None})
        BY <1>2, <2>2 DEF ServerInv
      <4>2. server' = [server EXCEPT !.permitted = P]
        BY <3>3
      <4> HIDE DEF P
      <4> QED BY <1>2, <4>1, <4>2 DEF ServerInv
    <3> QED BY <2>1, <3>1, <3>2, <3>3
  <2> QED BY <1>5, <2>3 DEF ServerInv
<1>10. SlotType' /\ handler' \in [Handlers -> SUBSET Responses] /\ requests' \subseteq Requests
       /\ responses' \subseteq Responses
  BY <1>1, <1>2, <1>7, <1>8 DEF TypeOK, SlotType, DataType
<1>11. \A n \in Nat : <<n, "success">> \in answers' =>
         <<n, "success">> \in answers \/ (n = q.txn /\ class = "success")
  BY <1>7
<1>12. \A n : <<n, "success">> \in answers => <<n, "success">> \in answers'
  BY <1>7
<1>13. TxnInv'
  <2>1. \A n \in Nat : <<n, "success">> \in answers' => n # 0 /\ n <= txns'
    BY <1>1, <1>2, <1>4, <1>11 DEF TxnInv
  <2> QED BY <1>1, <1>2, <2>1 DEF TxnInv
<1>14. ResponseInv'
  <2>1. class = "success" => <<q.txn, "success">> \in answers'
    BY <1>7
  <2>2. \A r \in responses' : r.class = "success" => <<r.txn, "success">> \in answers'
    BY <1>2, <1>7, <1>8, <1>12, <2>1 DEF ResponseInv
  <2>3. \A h \in Handlers : \A r \in handler'[h] :
          r.class = "success" => <<r.txn, "success">> \in answers'
    BY <1>1, <1>2, <1>12 DEF ResponseInv
  <2>4. pending' = pending /\ handler' = handler
    BY <1>1
  <2>5. ASSUME NEW r \in pending.response
        PROVE  r.txn = pending.txn /\ (r.class = "success" => <<r.txn, "success">> \in answers')
    <3>1. r.txn = pending.txn /\ (r.class = "success" => <<r.txn, "success">> \in answers)
      BY <1>2 DEF ResponseInv
    <3> QED BY <3>1, <1>12
  <2>6. \A h \in Handlers : \A r, s \in handler'[h] : r = s
    BY <1>2, <2>4 DEF ResponseInv
  <2> QED BY <2>2, <2>3, <2>4, <2>5, <2>6 DEF ResponseInv
<1>15. OkInv'
  <2>1. \A t \in Threads : thread[t].txn \in Nat
    BY <1>2 DEF TypeOK, DataType, ThreadType
  <2>2. granted \subseteq granted' /\ (class = "success" => q.peer \in granted')
    BY <1>6
  <2>3. \A t \in Threads : thread[t].ok => <<thread[t].txn, "success">> \in answers'
    BY <1>2, <1>12 DEF OkInv
  <2>4. \A t \in Threads :
          <<thread[t].txn, "success">> \in answers' => thread[t].peer \in granted'
    BY <1>2, <1>11, <2>1, <2>2 DEF OkInv, TxnInv
  <2> QED BY <1>1, <2>3, <2>4 DEF OkInv
<1>16. GrantsAreReal'
  BY <1>1, <1>2, <1>6 DEF GrantsAreReal
<1> QED BY <1>1, <1>3, <1>9, <1>10, <1>13, <1>14, <1>15, <1>16, OthersKeep

-------------------------------------------------------------------------------

\* Every step keeps the invariant.
LEMMA StepPreserves ==
  ASSUME IInv, [Next]_vars
  PROVE  IInv'
<1>1. CASE OpenAllocation(Opener)
  BY <1>1, OpenPreserves
<1>2. ASSUME NEW t \in Callers, NEW p \in Peers, AddPeerPermission(t, p)
      PROVE  IInv'
  BY <1>2, AddPreserves
<1>3. ASSUME NEW t \in Threads, ThreadStep(t)
      PROVE  IInv'
  BY <1>3, BeginPreserves, SendPreserves, ReturnPreserves, TimeOutPreserves, GrantPreserves,
     CloseAfterFailurePreserves, CheckPreserves, RecordPreserves DEF ThreadStep
<1>4. ASSUME NEW h \in Handlers, NEW r \in responses, NEW again \in BOOLEAN,
             MessageReceived(h, r, again)
      PROVE  IInv'
  BY <1>4, MessageReceivedPreserves
<1>5. ASSUME NEW h \in Handlers, OnInboundUdp(h)
      PROVE  IInv'
  BY <1>5, InboundPreserves
<1>6. CASE Destroy
  BY <1>6, DestroyPreserves
<1>7. CASE Lose
  BY <1>7, LosePreserves
<1>8. ASSUME NEW q \in requests, NEW again \in BOOLEAN, ServerReceives(q, again)
      PROVE  IInv'
  BY <1>8, ServerReceivesPreserves
<1>9. CASE ServerForgets
  BY <1>9, ForgetsPreserves
<1>10. CASE UNCHANGED vars
  <2>1. UNCHANGED <<active, socket, allocated, nonce, permitted, pending, txns, thread, handler,
                    requests, responses, server, granted, answers, faults>>
    BY <1>10 DEF vars, clientVars, networkVars
  <2>2. TypeOK'
    BY <2>1 DEF IInv, TypeOK, SocketType, SlotType, DataType
  <2>3. ServerInv' /\ PlaceInv'
    BY <2>1 DEF IInv, ServerInv, PlaceInv
  <2>4. TxnInv' /\ ResponseInv'
    BY <2>1 DEF IInv, TxnInv, ResponseInv
  <2>5. OkInv' /\ GrantsAreReal'
    BY <2>1 DEF IInv, OkInv, GrantsAreReal
  <2> QED BY <2>2, <2>3, <2>4, <2>5 DEF IInv
<1> QED BY <1>1, <1>2, <1>3, <1>4, <1>5, <1>6, <1>7, <1>8, <1>9, <1>10 DEF Next

\* The invariant holds of every behaviour.
THEOREM Inductive == Spec => []IInv
BY InitHolds, StepPreserves, PTL DEF Spec

\* A client without a socket holds no allocation, and every request, answer and
\* callback carries what the code can put in it (turn_client.cpp).
THEOREM TypeCorrect == Spec => []TypeOK
<1>1. IInv => TypeOK
  BY DEF IInv
<1> QED BY <1>1, Inductive, PTL

\* A thread of TurnClient::WaitForResponse that is told of success was granted its
\* own request, though another thread may take the one pending slot meanwhile.
THEOREM AnswersCorrect == Spec => []AnswerIsOwn
<1>1. IInv => AnswerIsOwn
  BY DEF IInv, OkInv, AnswerIsOwn
<1> QED BY <1>1, Inductive, PTL

\* What m_permittedPeers and m_allocated say, the server has granted.
THEOREM GrantsCorrect == Spec => []GrantsAreReal
<1>1. IInv => GrantsAreReal
  BY DEF IInv
<1> QED BY <1>1, Inductive, PTL

-------------------------------------------------------------------------------
(***************************************************************************)
(* IceCall.  A selection is earned through what the network holds, so the  *)
(* invariant speaks of that: a datagram has a sender (SenderInv), and a    *)
(* USE-CANDIDATE comes from a controlling end that saw the pair work       *)
(* (NominationInv).                                                        *)
(***************************************************************************)

\* An agent plays the role of its end, and counts no pair as working or
\* nominated but the one datagrams come from.
AgentInv ==
  \A x \in Side : agent[x] # NoAgent =>
    /\ agent[x].role = x
    /\ agent[x].succeeded \subseteq {Reflector0}
    /\ agent[x].nominated \subseteq agent[x].succeeded

\* A datagram has a sender: the other end's agent.
SenderInv ==
  \A x \in Side : \A kind \in StunMessages :
    To(x, kind) \in net => agent[Peer(x)] # NoAgent

\* Only the controlling end nominates, and it does so once.
NominationInv ==
  \A x \in Side : To(x, "requestUseCandidate") \in net =>
    /\ x = "Controlled"
    /\ agent["Controlling"] # NoAgent
    /\ Reflector0 \in agent["Controlling"].nominated

\* A controlled end is connected by a nomination.
ConnectedInv ==
  agent["Controlled"] # NoAgent /\ agent["Controlled"].connected =>
    /\ agent["Controlling"] # NoAgent
    /\ Reflector0 \in agent["Controlling"].nominated

\* An end past its ICE phase has an agent with a working pair.
StateInv ==
  \A x \in Side : state[x] = "DtlsHandshaking" =>
    /\ agent[x] # NoAgent
    /\ Reflector0 \in agent[x].succeeded
    /\ agent[Peer(x)] # NoAgent

\* A retry timer runs for an agent.
ArmedInv == \A x \in Side : armed[x] => agent[x] # NoAgent

IceInv ==
  /\ IceTypeOK
  /\ AgentInv
  /\ ArmedInv
  /\ SenderInv
  /\ NominationInv
  /\ ConnectedInv
  /\ StateInv

-------------------------------------------------------------------------------
(* Lemmas about the agent.                                                  *)

\* The two ends are each other's peers.
LEMMA PeerIsOther ==
  ASSUME NEW x \in Side
  PROVE  Peer(x) \in Side /\ Peer(x) # x /\ Peer(Peer(x)) = x
BY DEF Side, Roles, Peer

\* An agent is no missing one.
LEMMA AgentExists ==
  ASSUME NEW a \in Agent
  PROVE  a # NoAgent
<1>1. a.role \in Roles
  BY DEF Agent
<1>2. NoAgent.role \notin Roles
  BY DEF NoAgent, Roles
<1> QED BY <1>1, <1>2

\* What GetBindingRequestsToSend leaves behind is an agent whose nominated
\* pairs are all those of a controlling end that work.
LEMMA NominatesWorking ==
  ASSUME NEW a \in Agent
  PROVE  /\ AfterBindingRequests(a) \in Agent
         /\ AfterBindingRequests(a).role = a.role
         /\ AfterBindingRequests(a).targets = a.targets
         /\ AfterBindingRequests(a).succeeded = a.succeeded
         /\ AfterBindingRequests(a).connected = a.connected
         /\ AfterBindingRequests(a).nominated = a.nominated \cup ToNominate(a)
         /\ ToNominate(a) \subseteq a.succeeded
BY DEF Agent, AfterBindingRequests, ToNominate

\* ProcessIncoming marks the pair of the datagram, and nothing else but the
\* selection.
LEMMA IncomingMarks ==
  ASSUME NEW a \in Agent, NEW kind
  PROVE  LET b == AfterIncoming(a, kind, Reflector0, a.connected) IN
         /\ b \in Agent
         /\ b.role = a.role
         /\ b.targets = a.targets
         /\ a.succeeded \subseteq b.succeeded
         /\ b.succeeded \subseteq a.succeeded \cup {Reflector0}
         /\ Selects(a, kind, Reflector0, a.connected) => Reflector0 \in b.succeeded
         /\ b.nominated = a.nominated
         /\ b.connected = (a.connected \/ Selects(a, kind, Reflector0, a.connected))
<1> DEFINE b == AfterIncoming(a, kind, Reflector0, a.connected)
           s == IF Reflector0 \in a.targets THEN a.succeeded \cup {Reflector0} ELSE a.succeeded
           c == a.connected \/ Selects(a, kind, Reflector0, a.connected)
<1>1. b = [a EXCEPT !.succeeded = s, !.connected = c]
  BY DEF AfterIncoming
<1>2. Selects(a, kind, Reflector0, a.connected) => Reflector0 \in a.targets
  BY DEF Selects
<1>3. s \subseteq Candidates /\ a.succeeded \subseteq s /\ s \subseteq a.succeeded \cup {Reflector0}
  BY ReflectorAssumption DEF Agent
<1>4. Selects(a, kind, Reflector0, a.connected) => Reflector0 \in s
  BY <1>2
<1>5. c \in BOOLEAN
  BY DEF Agent, Selects
<1> HIDE DEF s, c
<1>6. b \in Agent /\ b.role = a.role /\ b.targets = a.targets /\ b.succeeded = s
      /\ b.nominated = a.nominated /\ b.connected = c
  BY <1>1, <1>3, <1>5 DEF Agent
<1> HIDE DEF b
<1>7. /\ b \in Agent /\ b.role = a.role /\ b.targets = a.targets
      /\ a.succeeded \subseteq b.succeeded
      /\ b.succeeded \subseteq a.succeeded \cup {Reflector0}
      /\ Selects(a, kind, Reflector0, a.connected) => Reflector0 \in b.succeeded
      /\ b.nominated = a.nominated /\ b.connected = c
  BY <1>3, <1>4, <1>6
<1> QED BY <1>7 DEF b, c

\* One round of checks goes to the other end; a nomination among them is for a
\* working pair of a controlling agent.
LEMMA ChecksAreSent ==
  ASSUME NEW x \in Side, NEW a \in Agent, NEW m \in Checks(x, a)
  PROVE  /\ m \in [to : Side, kind : StunMessages]
         /\ m.to = Peer(x)
         /\ m.kind = "requestUseCandidate" =>
              a.role = "Controlling" /\ \E c \in a.targets : c \in a.succeeded \ a.nominated
<1>1. PICK b \in BindingRequests(a) :
        m = To(Peer(x), IF b.useCandidate THEN "requestUseCandidate" ELSE "request")
  BY DEF Checks
<1>2. PICK c \in a.targets : b = [target |-> c, useCandidate |-> c \in ToNominate(a)]
  BY <1>1 DEF BindingRequests
<1>3. m.to = Peer(x) /\ m.kind = (IF c \in ToNominate(a) THEN "requestUseCandidate" ELSE "request")
  BY <1>1, <1>2 DEF To
<1>4. m \in [to : Side, kind : StunMessages]
  BY <1>1, PeerIsOther DEF To, StunMessages
<1>5. ASSUME m.kind = "requestUseCandidate"
      PROVE  a.role = "Controlling" /\ c \in a.succeeded \ a.nominated
  BY <1>3, <1>5 DEF ToNominate
<1> QED BY <1>3, <1>4, <1>5

-------------------------------------------------------------------------------
(* The steps.                                                               *)

\* The invariant holds before either end has credentials.
LEMMA IceInitHolds == IceInit => IceInv
<1> SUFFICES ASSUME IceInit PROVE IceInv
  OBVIOUS
<1>1. \A x \in Side : agent[x] = NoAgent /\ state[x] = "IceConnecting"
  BY DEF IceInit
<1>2. "Controlled" \in Side /\ "Controlling" \in Side
  BY DEF Side, Roles
<1>3. IceTypeOK
  BY AttemptsAssumption DEF IceInit, IceTypeOK
<1>4. AgentInv /\ ConnectedInv /\ StateInv /\ ArmedInv
  BY <1>1, <1>2 DEF IceInit, AgentInv, ConnectedInv, StateInv, ArmedInv
<1>5. SenderInv /\ NominationInv
  BY DEF IceInit, SenderInv, NominationInv
<1> QED BY <1>3, <1>4, <1>5 DEF IceInv

\* An end that starts brings an agent without working pairs; its first checks
\* are plain.
LEMMA StartPreserves ==
  ASSUME IceInv, NEW x \in Side, StartIcePhase(x)
  PROVE  IceInv'
<1>1. PICK remote \in SUBSET Candidates :
        /\ agent' = [agent EXCEPT ![x] = AfterBindingRequests(NewAgent(x, remote))]
        /\ net' = net \cup Checks(x, NewAgent(x, remote))
  BY DEF StartIcePhase
<1> DEFINE a == NewAgent(x, remote)
           b == AfterBindingRequests(a)
<1>2. a \in Agent /\ a.role = x /\ a.targets = remote /\ a.succeeded = {}
      /\ a.nominated = {} /\ a.connected = FALSE
  BY DEF NewAgent, Agent, Side
<1>3. b \in Agent /\ b.role = x /\ b.targets = remote /\ b.succeeded = {}
      /\ b.nominated = {} /\ b.connected = FALSE
  <2> HIDE DEF a
  <2> QED BY <1>2, NominatesWorking
<1>4. b # NoAgent
  BY <1>3, AgentExists
<1>5. agent[x] = NoAgent /\ state' = state
  BY DEF StartIcePhase
<1>6. agent' = [agent EXCEPT ![x] = b] /\ agent \in [Side -> Agent \cup {NoAgent}]
  BY <1>1 DEF IceInv, IceTypeOK
<1>7. \A y \in Side : agent'[y] = IF y = x THEN b ELSE agent[y]
  BY <1>6
<1>8. \A m \in Checks(x, a) :
        /\ m \in [to : Side, kind : StunMessages]
        /\ m.to = Peer(x) /\ m.kind # "requestUseCandidate"
  <2> HIDE DEF a
  <2> QED BY <1>2, ChecksAreSent
<1>9. "Controlled" \in Side /\ "Controlling" \in Side
  BY DEF Side, Roles
<1> HIDE DEF a, b
<1>10. IceTypeOK'
  <2>1. agent' \in [Side -> Agent \cup {NoAgent}]
    BY <1>3, <1>6
  <2>2. armed' \in [Side -> BOOLEAN] /\ attempts' = attempts
    BY DEF StartIcePhase, IceInv, IceTypeOK
  <2>3. net' \subseteq [to : Side, kind : StunMessages]
    BY <1>1, <1>8 DEF IceInv, IceTypeOK, a
  <2> QED BY <2>1, <2>2, <2>3, <1>5 DEF IceInv, IceTypeOK
<1>11. AgentInv'
  BY <1>1, <1>3, <1>7 DEF IceInv, AgentInv
<1>12. SenderInv'
  <2> SUFFICES ASSUME NEW y \in Side, NEW kind \in StunMessages, To(y, kind) \in net'
               PROVE  agent'[Peer(y)] # NoAgent
    BY DEF SenderInv
  <2>1. CASE To(y, kind) \in net
    BY <2>1, <1>4, <1>7, PeerIsOther DEF IceInv, SenderInv
  <2>2. CASE To(y, kind) \in Checks(x, a)
    <3>1. y = Peer(x)
      BY <2>2, <1>8 DEF To
    <3> QED BY <3>1, <1>4, <1>7, PeerIsOther
  <2> QED BY <2>1, <2>2, <1>1 DEF a
<1>13. NominationInv'
  <2> SUFFICES ASSUME NEW y \in Side, To(y, "requestUseCandidate") \in net'
               PROVE  /\ y = "Controlled"
                      /\ agent'["Controlling"] # NoAgent
                      /\ Reflector0 \in agent'["Controlling"].nominated
    BY DEF NominationInv
  <2>1. To(y, "requestUseCandidate") \in net
    BY <1>1, <1>8 DEF To, a
  <2> QED BY <2>1, <1>5, <1>7, <1>9 DEF IceInv, NominationInv
<1>14. ConnectedInv'
  BY <1>3, <1>5, <1>7, <1>9 DEF IceInv, ConnectedInv
<1>15. StateInv'
  <2> SUFFICES ASSUME NEW y \in Side, state'[y] = "DtlsHandshaking"
               PROVE  /\ agent'[y] # NoAgent
                      /\ Reflector0 \in agent'[y].succeeded
                      /\ agent'[Peer(y)] # NoAgent
    BY DEF StateInv
  <2>1. y # x
    BY <1>5 DEF IceInv, StateInv
  <2> QED BY <2>1, <1>4, <1>5, <1>7, PeerIsOther DEF IceInv, StateInv
<1>16. ArmedInv'
  BY <1>4, <1>7 DEF StartIcePhase, IceInv, IceTypeOK, ArmedInv
<1> QED BY <1>10, <1>11, <1>12, <1>13, <1>14, <1>15, <1>16 DEF IceInv

\* A retry may nominate: then the pair works, and is marked as the check goes
\* out.
LEMMA RetryPreserves ==
  ASSUME IceInv, NEW x \in Side, Retry(x)
  PROVE  IceInv'
<1> DEFINE a == agent[x]
           b == AfterBindingRequests(a)
<1>1. agent \in [Side -> Agent \cup {NoAgent}] /\ a \in Agent /\ agent[x] # NoAgent
  BY DEF Retry, IceInv, IceTypeOK, ArmedInv
<1>2. /\ b \in Agent /\ b.role = x /\ b.targets = a.targets /\ b.connected = a.connected
      /\ b.succeeded = a.succeeded /\ b.nominated = a.nominated \cup ToNominate(a)
      /\ ToNominate(a) \subseteq a.succeeded
      /\ a.role = x /\ a.succeeded \subseteq {Reflector0} /\ a.nominated \subseteq a.succeeded
  <2>1. a.role = x /\ a.succeeded \subseteq {Reflector0} /\ a.nominated \subseteq a.succeeded
    BY <1>1 DEF IceInv, AgentInv
  <2> HIDE DEF a
  <2> QED BY <1>1, <2>1, NominatesWorking
<1>3. b # NoAgent
  BY <1>2, AgentExists
<1>4. /\ agent' = [agent EXCEPT ![x] = b] /\ net' = net \cup Checks(x, a)
      /\ state' = state
  BY DEF Retry
<1>5. \A y \in Side : agent'[y] = IF y = x THEN b ELSE agent[y]
  BY <1>1, <1>4
<1>6. \A m \in Checks(x, a) :
        /\ m \in [to : Side, kind : StunMessages] /\ m.to = Peer(x)
        /\ m.kind = "requestUseCandidate" =>
             x = "Controlling" /\ Reflector0 \in a.succeeded \ a.nominated
  <2> HIDE DEF a, b
  <2>1. TAKE m \in Checks(x, a)
  <2>2. /\ m \in [to : Side, kind : StunMessages] /\ m.to = Peer(x)
        /\ m.kind = "requestUseCandidate" =>
             a.role = "Controlling" /\ \E c \in a.targets : c \in a.succeeded \ a.nominated
    BY <1>1, ChecksAreSent
  <2> QED BY <2>2, <1>2
<1>7. "Controlled" \in Side /\ "Controlling" \in Side /\ Peer("Controlling") = "Controlled"
  BY DEF Side, Roles, Peer
<1>8. AgentInv
  BY DEF IceInv
<1> HIDE DEF a, b
<1>10. IceTypeOK'
  <2>1. agent' \in [Side -> Agent \cup {NoAgent}]
    BY <1>1, <1>2, <1>4
  <2>2. attempts' \in [Side -> 0..MaxAttempts] /\ armed' = armed
    BY AttemptsAssumption DEF Retry, IceInv, IceTypeOK
  <2>3. net' \subseteq [to : Side, kind : StunMessages]
    BY <1>4, <1>6 DEF IceInv, IceTypeOK
  <2> QED BY <2>1, <2>2, <2>3, <1>4 DEF IceInv, IceTypeOK
<1>11. AgentInv'
  BY <1>2, <1>5, <1>8 DEF AgentInv
<1>12. SenderInv'
  <2> SUFFICES ASSUME NEW y \in Side, NEW kind \in StunMessages, To(y, kind) \in net'
               PROVE  agent'[Peer(y)] # NoAgent
    BY DEF SenderInv
  <2>1. CASE To(y, kind) \in net
    BY <2>1, <1>3, <1>5, PeerIsOther DEF IceInv, SenderInv
  <2>2. CASE To(y, kind) \in Checks(x, a)
    <3>1. y = Peer(x)
      BY <2>2, <1>6 DEF To
    <3> QED BY <3>1, <1>3, <1>5, PeerIsOther
  <2> QED BY <2>1, <2>2, <1>4
<1>13. NominationInv'
  <2> SUFFICES ASSUME NEW y \in Side, To(y, "requestUseCandidate") \in net'
               PROVE  /\ y = "Controlled"
                      /\ agent'["Controlling"] # NoAgent
                      /\ Reflector0 \in agent'["Controlling"].nominated
    BY DEF NominationInv
  <2>1. CASE To(y, "requestUseCandidate") \in net
    <3>1. y = "Controlled" /\ agent["Controlling"] # NoAgent
          /\ Reflector0 \in agent["Controlling"].nominated
      BY <2>1 DEF IceInv, NominationInv
    <3>2. CASE x = "Controlling"
      BY <3>1, <3>2, <1>2, <1>3, <1>5, <1>7 DEF a
    <3>3. CASE x # "Controlling"
      BY <3>1, <3>3, <1>5, <1>7
    <3> QED BY <3>2, <3>3
  <2>2. CASE To(y, "requestUseCandidate") \in Checks(x, a)
    <3>1. y = Peer(x) /\ x = "Controlling" /\ Reflector0 \in a.succeeded \ a.nominated
      BY <2>2, <1>6 DEF To
    <3>2. Reflector0 \in ToNominate(a)
      BY <3>1, <1>2 DEF ToNominate
    <3> QED BY <3>1, <3>2, <1>2, <1>3, <1>5, <1>7
  <2> QED BY <2>1, <2>2, <1>4
<1>14. ConnectedInv'
  <2> SUFFICES ASSUME agent'["Controlled"] # NoAgent, agent'["Controlled"].connected
               PROVE  /\ agent'["Controlling"] # NoAgent
                      /\ Reflector0 \in agent'["Controlling"].nominated
    BY DEF ConnectedInv
  <2>1. agent["Controlled"] # NoAgent /\ agent["Controlled"].connected
    BY <1>2, <1>5, <1>7, AgentExists, <1>1 DEF a
  <2>2. agent["Controlling"] # NoAgent /\ Reflector0 \in agent["Controlling"].nominated
    BY <2>1 DEF IceInv, ConnectedInv
  <2>3. CASE x = "Controlling"
    BY <2>2, <2>3, <1>2, <1>3, <1>5, <1>7 DEF a
  <2>4. CASE x # "Controlling"
    BY <2>2, <2>4, <1>5, <1>7
  <2> QED BY <2>3, <2>4
<1>15. StateInv'
  <2> SUFFICES ASSUME NEW y \in Side, state'[y] = "DtlsHandshaking"
               PROVE  /\ agent'[y] # NoAgent
                      /\ Reflector0 \in agent'[y].succeeded
                      /\ agent'[Peer(y)] # NoAgent
    BY DEF StateInv
  <2>1. agent[y] # NoAgent /\ Reflector0 \in agent[y].succeeded /\ agent[Peer(y)] # NoAgent
    BY <1>4 DEF IceInv, StateInv
  <2>2. agent'[y] # NoAgent /\ Reflector0 \in agent'[y].succeeded
    BY <2>1, <1>2, <1>3, <1>5 DEF a
  <2>3. agent'[Peer(y)] # NoAgent
    BY <2>1, <1>3, <1>5, PeerIsOther
  <2> QED BY <2>2, <2>3
<1>16. ArmedInv'
  BY <1>3, <1>5 DEF Retry, IceInv, ArmedInv
<1> QED BY <1>10, <1>11, <1>12, <1>13, <1>14, <1>15, <1>16 DEF IceInv

\* Giving up touches no agent.
LEMMA GiveUpPreserves ==
  ASSUME IceInv, NEW x \in Side, GiveUp(x)
  PROVE  IceInv'
<1>1. \A y \in Side : state'[y] = IF y = x THEN "Failed" ELSE state[y]
  BY DEF GiveUp, IceInv, IceTypeOK
<1>2. IceTypeOK'
  BY DEF GiveUp, IceInv, IceTypeOK
<1>3. agent' = agent /\ net' = net
  BY DEF GiveUp
<1>4. AgentInv' /\ SenderInv' /\ NominationInv' /\ ConnectedInv'
  BY <1>3 DEF IceInv, AgentInv, SenderInv, NominationInv, ConnectedInv
<1>5. StateInv'
  BY <1>1, <1>3 DEF IceInv, StateInv
<1>6. ArmedInv'
  BY DEF GiveUp, IceInv, IceTypeOK, ArmedInv
<1> QED BY <1>2, <1>4, <1>5, <1>6 DEF IceInv

\* A datagram selects a pair only if the other end sent it, and the controlled
\* end's only if it is a nomination.
LEMMA ReceivePreserves ==
  ASSUME IceInv, NEW x \in Side, NEW kind \in StunMessages, Receive(x, kind)
  PROVE  IceInv'
<1> DEFINE a == agent[x]
           b == AfterIncoming(a, kind, Reflector0, a.connected)
           selected == Selects(a, kind, Reflector0, a.connected)
           connects == selected /\ state[x] = "IceConnecting"
<1>1. /\ agent \in [Side -> Agent \cup {NoAgent}] /\ a \in Agent
      /\ a # NoAgent /\ To(x, kind) \in net
  BY DEF Receive, IceInv, IceTypeOK
<1>2. a.role = x /\ a.succeeded \subseteq {Reflector0}
      /\ a.nominated \subseteq a.succeeded
  BY <1>1 DEF IceInv, AgentInv
<1>3. /\ b \in Agent /\ b.role = x /\ b.targets = a.targets
      /\ a.succeeded \subseteq b.succeeded /\ b.succeeded \subseteq {Reflector0}
      /\ selected => Reflector0 \in b.succeeded
      /\ b.nominated = a.nominated /\ b.connected = (a.connected \/ selected)
  <2> HIDE DEF a, selected
  <2>1. /\ a.succeeded \subseteq b.succeeded
        /\ b.succeeded \subseteq a.succeeded \cup {Reflector0}
    BY <1>1, IncomingMarks
  <2> QED BY <2>1, <1>1, <1>2, IncomingMarks DEF selected
<1>4. b # NoAgent
  BY <1>3, AgentExists
<1>5. agent' = [agent EXCEPT ![x] = b]
  BY DEF Receive
<1>6. \A y \in Side : agent'[y] = IF y = x THEN b ELSE agent[y]
  BY <1>1, <1>5
<1>7. net' \subseteq net \cup {To(Peer(x), "response")}
  BY DEF Receive
<1>8. /\ state' = [state EXCEPT ![x] = IF connects THEN "DtlsHandshaking" ELSE @]
      /\ armed' = [armed EXCEPT ![x] = @ /\ ~connects]
      /\ attempts' = attempts
  BY DEF Receive
<1>9. agent[Peer(x)] # NoAgent
  BY <1>1 DEF IceInv, SenderInv
<1>10. selected /\ x = "Controlled" => kind = "requestUseCandidate"
  BY <1>2 DEF Selects
<1>11. "Controlled" \in Side /\ "Controlling" \in Side
  BY DEF Side, Roles
<1>12. \A y \in Side : agent[y] # NoAgent => agent'[y] # NoAgent
  BY <1>4, <1>6
<1> HIDE DEF a, b, selected
<1>13. IceTypeOK'
  <2>1. agent' \in [Side -> Agent \cup {NoAgent}]
    BY <1>1, <1>3, <1>5
  <2>2. net' \subseteq [to : Side, kind : StunMessages]
    BY <1>7, PeerIsOther DEF IceInv, IceTypeOK, To, StunMessages
  <2>3. state' \in [Side -> {"IceConnecting", "DtlsHandshaking", "Failed"}]
    BY <1>8 DEF IceInv, IceTypeOK
  <2>4. armed' \in [Side -> BOOLEAN]
    BY <1>8 DEF IceInv, IceTypeOK
  <2> QED BY <2>1, <2>2, <2>3, <2>4, <1>8 DEF IceInv, IceTypeOK
<1>14. AgentInv'
  BY <1>2, <1>3, <1>6 DEF IceInv, AgentInv
<1>15. ArmedInv'
  <2>1. \A y \in Side : armed'[y] => armed[y]
    BY <1>8 DEF IceInv, IceTypeOK
  <2> QED BY <2>1, <1>12 DEF IceInv, ArmedInv
<1>16. SenderInv'
  <2> SUFFICES ASSUME NEW y \in Side, NEW k \in StunMessages, To(y, k) \in net'
               PROVE  agent'[Peer(y)] # NoAgent
    BY DEF SenderInv
  <2>1. CASE To(y, k) \in net
    BY <2>1, <1>12, PeerIsOther DEF IceInv, SenderInv
  <2>2. CASE To(y, k) = To(Peer(x), "response")
    <3>1. y = Peer(x)
      BY <2>2 DEF To
    <3> QED BY <3>1, <1>4, <1>6, PeerIsOther
  <2> QED BY <2>1, <2>2, <1>7
<1>17. agent["Controlling"] # NoAgent /\ Reflector0 \in agent["Controlling"].nominated
         => agent'["Controlling"] # NoAgent /\ Reflector0 \in agent'["Controlling"].nominated
  BY <1>3, <1>4, <1>6, <1>11 DEF a
<1>18. NominationInv'
  <2> SUFFICES ASSUME NEW y \in Side, To(y, "requestUseCandidate") \in net'
               PROVE  /\ y = "Controlled"
                      /\ agent'["Controlling"] # NoAgent
                      /\ Reflector0 \in agent'["Controlling"].nominated
    BY DEF NominationInv
  <2>1. To(y, "requestUseCandidate") \in net
    BY <1>7 DEF To
  <2> QED BY <2>1, <1>17 DEF IceInv, NominationInv
<1>19. ConnectedInv'
  <2> SUFFICES ASSUME agent'["Controlled"] # NoAgent, agent'["Controlled"].connected
               PROVE  agent["Controlling"] # NoAgent
                      /\ Reflector0 \in agent["Controlling"].nominated
    BY <1>17 DEF ConnectedInv
  <2>1. CASE agent["Controlled"] # NoAgent /\ agent["Controlled"].connected
    BY <2>1 DEF IceInv, ConnectedInv
  <2>2. CASE ~(agent["Controlled"] # NoAgent /\ agent["Controlled"].connected)
    <3>1. x = "Controlled" /\ selected
      BY <2>2, <1>1, <1>3, <1>6, <1>11 DEF a
    <3>2. To("Controlled", "requestUseCandidate") \in net
      BY <3>1, <1>1, <1>10
    <3> QED BY <3>2, <1>11 DEF IceInv, NominationInv
  <2> QED BY <2>1, <2>2
<1>20. StateInv'
  <2> SUFFICES ASSUME NEW y \in Side, state'[y] = "DtlsHandshaking"
               PROVE  /\ agent'[y] # NoAgent
                      /\ Reflector0 \in agent'[y].succeeded
                      /\ agent'[Peer(y)] # NoAgent
    BY DEF StateInv
  <2>1. CASE y = x
    <3>1. agent'[Peer(x)] # NoAgent
      BY <1>9, <1>12, PeerIsOther
    <3>2. selected \/ state[x] = "DtlsHandshaking"
      BY <2>1, <1>8 DEF IceInv, IceTypeOK
    <3>3. Reflector0 \in b.succeeded
      <4>1. state[x] = "DtlsHandshaking" => Reflector0 \in agent[x].succeeded
        BY DEF IceInv, StateInv
      <4>2. a = agent[x]
        BY DEF a
      <4> QED BY <3>2, <4>1, <4>2, <1>3
    <3> QED BY <2>1, <3>1, <3>3, <1>4, <1>6
  <2>2. CASE y # x
    <3>1. state[y] = "DtlsHandshaking"
      BY <2>2, <1>8 DEF IceInv, IceTypeOK
    <3>2. agent[y] # NoAgent /\ Reflector0 \in agent[y].succeeded /\ agent[Peer(y)] # NoAgent
      BY <3>1 DEF IceInv, StateInv
    <3> QED BY <2>2, <3>2, <1>6, <1>12, PeerIsOther
  <2> QED BY <2>1, <2>2
<1> QED BY <1>13, <1>14, <1>15, <1>16, <1>18, <1>19, <1>20 DEF IceInv

\* Every step keeps the invariant.
LEMMA IceStepPreserves == IceInv /\ [IceNext]_iceVars => IceInv'
<1> SUFFICES ASSUME IceInv, [IceNext]_iceVars PROVE IceInv'
  OBVIOUS
<1>1. ASSUME NEW x \in Side, StartIcePhase(x) PROVE IceInv'
  BY <1>1, StartPreserves
<1>2. ASSUME NEW x \in Side, Retry(x) PROVE IceInv'
  BY <1>2, RetryPreserves
<1>3. ASSUME NEW x \in Side, GiveUp(x) PROVE IceInv'
  BY <1>3, GiveUpPreserves
<1>4. ASSUME NEW x \in Side, NEW kind \in StunMessages, Receive(x, kind) PROVE IceInv'
  BY <1>4, ReceivePreserves
<1>5. ASSUME NEW m \in net, LoseDatagram(m) PROVE IceInv'
  BY <1>5 DEF LoseDatagram, IceInv, IceTypeOK, AgentInv, ArmedInv, SenderInv, NominationInv,
              ConnectedInv, StateInv
<1>6. CASE UNCHANGED iceVars
  BY <1>6 DEF iceVars, IceInv, IceTypeOK, AgentInv, ArmedInv, SenderInv, NominationInv,
              ConnectedInv, StateInv
<1> QED BY <1>1, <1>2, <1>3, <1>4, <1>5, <1>6 DEF IceNext

\* The invariant holds of every behaviour.
LEMMA IceInductive == IceSpec => []IceInv
<1> QED BY IceInitHolds, IceStepPreserves, PTL DEF IceSpec

-------------------------------------------------------------------------------
(* Theorems.                                                                *)

\* The variables have their types, the retry counter's bound included.
THEOREM IceTypeCorrect == IceSpec => []IceTypeOK
<1>1. IceInv => IceTypeOK
  BY DEF IceInv
<1> QED BY IceInductive, <1>1, PTL

\* OnIceConnected is earned: neither end goes on to DTLS by itself, and the
\* controlled end only on a pair the controlling end saw work and nominated
\* (ProcessIncoming, GetBindingRequestsToSend).
THEOREM SelectionCorrect == IceSpec => []SelectionIsEarned
<1>1. ASSUME IceInv PROVE SelectionIsEarned
  <2>1. SelectionNeedsPeer
    BY <1>1 DEF IceInv, StateInv, SelectionNeedsPeer
  <2>2. ControlledNeedsNomination
    <3>1. "Controlling" \in Side
      BY DEF Side, Roles
    <3> QED BY <1>1, <3>1 DEF IceInv, ConnectedInv, AgentInv, ControlledNeedsNomination
  <2> QED BY <2>1, <2>2 DEF SelectionIsEarned
<1> QED BY IceInductive, <1>1, PTL

\* A check with USE-CANDIDATE in the network comes from a controlling agent
\* that saw the pair work, and that will not nominate it again.
THEOREM NominationCorrect == IceSpec => []NominationsAreEarned
<1>1. ASSUME IceInv PROVE NominationsAreEarned
  <2> SUFFICES ASSUME NEW x \in Side, To(x, "requestUseCandidate") \in net
               PROVE  /\ x = "Controlled" /\ agent["Controlling"] # NoAgent
                      /\ Reflector0 \in agent["Controlling"].succeeded
                      /\ ToNominate(agent["Controlling"]) = {}
    BY DEF NominationsAreEarned
  <2>1. /\ x = "Controlled" /\ agent["Controlling"] # NoAgent
        /\ Reflector0 \in agent["Controlling"].nominated
    BY <1>1 DEF IceInv, NominationInv
  <2>2. "Controlling" \in Side
    BY DEF Side, Roles
  <2>3. /\ agent["Controlling"].succeeded \subseteq {Reflector0}
        /\ agent["Controlling"].nominated \subseteq agent["Controlling"].succeeded
    BY <1>1, <2>1, <2>2 DEF IceInv, AgentInv
  <2> QED BY <2>1, <2>3 DEF ToNominate
<1> QED BY IceInductive, <1>1, PTL
===============================================================================
