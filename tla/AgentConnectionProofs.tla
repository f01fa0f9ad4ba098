----------------------- MODULE AgentConnectionProofs -----------------------
(***************************************************************************)
(* What rpc.py and service.py guarantee for any numbers of connections,    *)
(* calls, requests and workers.                                            *)
(***************************************************************************)
EXTENDS AgentConnection, TLAPS

USE ConnectionAssumption

\* Of the connections yet to be made nothing exists, not even of the next one.
FutureIsBlank ==
  \A g \in Conns :
    conn < g \/ (conn = g /\ main = "connecting") => link[g] = "none" /\ reader[g] = "none"

\* Who serves or closes a connection has one, which was connected.
ConnInHand ==
  /\ peer # NoConn => link[peer] # "none"
  /\ target # NoConn => link[target] # "none"
  /\ main \notin {"loop", "ended"} => conn # NoConn
  /\ closing["main"] # "no" => main = "closing"
  /\ closing["stopper"] # "no" => stopper = "closing" /\ target # NoConn

\* A reader leaves its loop, and a pool is shut, only once the link is down.
DownFirst ==
  /\ \A g \in Conns : reader[g] \in {"ending", "dead"} => link[g] = "down"
  /\ \A g \in Conns : reader[g] # "none" /\ ~pool[g] => link[g] = "down"
  /\ \A k \in Closers : closing[k] = "rest" => link[Closes(k)] = "down"

\* A reader resolves a call of its own connection, taken out of the table.
ResolvesItsOwn ==
  \A g \in Conns : reader[g] = "resolving" =>
    /\ busyWith[g] \in Calls \ pending
    /\ on[busyWith[g]] = g
    /\ call[busyWith[g]] \in {"waiting"} \cup Over
    /\ future[busyWith[g]] = "none"

\* What is in the table is unsettled, and what is unsettled and still wanted is in the
\* table or being resolved.
TableHasUnsettled ==
  \A c \in Calls :
    /\ c \in pending => future[c] = "none" /\ call[c] \notin {"unborn", "picked"}
    /\ call[c] \in {"unborn", "picked"} => future[c] = "none"
    /\ call[c] \in {"registered", "waiting"} /\ future[c] = "none" =>
         c \in pending \/ (reader[on[c]] = "resolving" /\ busyWith[on[c]] = c)

\* The table of a dead reader holds nothing but calls that are about to be sent.
DeadTable ==
  \A c \in pending : reader[on[c]] = "dead" => call[c] = "registered"

Inv ==
  /\ TypeOK /\ FutureIsBlank /\ ConnInHand /\ DownFirst
  /\ ResolvesItsOwn /\ TableHasUnsettled /\ DeadTable /\ NoLeftovers

LEMMA InitInv == Init => Inv
<1> SUFFICES ASSUME Init PROVE Inv
  OBVIOUS
<1>1. TypeOK
  BY DEF Init, TypeOK, Conns, NoConn, Closers, Over
<1>2. FutureIsBlank /\ ConnInHand /\ DownFirst
  BY DEF Init, FutureIsBlank, ConnInHand, DownFirst, Conns, NoConn, Closers
<1>3. ResolvesItsOwn /\ TableHasUnsettled /\ DeadTable /\ NoLeftovers
  BY DEF Init, ResolvesItsOwn, TableHasUnsettled, DeadTable, NoLeftovers
<1> QED BY <1>1, <1>2, <1>3 DEF Inv

-----------------------------------------------------------------------------
(* run_forever(), run_once(), stop() and close().                          *)

LEMMA MainInv ==
  ASSUME Inv, Steady,
         CheckStop \/ Connect \/ ConnectFails \/ HandshakeDone \/ HandshakeFails
           \/ ConnectionClosed
  PROVE  Inv'
<1> USE DEF Inv, TypeOK, Steady, Conns, NoConn, Closers, Over, Closes, MainGo
<1>1. CASE CheckStop
  BY <1>1 DEF CheckStop, FutureIsBlank, ConnInHand, DownFirst, ResolvesItsOwn,
     TableHasUnsettled, DeadTable, NoLeftovers, connVars, readVars, callVars, reqVars, stopVars
<1>2. CASE Connect
  BY <1>2 DEF Connect, FutureIsBlank, ConnInHand, DownFirst, ResolvesItsOwn,
     TableHasUnsettled, DeadTable, NoLeftovers, callVars, reqVars, stopVars
<1>3. CASE ConnectFails \/ HandshakeDone
  BY <1>3 DEF ConnectFails, HandshakeDone, FutureIsBlank, ConnInHand, DownFirst,
     ResolvesItsOwn, TableHasUnsettled, DeadTable, NoLeftovers,
     connVars, readVars, callVars, reqVars, stopVars
<1>4. CASE HandshakeFails \/ ConnectionClosed
  BY <1>4 DEF HandshakeFails, ConnectionClosed, LetGo, CloseGo, FutureIsBlank, ConnInHand,
     DownFirst, ResolvesItsOwn, TableHasUnsettled, DeadTable, NoLeftovers,
     connVars, readVars, callVars, reqVars, stopVars
<1> QED BY <1>1, <1>2, <1>3, <1>4

LEMMA StopInv ==
  ASSUME Inv, Steady, AskStop \/ ReadPeer
  PROVE  Inv'
<1> USE DEF Inv, TypeOK, Steady, Conns, NoConn, Closers, Over, Closes, StopGo
<1>1. CASE AskStop
  BY <1>1 DEF AskStop, FutureIsBlank, ConnInHand, DownFirst, ResolvesItsOwn,
     TableHasUnsettled, DeadTable, NoLeftovers,
     mainVars, connVars, readVars, callVars, reqVars
<1>2. CASE ReadPeer
  BY <1>2 DEF ReadPeer, CloseGo, FutureIsBlank, ConnInHand, DownFirst, ResolvesItsOwn,
     TableHasUnsettled, DeadTable, NoLeftovers,
     mainVars, connVars, readVars, callVars, reqVars
<1> QED BY <1>1, <1>2

LEMMA CloseInv ==
  ASSUME Inv, Steady, NEW k \in Closers, CloseStep(k)
  PROVE  Inv'
<1> USE DEF Inv, TypeOK, Steady, Conns, NoConn, Closers, Over, Closes, CloseGo
<1>1. CASE CloseSocket(k)
  <2> USE <1>1 DEF CloseSocket, mainVars, readVars, callVars, reqVars, stopVars
  <2>1. TypeOK'
    OBVIOUS
  <2>2. (FutureIsBlank /\ ConnInHand)'
    BY DEF FutureIsBlank, ConnInHand
  <2>3. \A g \in Conns : link[g] = "down" => link'[g] = "down"
    OBVIOUS
  <2>4. DownFirst'
    BY <2>3 DEF ConnInHand, DownFirst
  <2>5. (ResolvesItsOwn /\ TableHasUnsettled /\ DeadTable /\ NoLeftovers)'
    BY DEF ResolvesItsOwn, TableHasUnsettled, DeadTable, NoLeftovers
  <2> QED BY <2>1, <2>2, <2>4, <2>5
<1>2. CASE CloseRest(k)
  <2> USE <1>2 DEF CloseRest, FailPending, MainGo, StopGo, readVars, reqVars, stopVars
  <2>1. TypeOK'
    OBVIOUS
  <2>2. (FutureIsBlank /\ ConnInHand /\ DownFirst)'
    BY DEF FutureIsBlank, ConnInHand, DownFirst
  <2>3. (ResolvesItsOwn /\ TableHasUnsettled /\ DeadTable /\ NoLeftovers)'
    BY DEF DownFirst, ResolvesItsOwn, TableHasUnsettled, DeadTable, NoLeftovers
  <2> QED BY <2>1, <2>2, <2>3
<1> QED BY <1>1, <1>2 DEF CloseStep

-----------------------------------------------------------------------------
(* Callers.                                                                *)

LEMMA CallInv ==
  ASSUME Inv, Steady, NEW c \in Calls, StartCall(c) \/ Caller(c)
  PROVE  Inv'
<1> USE DEF Inv, TypeOK, Steady, Conns, NoConn, Closers, Over, Closes, CallGo
<1>1. CASE StartCall(c)
  BY <1>1 DEF StartCall, Pick, FutureIsBlank, ConnInHand, DownFirst, ResolvesItsOwn,
     TableHasUnsettled, DeadTable, NoLeftovers, mainVars, connVars, readVars, reqVars, stopVars
<1>2. CASE Register(c)
  BY <1>2 DEF Register, FutureIsBlank, ConnInHand, DownFirst, ResolvesItsOwn,
     TableHasUnsettled, DeadTable, NoLeftovers, mainVars, connVars, readVars, reqVars, stopVars
<1>3. CASE SendCall(c) /\ Writable(on[c])
  <2> USE <1>3 DEF SendCall, Writable, mainVars, connVars, readVars, reqVars, stopVars
  <2>0. call' = [call EXCEPT ![c] = "waiting"] /\ pending' = pending
        /\ call[c] = "registered"
    OBVIOUS
  <2>1. TypeOK'
    BY <2>0
  <2>2. (FutureIsBlank /\ ConnInHand /\ DownFirst)'
    BY DEF FutureIsBlank, ConnInHand, DownFirst
  <2>3. ResolvesItsOwn'
    BY <2>0 DEF ResolvesItsOwn
  <2>4. TableHasUnsettled'
    BY DEF ResolvesItsOwn, TableHasUnsettled
  <2>5. DeadTable'
    BY DEF DownFirst, TableHasUnsettled, DeadTable
  <2>6. NoLeftovers'
    BY DEF TableHasUnsettled, NoLeftovers
  <2> QED BY <2>1, <2>2, <2>3, <2>4, <2>5, <2>6
<1>4. CASE SendCall(c) /\ ~Writable(on[c])
  <2> USE <1>4 DEF SendCall, mainVars, connVars, readVars, reqVars, stopVars
  <2>0. call' = [call EXCEPT ![c] = "raised"] /\ pending' = pending \ {c}
    BY DEF CallGo
  <2>7. \A d \in Calls : call'[d] = IF d = c THEN "raised" ELSE call[d]
    BY <2>0
  <2>1. TypeOK'
    BY <2>0, <2>7
  <2>2. (FutureIsBlank /\ ConnInHand /\ DownFirst)'
    BY DEF FutureIsBlank, ConnInHand, DownFirst
  <2>3. ResolvesItsOwn'
    BY <2>0, <2>7 DEF ResolvesItsOwn
  <2>4. TableHasUnsettled'
    BY DEF ResolvesItsOwn, TableHasUnsettled
  <2>5. DeadTable'
    BY DEF DownFirst, TableHasUnsettled, DeadTable
  <2>6. NoLeftovers'
    BY DEF TableHasUnsettled, NoLeftovers
  <2> QED BY <2>1, <2>2, <2>3, <2>4, <2>5, <2>6
<1>5. CASE Return(c)
  <2> USE <1>5 DEF Return, mainVars, connVars, readVars, reqVars, stopVars
  <2>0. c \notin pending
    BY DEF TableHasUnsettled
  <2>1. TypeOK'
    BY SMTT(40)
  <2>2. (FutureIsBlank /\ ConnInHand /\ DownFirst)'
    BY DEF FutureIsBlank, ConnInHand, DownFirst
  <2>7. \A d \in Calls : call'[d] = call[d] \/ call'[d] \in Over
    OBVIOUS
  <2>3. ResolvesItsOwn'
    BY <2>7 DEF ResolvesItsOwn
  <2>4. TableHasUnsettled'
    BY DEF ResolvesItsOwn, TableHasUnsettled
  <2>5. DeadTable'
    BY DEF DownFirst, TableHasUnsettled, DeadTable
  <2>6. NoLeftovers'
    BY <2>0 DEF NoLeftovers
  <2> QED BY <2>1, <2>2, <2>3, <2>4, <2>5, <2>6
<1>6. CASE TimeOut(c)
  BY <1>6 DEF TimeOut, FutureIsBlank, ConnInHand, DownFirst, ResolvesItsOwn,
     TableHasUnsettled, DeadTable, NoLeftovers, mainVars, connVars, readVars, reqVars, stopVars
<1> QED BY <1>1, <1>2, <1>3, <1>4, <1>5, <1>6 DEF Caller

-----------------------------------------------------------------------------
(* Readers.                                                                *)

LEMMA ReaderInv ==
  ASSUME Inv, Steady, NEW g \in Conns,
         SetResult(g) \/ NotifyReturns(g) \/ ReaderEnds(g) \/ ReaderDies(g)
  PROVE  Inv'
<1> USE DEF Inv, TypeOK, Steady, Conns, NoConn, Closers, Over, Closes, ReadGo
<1>1. CASE SetResult(g)
  <2> USE <1>1 DEF SetResult, mainVars, connVars, reqVars, stopVars
  <2>1. TypeOK'
    <3>1. future' \in [Calls -> {"none", "answered", "failed"}]
      OBVIOUS
    <3>2. reader' \in [Conns -> {"none", "reading", "resolving", "notifying", "ending", "dead"}]
      OBVIOUS
    <3>3. busyWith' \in [Conns -> Calls \cup {NoCall}]
      OBVIOUS
    <3> QED BY <3>1, <3>2, <3>3
  <2>2. (FutureIsBlank /\ ConnInHand /\ DownFirst)'
    BY DEF FutureIsBlank, ConnInHand, DownFirst
  <2>3. (ResolvesItsOwn /\ TableHasUnsettled /\ DeadTable /\ NoLeftovers)'
    <3>1. ResolvesItsOwn'
      BY DEF ResolvesItsOwn
    <3>2. TableHasUnsettled'
      <4>1. busyWith[g] \in Calls \ pending /\ on[busyWith[g]] = g
            /\ call[busyWith[g]] \in {"waiting"} \cup Over
        BY DEF ResolvesItsOwn
      <4>2. \A c \in Calls : IF c = busyWith[g] THEN future'[c] # "none"
                                                ELSE future'[c] = future[c]
        BY <4>1
      <4>3. ASSUME NEW c \in Calls, c # busyWith[g], reader[on[c]] = "resolving",
                   busyWith[on[c]] = c
            PROVE  reader'[on[c]] = "resolving" /\ busyWith'[on[c]] = c
        BY <4>3, <4>1
      <4> QED BY <4>1, <4>2, <4>3 DEF TableHasUnsettled
    <3>3. DeadTable'
      BY DEF DownFirst, TableHasUnsettled, DeadTable
    <3>4. NoLeftovers'
      BY DEF TableHasUnsettled, NoLeftovers
    <3> QED BY <3>1, <3>2, <3>3, <3>4
  <2> QED BY <2>1, <2>2, <2>3
<1>2. CASE NotifyReturns(g)
  BY <1>2 DEF NotifyReturns, FutureIsBlank, ConnInHand, DownFirst, ResolvesItsOwn,
     TableHasUnsettled, DeadTable, NoLeftovers, mainVars, connVars, callVars, reqVars, stopVars
<1>3. CASE ReaderEnds(g)
  BY <1>3 DEF ReaderEnds, FutureIsBlank, ConnInHand, DownFirst, ResolvesItsOwn,
     TableHasUnsettled, DeadTable, NoLeftovers, mainVars, callVars, reqVars, stopVars
<1>4. CASE ReaderDies(g)
  BY <1>4 DEF ReaderDies, FailPending, FutureIsBlank, ConnInHand, DownFirst, ResolvesItsOwn,
     TableHasUnsettled, DeadTable, NoLeftovers, mainVars, connVars, stopVars
<1> QED BY <1>1, <1>2, <1>3, <1>4

LEMMA MessageInv ==
  ASSUME Inv, Steady, NEW c \in Calls,
         ReadAnswer(c) \/ \E g \in Conns : Notified(g, c)
  PROVE  Inv'
<1> USE DEF Inv, TypeOK, Steady, Conns, NoConn, Closers, Over, Closes, ReadGo
<1>1. ASSUME NEW g \in Conns, Notified(g, c) PROVE Inv'
  BY <1>1 DEF Notified, Pick, FutureIsBlank, ConnInHand, DownFirst, ResolvesItsOwn,
     TableHasUnsettled, DeadTable, NoLeftovers, mainVars, connVars, reqVars, stopVars
<1>2. CASE ReadAnswer(c)
  BY <1>2 DEF ReadAnswer, FutureIsBlank, ConnInHand, DownFirst, ResolvesItsOwn,
     TableHasUnsettled, DeadTable, NoLeftovers, mainVars, connVars, reqVars, stopVars
<1> QED BY <1>1, <1>2

-----------------------------------------------------------------------------
(* Requests, and the link.                                                 *)

LEMMA RequestInv ==
  ASSUME Inv, Steady, NEW r \in Requests,
         ReadRequest(r) \/ Serve(r) \/ Respond(r) \/ SendRequest(r)
  PROVE  Inv'
<1> USE DEF Inv, TypeOK, Steady, Conns, NoConn, Closers, Over, Closes, ReqGo
<1>1. CASE ReadRequest(r) /\ UNCHANGED reader
  <2> USE <1>1 DEF ReadRequest, mainVars, callVars, stopVars
  <2>1. UNCHANGED closed
    BY DEF ReadGo
  <2>2. req' \in [Requests -> {"unsent", "inbound", "queued", "running", "answered", "unanswered"}]
    BY ZenonT(40)
  <2>3. TypeOK'
    BY <2>1, <2>2
  <2>4. (FutureIsBlank /\ ConnInHand /\ DownFirst)'
    BY DEF FutureIsBlank, ConnInHand, DownFirst
  <2>5. (ResolvesItsOwn /\ TableHasUnsettled /\ DeadTable /\ NoLeftovers)'
    BY DEF ResolvesItsOwn, TableHasUnsettled, DeadTable, NoLeftovers
  <2> QED BY <2>3, <2>4, <2>5
<1>2. CASE ReadRequest(r) /\ reader' # reader
  <2> DEFINE g == reqOn[r]
  <2> USE <1>2 DEF ReadRequest, mainVars, callVars, stopVars
  <2>1. reader' = [reader EXCEPT ![g] = "ending"] /\ reader[g] = "reading" /\ ~pool[g]
    BY DEF ReadGo
  <2>2. /\ closed' = [closed EXCEPT ![g] = TRUE]
        /\ req' \in [Requests -> {"unsent", "inbound", "queued", "running", "answered",
                                  "unanswered"}]
    OBVIOUS
  <2>3. TypeOK'
    BY <2>1, <2>2
  <2>4. (FutureIsBlank /\ ConnInHand /\ DownFirst)'
    BY <2>1 DEF FutureIsBlank, ConnInHand, DownFirst
  <2>5. (ResolvesItsOwn /\ TableHasUnsettled /\ DeadTable /\ NoLeftovers)'
    BY <2>1 DEF ResolvesItsOwn, TableHasUnsettled, DeadTable, NoLeftovers
  <2> QED BY <2>3, <2>4, <2>5
<1>3. CASE Serve(r) /\ UNCHANGED <<asks, call, on>>
  <2> USE <1>3 DEF Serve, mainVars, connVars, readVars, stopVars
  <2>1. TypeOK'
    OBVIOUS
  <2>2. (FutureIsBlank /\ ConnInHand /\ DownFirst)'
    BY DEF FutureIsBlank, ConnInHand, DownFirst
  <2>3. (ResolvesItsOwn /\ TableHasUnsettled /\ DeadTable /\ NoLeftovers)'
    BY DEF ResolvesItsOwn, TableHasUnsettled, DeadTable, NoLeftovers
  <2> QED BY <2>1, <2>2, <2>3
<1>4. ASSUME Serve(r), NEW c \in Calls, Pick(c), asks' = [asks EXCEPT ![r] = c]
      PROVE  Inv'
  <2>0. UNCHANGED <<mainVars, stopVars, closing, connVars, readVars, future, pending, reqOn>>
        /\ ReqGo(r, "queued", "running")
    BY <1>4 DEF Serve
  <2> USE <1>4, <2>0 DEF Pick, mainVars, connVars, readVars, stopVars
  <2>1. TypeOK'
    OBVIOUS
  <2>2. (FutureIsBlank /\ ConnInHand /\ DownFirst)'
    BY DEF FutureIsBlank, ConnInHand, DownFirst
  <2>3. ResolvesItsOwn'
    BY DEF ResolvesItsOwn
  <2>4. TableHasUnsettled'
    BY DEF ResolvesItsOwn, TableHasUnsettled
  <2>5. DeadTable'
    BY DEF DownFirst, TableHasUnsettled, DeadTable
  <2>6. NoLeftovers'
    BY DEF TableHasUnsettled, NoLeftovers
  <2> QED BY <2>1, <2>2, <2>3, <2>4, <2>5, <2>6
<1>5. CASE Respond(r) \/ SendRequest(r)
  <2> USE <1>5 DEF Respond, SendRequest, mainVars, connVars, readVars, callVars, stopVars
  <2>1. TypeOK'
    <3>1. req' \in [Requests -> {"unsent", "inbound", "queued", "running", "answered",
                                 "unanswered"}]
      OBVIOUS
    <3>2. reqOn' \in [Requests -> Conns \cup {NoConn}]
      OBVIOUS
    <3>3. asks' \in [Requests -> Calls \cup {NoCall}]
      OBVIOUS
    <3> QED BY <3>1, <3>2, <3>3
  <2>2. (FutureIsBlank /\ ConnInHand /\ DownFirst)'
    BY DEF FutureIsBlank, ConnInHand, DownFirst
  <2>3. (ResolvesItsOwn /\ TableHasUnsettled /\ DeadTable /\ NoLeftovers)'
    BY DEF DownFirst, ResolvesItsOwn, TableHasUnsettled, DeadTable, NoLeftovers
  <2> QED BY <2>1, <2>2, <2>3
<1> QED BY <1>1, <1>2, <1>3, <1>4, <1>5 DEF Serve

LEMMA LinkInv ==
  ASSUME Inv, Steady, NEW g \in Conns, LinkDrops(g)
  PROVE  Inv'
BY DEF LinkDrops, Inv, TypeOK, Steady, Conns, NoConn, Closers, Over, Closes, FutureIsBlank,
   ConnInHand, DownFirst, ResolvesItsOwn, TableHasUnsettled, DeadTable, NoLeftovers,
   mainVars, readVars, callVars, reqVars, stopVars

LEMMA NextInv == Inv /\ [Next]_vars => Inv'
<1> SUFFICES ASSUME Inv, [Next]_vars PROVE Inv'
  OBVIOUS
<1>1. CASE UNCHANGED vars
  BY <1>1 DEF vars, Inv, TypeOK, FutureIsBlank, ConnInHand, DownFirst, Closes, ResolvesItsOwn,
     TableHasUnsettled, DeadTable, NoLeftovers,
     mainVars, connVars, readVars, callVars, reqVars, stopVars
<1>2. CASE Next
  <2>1. Steady
    BY <1>2 DEF Next
  <2>2. CASE MainThread \/ AskStop \/ StopThread
    BY <2>1, <2>2, MainInv, StopInv, CloseInv DEF MainThread, StopThread, Closers
  <2>3. ASSUME NEW g \in Conns, ReaderThread(g) PROVE Inv'
    BY <2>1, <2>3, ReaderInv, RequestInv DEF ReaderThread
  <2>4. ASSUME NEW r \in Requests, Worker(r) PROVE Inv'
    BY <2>1, <2>4, RequestInv DEF Worker
  <2>5. ASSUME NEW c \in Calls, StartCall(c) \/ Caller(c) PROVE Inv'
    BY <2>1, <2>5, CallInv
  <2>6. CASE Moonraker
    BY <2>1, <2>6, LinkInv, MessageInv, RequestInv DEF Moonraker
  <2> QED BY <1>2, <2>2, <2>3, <2>4, <2>5, <2>6 DEF Next, Step
<1> QED BY <1>1, <1>2

-----------------------------------------------------------------------------
(* The theorems.                                                           *)

THEOREM Invariance == Spec => []Inv
<1> QED BY InitInv, NextInv, PTL DEF Spec

\* The connections, calls and requests keep to their types, and every call that was
\* begun has a connection (_call() checks _peer).
THEOREM TypeCorrect == Spec => []TypeOK
<1>1. Inv => TypeOK
  BY DEF Inv
<1> QED BY <1>1, Invariance, PTL

\* For any numbers of threads and connections, a call whose reader is gone has its
\* answer or its error (rpc.py _fail_pending, and the order of close()).
THEOREM DeadConnectionsRelease == Spec => []NobodyWaitsForTheDead
<1>1. Inv => NobodyWaitsForTheDead
  BY DEF Inv, NobodyWaitsForTheDead, TableHasUnsettled, DeadTable
<1> QED BY <1>1, Invariance, PTL

\* Where a future's timeout is a TimeoutError, the table holds calls in progress only.
THEOREM TableIsClean == Spec => []NoLeftovers
<1>1. Inv => NoLeftovers
  BY DEF Inv
<1> QED BY <1>1, Invariance, PTL

\* Only the reader and _fail_pending() settle futures, and never one that is settled:
\* both take it out of the table first.
THEOREM SettledOnce == Spec => FuturesSettleOnce
<1> DEFINE Kept == \A c \in Calls : future[c] # "none" => future'[c] = future[c]
<1>1. ASSUME Inv, [Next]_vars PROVE [Kept]_vars
  <2> USE <1>1 DEF Inv, TypeOK, ResolvesItsOwn
  <2>1. ASSUME NEW g \in Conns, SetResult(g) PROVE Kept
    BY <2>1 DEF SetResult, ReadGo
  <2>2. ASSUME NEW g, FailPending(g) PROVE Kept
    BY <2>2 DEF FailPending
  <2>3. CASE UNCHANGED future
    BY <2>3
  <2>4. ASSUME NEW k \in Closers, CloseStep(k) PROVE Kept
    BY <2>2, <2>3, <2>4 DEF CloseStep, CloseSocket, CloseRest, callVars
  <2>5. CASE MainThread
    BY <2>3, <2>4, <2>5 DEF MainThread, CheckStop, Connect, ConnectFails, HandshakeDone,
       HandshakeFails, ConnectionClosed, LetGo, Closers, callVars
  <2>6. CASE AskStop \/ StopThread
    BY <2>3, <2>4, <2>6 DEF AskStop, StopThread, ReadPeer, Closers, callVars
  <2>7. ASSUME NEW g \in Conns, ReaderThread(g) PROVE Kept
    BY <2>1, <2>2, <2>3, <2>7
       DEF ReaderThread, NotifyReturns, ReaderEnds, ReaderDies, ReadRequest, callVars
  <2>8. ASSUME NEW r \in Requests, Worker(r) PROVE Kept
    BY <2>3, <2>8 DEF Worker, Serve, Respond, callVars
  <2>9. ASSUME NEW c \in Calls, StartCall(c) \/ Caller(c) PROVE Kept
    BY <2>3, <2>9 DEF StartCall, Caller, Register, SendCall, Return, TimeOut
  <2>10. CASE Moonraker
    BY <2>3, <2>10 DEF Moonraker, LinkDrops, Notified, ReadAnswer, SendRequest, callVars
  <2> QED
    BY <1>1, <2>3, <2>5, <2>6, <2>7, <2>8, <2>9, <2>10 DEF Next, Step, vars, callVars
<1> QED BY <1>1, Invariance, PTL DEF Spec, FuturesSettleOnce
=============================================================================
