-------------------------- MODULE AgentConnection --------------------------
(***************************************************************************)
(* mcu_updater/agent/rpc.py under agent/service.py: the agent's successive *)
(* connections to Moonraker.  Over each, threads of the agent make calls   *)
(* and wait for their answers, a reader thread hands inbound requests to a *)
(* pool, and run_forever() opens the next one when it drops; stop() comes  *)
(* from the shutdown thread.                                               *)
(***************************************************************************)
EXTENDS Naturals, FiniteSets

CONSTANTS Calls,          \* the outbound calls, each made at most once
          Requests,       \* the inbound requests
          NoCall,
          MaxConns,       \* how many connections a behaviour may contain
          Workers,        \* max_workers of each connection's pool
          DisturbanceSets \* which disturbances may come together

Disturbance == {"stop_meets_connect", \* stop() while run_once() connects
                "old_python"}         \* before 3.11, where a future's timeout is
                                      \* not the built-in TimeoutError

ASSUME ConnectionAssumption ==
  /\ NoCall \notin Calls
  /\ MaxConns \in Nat
  /\ Workers \in Nat
  /\ DisturbanceSets \subseteq SUBSET Disturbance

Conns   == 1..MaxConns
NoConn  == 0
Closers == {"main", "stopper"}     \* who calls MoonrakerPeer.close()

VARIABLES
  main,     \* where run_forever() and run_once() are
  conn,     \* the connection run_once() made last
  peer,     \* the connection _peer refers to
  stopper,  \* where stop() is; it sets _stop first
  target,   \* the connection stop() found in _peer
  closing,  \* of each closer: the part of close() that comes next
  link,     \* of each connection: "none", "up", "down"
  sock,     \* of each connection: is _sock set?
  closed,   \* of each connection: its _closed event
  pool,     \* of each connection: is _pool set?
  reader,   \* of each connection: where its reader thread is
  busyWith, \* of each connection: the call its reader resolves, or waits for
  call,     \* of each call: where its caller is
  on,       \* of each call: its connection
  future,   \* of each call: "none", "answered", "failed"
  pending,  \* the calls in the connections' tables of pending ones
  req,      \* where each inbound request is
  reqOn,    \* its connection
  asks,     \* the call its handler makes
  disturbances \* what may happen besides in this behaviour; fixed

mainVars == <<main, conn, peer>>
stopVars == <<stopper, target>>
connVars == <<link, sock, closed, pool>>
readVars == <<reader, busyWith>>
callVars == <<call, on, future, pending>>
reqVars  == <<req, reqOn, asks>>
vars == <<mainVars, stopVars, closing, connVars, readVars, callVars, reqVars, disturbances>>

-----------------------------------------------------------------------------
Over == {"returned", "raised"}

TypeOK ==
  /\ main \in {"loop", "connecting", "handshake", "serving", "closing", "ended"}
  /\ conn \in Conns \cup {NoConn} /\ peer \in Conns \cup {NoConn}
  /\ stopper \in {"off", "stopping", "closing", "done"}
  /\ target \in Conns \cup {NoConn}
  /\ closing \in [Closers -> {"no", "socket", "rest"}]
  /\ link \in [Conns -> {"none", "up", "down"}]
  /\ sock \in [Conns -> BOOLEAN]
  /\ closed \in [Conns -> BOOLEAN]
  /\ pool \in [Conns -> BOOLEAN]
  /\ reader \in [Conns -> {"none", "reading", "resolving", "notifying", "ending", "dead"}]
  /\ busyWith \in [Conns -> Calls \cup {NoCall}]
  /\ call \in [Calls -> {"unborn", "picked", "registered", "waiting"} \cup Over]
  /\ on \in [Calls -> Conns \cup {NoConn}]
  /\ \A c \in Calls : call[c] # "unborn" => on[c] # NoConn
  /\ future \in [Calls -> {"none", "answered", "failed"}]
  /\ pending \subseteq Calls
  /\ req \in [Requests -> {"unsent", "inbound", "queued", "running", "answered", "unanswered"}]
  /\ reqOn \in [Requests -> Conns \cup {NoConn}]
  /\ asks \in [Requests -> Calls \cup {NoCall}]
  /\ disturbances \in DisturbanceSets

Init ==
  /\ main = "loop" /\ conn = NoConn /\ peer = NoConn
  /\ stopper = "off" /\ target = NoConn
  /\ closing = [k \in Closers |-> "no"]
  /\ link = [g \in Conns |-> "none"]
  /\ sock = [g \in Conns |-> FALSE]
  /\ closed = [g \in Conns |-> FALSE]
  /\ pool = [g \in Conns |-> FALSE]
  /\ reader = [g \in Conns |-> "none"]
  /\ busyWith = [g \in Conns |-> NoCall]
  /\ call = [c \in Calls |-> "unborn"]
  /\ on = [c \in Calls |-> NoConn]
  /\ future = [c \in Calls |-> "none"]
  /\ pending = {}
  /\ req = [r \in Requests |-> "unsent"]
  /\ reqOn = [r \in Requests |-> NoConn]
  /\ asks = [r \in Requests |-> NoCall]
  /\ disturbances \in DisturbanceSets

MainGo(from, to)     == main = from /\ main' = to
StopGo(from, to)     == stopper = from /\ stopper' = to
CloseGo(k, from, to) == closing[k] = from /\ closing' = [closing EXCEPT ![k] = to]
ReadGo(g, from, to)  == reader[g] = from /\ reader' = [reader EXCEPT ![g] = to]
CallGo(c, from, to)  == call[c] = from /\ call' = [call EXCEPT ![c] = to]
ReqGo(r, from, to)   == req[r] = from /\ req' = [req EXCEPT ![r] = to]

Stopped == stopper # "off"

-----------------------------------------------------------------------------
(* run_forever() and run_once(), on the main thread.  Of the handshake's   *)
(* own calls only the outcome is kept: they may go either way at any time. *)

\* Before the check, and woken by stop(), lies the wait of the back-off.
\* Bound: when the connections are used up the loop goes on only to end.
CheckStop ==
  /\ \/ Stopped /\ MainGo("loop", "ended") /\ UNCHANGED conn
     \/ ~Stopped /\ conn < MaxConns /\ MainGo("loop", "connecting") /\ conn' = conn + 1
  /\ UNCHANGED <<peer, stopVars, closing, connVars, readVars, callVars, reqVars>>

\* Moonraker sends nothing before the handshake, so that _peer is set in time.
Connect ==
  /\ MainGo("connecting", "handshake")
  /\ peer' = conn
  /\ link' = [link EXCEPT ![conn] = "up"]
  /\ sock' = [sock EXCEPT ![conn] = TRUE]
  /\ pool' = [pool EXCEPT ![conn] = TRUE]
  /\ reader' = [reader EXCEPT ![conn] = "reading"]
  /\ UNCHANGED <<conn, stopVars, closing, closed, busyWith, callVars, reqVars>>

ConnectFails ==
  /\ MainGo("connecting", "loop")
  /\ UNCHANGED <<conn, peer, stopVars, closing, connVars, readVars, callVars, reqVars>>

HandshakeDone ==
  /\ MainGo("handshake", "serving")
  /\ UNCHANGED <<conn, peer, stopVars, closing, connVars, readVars, callVars, reqVars>>

\* _peer is cleared before close() begins.
LetGo(from) ==
  /\ MainGo(from, "closing")
  /\ peer' = NoConn
  /\ CloseGo("main", "no", "socket")
  /\ UNCHANGED <<conn, stopVars, connVars, readVars, callVars, reqVars>>

HandshakeFails   == LetGo("handshake")
ConnectionClosed == LetGo("serving") /\ closed[conn]

-----------------------------------------------------------------------------
(* stop(), on the shutdown thread.                                         *)

AskStop ==
  /\ "stop_meets_connect" \in disturbances \/ main # "connecting"
  /\ StopGo("off", "stopping")
  /\ UNCHANGED <<mainVars, target, closing, connVars, readVars, callVars, reqVars>>

\* Wrong variant: the connection is left to its reader.
ReadPeerOnly ==
  /\ StopGo("stopping", "done")
  /\ UNCHANGED <<mainVars, target, closing, connVars, readVars, callVars, reqVars>>

ReadPeer ==
  /\ target' = peer
  /\ \/ peer = NoConn /\ StopGo("stopping", "done") /\ UNCHANGED closing
     \/ peer # NoConn /\ StopGo("stopping", "closing") /\ CloseGo("stopper", "no", "socket")
  /\ UNCHANGED <<mainVars, connVars, readVars, callVars, reqVars>>

-----------------------------------------------------------------------------
(* MoonrakerPeer.close(), which both of them may run on one connection.    *)

Closes(k) == IF k = "main" THEN conn ELSE target

\* _fail_pending() takes the whole table away at once, under _pending_lock, and so is
\* alone with what was in it while it fails that.
FailPending(g) ==
  LET lost == {c \in pending : on[c] = g} IN
  /\ pending' = pending \ lost
  /\ future' = [c \in Calls |->
                  IF c \in lost /\ future[c] = "none" THEN "failed" ELSE future[c]]

\* With the socket gone, nothing tells whether _closed is set already ...
CloseSocket(k) ==
  /\ CloseGo(k, "socket", "rest")
  /\ sock' = [sock EXCEPT ![Closes(k)] = FALSE]
  /\ link' = [link EXCEPT ![Closes(k)] = "down"]
  /\ closed' = [closed EXCEPT ![Closes(k)] = TRUE]
  /\ UNCHANGED <<mainVars, stopVars, pool, readVars, callVars, reqVars>>

\* ... nor does the pool concern the calls.
CloseRest(k) ==
  /\ CloseGo(k, "rest", "no")
  /\ FailPending(Closes(k))
  /\ pool' = [pool EXCEPT ![Closes(k)] = FALSE]
  /\ IF k = "main" THEN MainGo("closing", "loop") /\ UNCHANGED stopVars
                   ELSE StopGo("closing", "done") /\ target' = NoConn /\ UNCHANGED main
  /\ UNCHANGED <<conn, peer, link, sock, closed, readVars, call, on, reqVars>>

-----------------------------------------------------------------------------
(* call(), on whatever thread makes it.                                    *)

\* _call() checks that the connection is alive; nothing holds it so.
Pick(c) ==
  /\ call[c] = "unborn"
  /\ peer # NoConn /\ sock[peer] /\ ~closed[peer]
  /\ call' = [call EXCEPT ![c] = "picked"]
  /\ on' = [on EXCEPT ![c] = peer]

StartCall(c) ==
  /\ Pick(c)
  /\ UNCHANGED <<mainVars, stopVars, closing, connVars, readVars, future, pending, reqVars>>

Register(c) ==
  /\ CallGo(c, "picked", "registered")
  /\ pending' = pending \cup {c}
  /\ UNCHANGED <<mainVars, stopVars, closing, connVars, readVars, on, future, reqVars>>

\* A message gets out while the socket is there and Moonraker at its other end.
Writable(g) == sock[g] /\ link[g] = "up"

SendCall(c) ==
  /\ \/ /\ CallGo(c, "registered", "waiting")
        /\ Writable(on[c])
        /\ UNCHANGED pending
     \/ /\ CallGo(c, "registered", "raised")
        /\ ~Writable(on[c])
        /\ pending' = pending \ {c}
  /\ UNCHANGED <<mainVars, stopVars, closing, connVars, readVars, on, future, reqVars>>

Return(c) ==
  /\ \/ future[c] = "answered" /\ CallGo(c, "waiting", "returned")
     \/ future[c] = "failed" /\ CallGo(c, "waiting", "raised")
  /\ UNCHANGED <<mainVars, stopVars, closing, connVars, readVars, on, future, pending,
                 reqVars>>

\* `except TimeoutError` does not see an older Python's futures time out: the call
\* raises all the same, but leaves its entry behind.
TimeOut(c) ==
  /\ future[c] = "none"
  /\ CallGo(c, "waiting", "raised")
  /\ pending' = IF "old_python" \in disturbances THEN pending ELSE pending \ {c}
  /\ UNCHANGED <<mainVars, stopVars, closing, connVars, readVars, on, future, reqVars>>

-----------------------------------------------------------------------------
(* _read_loop(), on the reader thread of connection g.  What it reads may  *)
(* have been in its buffer since before the link went down.                *)

ReadRequest(r) ==
  LET g == reqOn[r] IN
  /\ req[r] = "inbound" /\ reader[g] = "reading"
  /\ \/ /\ pool[g]
        /\ ReqGo(r, "inbound", "queued")
        /\ UNCHANGED <<reader, closed>>
     \/ \* nothing can be sent any more, not even that the agent is shutting down
        /\ ~pool[g]
        /\ ReqGo(r, "inbound", "unanswered")
        /\ UNCHANGED <<reader, closed>>
     \/ \* the pool went between the check and submit(), which raises
        /\ ~pool[g]
        /\ ReqGo(r, "inbound", "unanswered")
        /\ ReadGo(g, "reading", "ending")
        /\ closed' = [closed EXCEPT ![g] = TRUE]
  /\ UNCHANGED <<mainVars, stopVars, closing, link, sock, pool, busyWith, callVars, reqOn, asks>>

\* Wrong variant: get() instead of pop().
ReadAnswerGets(c) ==
  /\ call[c] # "registered" /\ c \in pending
  /\ ReadGo(on[c], "reading", "resolving")
  /\ busyWith' = [busyWith EXCEPT ![on[c]] = c]
  /\ UNCHANGED <<mainVars, stopVars, closing, connVars, callVars, reqVars>>

\* _resolve().  An answer that finds no entry changes nothing.
ReadAnswer(c) ==
  /\ call[c] # "registered" /\ c \in pending
  /\ ReadGo(on[c], "reading", "resolving")
  /\ busyWith' = [busyWith EXCEPT ![on[c]] = c]
  /\ pending' = pending \ {c}
  /\ UNCHANGED <<mainVars, stopVars, closing, connVars, call, on, future, reqVars>>

\* set_result(), or set_exception() when Moonraker answers with an error.
SetResult(g) ==
  /\ ReadGo(g, "resolving", "reading")
  /\ busyWith' = [busyWith EXCEPT ![g] = NoCall]
  /\ \E result \in {"answered", "failed"} : future' = [future EXCEPT ![busyWith[g]] = result]
  /\ UNCHANGED <<mainVars, stopVars, closing, connVars, call, on, pending, reqVars>>

\* _on_notify() runs on this thread, and the status it emits is gathered by calls:
\* until such a call returns nothing more is read here, its answer included.
Notified(g, c) ==
  /\ ReadGo(g, "reading", "notifying")
  /\ Pick(c)
  /\ busyWith' = [busyWith EXCEPT ![g] = c]
  /\ UNCHANGED <<mainVars, stopVars, closing, connVars, future, pending, reqVars>>

NotifyReturns(g) ==
  /\ ReadGo(g, "notifying", "reading")
  /\ call[busyWith[g]] \in Over
  /\ busyWith' = [busyWith EXCEPT ![g] = NoCall]
  /\ UNCHANGED <<mainVars, stopVars, closing, connVars, callVars, reqVars>>

\* Wrong variant: _closed is left to close().
ReaderEndsSilently(g) ==
  /\ link[g] = "down"
  /\ ReadGo(g, "reading", "ending")
  /\ UNCHANGED <<mainVars, stopVars, closing, connVars, busyWith, callVars, reqVars>>

ReaderEnds(g) ==
  /\ link[g] = "down"
  /\ ReadGo(g, "reading", "ending")
  /\ closed' = [closed EXCEPT ![g] = TRUE]
  /\ UNCHANGED <<mainVars, stopVars, closing, link, sock, pool, busyWith, callVars, reqVars>>

\* Wrong variant: the pending calls are left to close().
ReaderDiesAlone(g) ==
  /\ ReadGo(g, "ending", "dead")
  /\ UNCHANGED <<mainVars, stopVars, closing, connVars, busyWith, callVars, reqVars>>

\* With the thread what it has not read is lost.
ReaderDies(g) ==
  /\ ReadGo(g, "ending", "dead")
  /\ FailPending(g)
  /\ req' = [r \in Requests |->
               IF req[r] = "inbound" /\ reqOn[r] = g THEN "unanswered" ELSE req[r]]
  /\ UNCHANGED <<mainVars, stopVars, closing, connVars, busyWith, call, on, reqOn, asks>>

-----------------------------------------------------------------------------
(* _serve_request(), on a worker of the connection's pool.                 *)

Running(g) == {r \in Requests : req[r] = "running" /\ reqOn[r] = g}

Serve(r) ==
  /\ ReqGo(r, "queued", "running")
  /\ Cardinality(Running(reqOn[r])) < Workers
  /\ \/ UNCHANGED <<asks, call, on>>
     \/ \E c \in Calls : Pick(c) /\ asks' = [asks EXCEPT ![r] = c]
  /\ UNCHANGED <<mainVars, stopVars, closing, connVars, readVars, future, pending, reqOn>>

\* Wrong variant: only RpcError becomes a response.
RespondToRpcError(r) ==
  /\ req[r] = "running" /\ (asks[r] # NoCall => call[asks[r]] \in Over)
  /\ \E outcome \in {"answered", "unanswered"} :
       /\ outcome = "answered" => Writable(reqOn[r])
       /\ ReqGo(r, "running", outcome)
  /\ asks' = [asks EXCEPT ![r] = NoCall]
  /\ UNCHANGED <<mainVars, stopVars, closing, connVars, readVars, callVars, reqOn>>

\* Whatever the handler returned or raised becomes a response.
Respond(r) ==
  /\ req[r] = "running" /\ (asks[r] # NoCall => call[asks[r]] \in Over)
  /\ ReqGo(r, "running", IF Writable(reqOn[r]) THEN "answered" ELSE "unanswered")
  /\ asks' = [asks EXCEPT ![r] = NoCall]
  /\ UNCHANGED <<mainVars, stopVars, closing, connVars, readVars, callVars, reqOn>>

-----------------------------------------------------------------------------
(* Moonraker: it may stop, and it sends requests.                          *)

LinkDrops(g) ==
  /\ link[g] = "up"
  /\ link' = [link EXCEPT ![g] = "down"]
  /\ UNCHANGED <<mainVars, stopVars, closing, sock, closed, pool, readVars, callVars, reqVars>>

SendRequest(r) ==
  /\ main \in {"handshake", "serving"} /\ link[conn] = "up"
  /\ ReqGo(r, "unsent", "inbound")
  /\ reqOn' = [reqOn EXCEPT ![r] = conn]
  /\ UNCHANGED <<mainVars, stopVars, closing, connVars, readVars, callVars, asks>>

-----------------------------------------------------------------------------
Steady == UNCHANGED disturbances

CloseStep(k) == CloseSocket(k) \/ CloseRest(k)

MainThread ==
  \/ CheckStop \/ Connect \/ ConnectFails \/ HandshakeDone \/ HandshakeFails
  \/ ConnectionClosed \/ CloseStep("main")

StopThread == ReadPeer \/ CloseStep("stopper")

ReaderThread(g) ==
  \/ SetResult(g) \/ NotifyReturns(g) \/ ReaderEnds(g) \/ ReaderDies(g)
  \/ \E r \in Requests : reqOn[r] = g /\ ReadRequest(r)

Worker(r) == Serve(r) \/ Respond(r)

Caller(c) == Register(c) \/ SendCall(c) \/ Return(c) \/ TimeOut(c)

Moonraker ==
  \/ \E g \in Conns : LinkDrops(g) \/ \E c \in Calls : Notified(g, c)
  \/ \E c \in Calls : ReadAnswer(c)
  \/ \E r \in Requests : SendRequest(r)

Step ==
  \/ MainThread \/ AskStop \/ StopThread
  \/ \E g \in Conns : ReaderThread(g)
  \/ \E r \in Requests : Worker(r)
  \/ \E c \in Calls : StartCall(c) \/ Caller(c)
  \/ Moonraker

Next == Steady /\ Step

Spec == Init /\ [][Next]_vars

\* Every thread runs, and every wait of call() has a timeout.  Nothing is asked of
\* Moonraker, of callers, of signals or of the link.
Fairness ==
  /\ WF_vars(Steady /\ MainThread) /\ WF_vars(Steady /\ StopThread)
  /\ \A g \in Conns : WF_vars(Steady /\ ReaderThread(g))
  /\ \A r \in Requests : WF_vars(Steady /\ Worker(r))
  /\ \A c \in Calls : WF_vars(Steady /\ Caller(c))

FairSpec == Spec /\ Fairness

-----------------------------------------------------------------------------
\* A future is settled once: the reader with an answer, the reader at its end, run_once()
\* and stop() may all come upon it, and a second set_result() would raise in the reader
\* and take the connection down (rpc.py _resolve, _fail_pending).
FuturesSettleOnce ==
  [][\A c \in Calls : future[c] # "none" => future'[c] = future[c]]_vars

\* A call in flight when its connection dies does not sit out its timeout: when the
\* reader is gone its future is settled; though _call() looked at a connection that may
\* have been lost when call() registered.
NobodyWaitsForTheDead ==
  \A c \in Calls : call[c] = "waiting" /\ reader[on[c]] = "dead" => future[c] # "none"

\* Only calls in progress are in the pending table: neither a timeout that races the
\* answer nor a send that fails leaves an entry, for the life of the connection.  Not on
\* an older Python.
NoLeftovers ==
  "old_python" \notin disturbances =>
    \A c \in pending : call[c] \in {"registered", "waiting"}

\* Every request Moonraker sends is answered unless the connection goes, whatever
\* occupies the reader and the workers: Moonraker awaits the answer without a deadline.
RequestsAreAnswered ==
  \A r \in Requests :
    req[r] = "inbound" ~>
      req[r] = "answered" \/ (req[r] = "unanswered" /\ link[reqOn[r]] = "down")

\* When Moonraker goes away run_once() returns, so that the agent can connect again.
LossIsNoticed ==
  (main = "serving" /\ link[conn] = "down") ~> (main = "loop")

\* stop() ends run_forever(), unless it comes while run_once() is connecting, when it
\* finds no connection to close and the next one is served as if nothing had been asked.
StopEnds ==
  "stop_meets_connect" \notin disturbances => (Stopped ~> (main = "ended"))
=============================================================================
