----------------------------- MODULE RedisClient -----------------------------
(***************************************************************************)
(* internal/redisagg/client.go: one connection shared by every goroutine   *)
(* of the process under a mutex, dialled and authenticated on demand, and  *)
(* dropped on any error.  RESP replies carry no request number: the only   *)
(* thing that pairs a reply with its request is that the connection holds  *)
(* no other, so a reply left unread would answer the next caller.          *)
(***************************************************************************)
EXTENDS Naturals, Sequences, FiniteSets

CONSTANTS Callers,      \* goroutines that call Do
          NoCaller,
          UsePassword,  \* REDIS_PASSWORD is set
          MaxCalls,     \* bound: calls of Do per caller
          MaxConns      \* bound: connections dialled

ASSUME ClientAssumption ==
  /\ NoCaller \notin Callers
  /\ UsePassword \in BOOLEAN
  /\ MaxCalls \in Nat /\ MaxConns \in Nat

VARIABLES mu,       \* the holder of Client.mu
          conn,     \* Client.conn: a connection, or 0 for nil
          dialled,  \* how many connections there have been
          pc,       \* pc[c]: where caller c is in Do
          calls,    \* calls[c]: how many times c has called
          wire,     \* wire[k]: what the server has still to read on k
          answers,  \* answers[k]: what the client has still to read on k
          authed,   \* connections the server has authenticated
          ran,      \* ran[r]: how often the server has run r
          heard     \* heard[r]: the request whose reply Do returned for r

client == <<mu, conn, dialled, pc, calls, heard>>
server == <<authed, ran>>
vars == <<client, wire, answers, server>>

Conns == 1..MaxConns
Requests == [caller : Callers, n : 1..MaxCalls]
AuthMsg == [caller |-> NoCaller, n |-> 0]
NoAnswer == [caller |-> NoCaller, n |-> 1]
Failure == [caller |-> NoCaller, n |-> 2]

Request(c) == [caller |-> c, n |-> calls[c]]

Waiting == {"dial", "auth", "authSent", "ready", "sent"}    \* inside the mutex

TypeOK ==
  /\ mu \in Callers \union {NoCaller}
  /\ conn \in Conns \union {0} /\ dialled \in Conns \union {0}
  /\ pc \in [Callers -> Waiting \union {"idle", "lock"}]
  /\ calls \in [Callers -> 0..MaxCalls]
  /\ \A k \in Conns :
       /\ wire[k] \in Seq(Requests \union {AuthMsg})
       /\ answers[k] \in Seq([to : Requests \union {AuthMsg}, ok : BOOLEAN])
  /\ authed \subseteq Conns /\ ran \in [Requests -> Nat]
  /\ heard \in [Requests -> Requests \union {NoAnswer, Failure}]

Init == /\ mu = NoCaller /\ conn = 0 /\ dialled = 0
        /\ pc = [c \in Callers |-> "idle"]
        /\ calls = [c \in Callers |-> 0]
        /\ wire = [k \in Conns |-> <<>>]
        /\ answers = [k \in Conns |-> <<>>]
        /\ authed = {} /\ ran = [r \in Requests |-> 0]
        /\ heard = [r \in Requests |-> NoAnswer]

-----------------------------------------------------------------------------
GoTo(c, label) == pc' = [pc EXCEPT ![c] = label]

-----------------------------------------------------------------------------
\* Faulty variants, each a bug the client could have had; no action uses them.
StillOpen == conn                            \* no c.close() on an error
KeepsLock == mu                              \* no deferred unlock
Resends(c) ==                                \* one retry on a new connection
  /\ conn' = 0
  /\ IF pc[c] = "sent" /\ dialled < MaxConns
     THEN GoTo(c, "dial") /\ UNCHANGED <<mu, heard>>
     ELSE /\ mu' = NoCaller /\ GoTo(c, "idle")
          /\ heard' = [heard EXCEPT ![Request(c)] = Failure]
  /\ UNCHANGED <<dialled, calls>>
-----------------------------------------------------------------------------

\* close() leaves no connection behind.
Closed == 0

Unlocked == NoCaller

\* Do returns an error, with the connection closed and the mutex released.
ReturnError(c) ==
  /\ conn' = Closed
  /\ mu' = Unlocked
  /\ GoTo(c, "idle")
  /\ heard' = [heard EXCEPT ![Request(c)] = Failure]
  /\ UNCHANGED <<dialled, calls>>

Call(c) ==
  /\ pc[c] = "idle" /\ calls[c] < MaxCalls
  /\ calls' = [calls EXCEPT ![c] = @ + 1]
  /\ GoTo(c, "lock")
  /\ UNCHANGED <<mu, conn, dialled, heard, wire, answers, server>>

\* c.mu.Lock(), then ensureConn finds a connection or has to dial.
Lock(c) ==
  /\ pc[c] = "lock" /\ mu = NoCaller
  /\ mu' = c
  /\ GoTo(c, IF conn = 0 THEN "dial" ELSE "ready")
  /\ UNCHANGED <<conn, dialled, calls, heard, wire, answers, server>>

Dial(c) ==
  /\ pc[c] = "dial" /\ dialled < MaxConns
  /\ dialled' = dialled + 1
  /\ conn' = dialled + 1
  /\ GoTo(c, IF UsePassword THEN "auth" ELSE "ready")
  /\ UNCHANGED <<mu, calls, heard, wire, answers, server>>

\* conn.Write of AUTH, or of the caller's own command.
Write(c) ==
  /\ \/ /\ pc[c] = "auth"
        /\ wire' = [wire EXCEPT ![conn] = Append(@, AuthMsg)]
        /\ GoTo(c, "authSent")
     \/ /\ pc[c] = "ready"
        /\ wire' = [wire EXCEPT ![conn] = Append(@, Request(c))]
        /\ GoTo(c, "sent")
  /\ UNCHANGED <<mu, conn, dialled, calls, heard, answers, server>>

\* readReply takes whatever reply comes next; a '-' reply is an error.
ReadReply(c) ==
  /\ pc[c] \in {"authSent", "sent"} /\ answers[conn] # <<>>
  /\ answers' = [answers EXCEPT ![conn] = Tail(@)]
  /\ \/ /\ ~Head(answers[conn]).ok
        /\ ReturnError(c)
     \/ /\ Head(answers[conn]).ok /\ pc[c] = "authSent"
        /\ GoTo(c, "ready")
        /\ UNCHANGED <<mu, conn, dialled, calls, heard>>
     \/ /\ Head(answers[conn]).ok /\ pc[c] = "sent"
        /\ heard' = [heard EXCEPT ![Request(c)] = Head(answers[conn]).to]
        /\ mu' = NoCaller
        /\ GoTo(c, "idle")
        /\ UNCHANGED <<conn, dialled, calls>>
  /\ UNCHANGED <<wire, server>>

\* dial, Write or readReply fails: no route, deadline passed, connection lost.
IOError(c) ==
  /\ pc[c] \in Waiting
  /\ ReturnError(c)
  /\ UNCHANGED <<wire, answers, server>>

-----------------------------------------------------------------------------
\* The server, and the network between.

Reply(k, ok) ==
  /\ wire' = [wire EXCEPT ![k] = Tail(@)]
  /\ answers' = [answers EXCEPT ![k] = Append(@, [to |-> Head(wire[k]), ok |-> ok])]
  /\ UNCHANGED client

Serve(k) ==
  /\ wire[k] # <<>>
  /\ \/ Head(wire[k]) = AuthMsg /\ Reply(k, TRUE)
        /\ authed' = authed \union {k} /\ UNCHANGED ran
     \/ Head(wire[k]) # AuthMsg /\ (UsePassword => k \in authed) /\ Reply(k, TRUE)
        /\ ran' = [ran EXCEPT ![Head(wire[k])] = @ + 1] /\ UNCHANGED authed
     \/ Reply(k, FALSE) /\ UNCHANGED server

\* A connection breaks: what was on its way is lost.  A connection that the client
\* has closed may still have a request on its way to the server.
Break(k) ==
  /\ k <= dialled /\ (wire[k] # <<>> \/ answers[k] # <<>>)
  /\ wire' = [wire EXCEPT ![k] = <<>>]
  /\ answers' = [answers EXCEPT ![k] = <<>>]
  /\ UNCHANGED <<client, server>>

Finished ==
  /\ \A c \in Callers : pc[c] = "idle" /\ calls[c] = MaxCalls
  /\ UNCHANGED vars

Proceed(c) == Dial(c) \/ Write(c) \/ ReadReply(c) \/ IOError(c)

Next == \/ \E c \in Callers : Call(c) \/ Lock(c) \/ Proceed(c)
        \/ \E k \in Conns : Serve(k) \/ Break(k)
        \/ Finished

Spec == Init /\ [][Next]_vars

\* Deadlines bound every dial, write and read, and sync.Mutex starves nobody.
Fairness == \A c \in Callers : SF_vars(Lock(c)) /\ WF_vars(Proceed(c))

FairSpec == Spec /\ Fairness

-----------------------------------------------------------------------------

\* Do is an at-most-once call: the server never runs a request twice, whatever fails,
\* and a reply it returns is the reply of this very request, never one that an
\* earlier caller gave up waiting for.
Opened == {r \in Requests : r.n <= calls[r.caller]}

Rpc == INSTANCE Rpc WITH opened <- Opened

ImplementsRpc == Rpc!RpcSpec

\* No command goes out on a connection whose AUTH has not succeeded, not even
\* after an AUTH that failed or timed out half way.
AuthBeforeCommand ==
  UsePassword =>
    \A k \in Conns, r \in Requests : (\E i \in DOMAIN wire[k] : wire[k][i] = r) => k \in authed

\* A connection that a caller finds in the pool has nothing left on it.
PooledIsClean ==
  (mu = NoCaller /\ conn # 0) => wire[conn] = <<>> /\ answers[conn] = <<>>

\* Nobody waits for ever: every call of Do returns.
EveryCallReturns == \A c \in Callers : pc[c] = "lock" ~> pc[c] = "idle"

=============================================================================
