------------------------- MODULE RedisClientProofs -------------------------
(***************************************************************************)
(* Proofs about RedisClient: any number of goroutines, calls and broken    *)
(* connections, with a password or without one.                            *)
(***************************************************************************)
EXTENDS RedisClient, TLAPS

Messages == Requests \union {AuthMsg}

Types == /\ mu \in Callers \union {NoCaller}
         /\ conn \in Conns \union {0} /\ dialled \in Conns \union {0}
         /\ pc \in [Callers -> Waiting \union {"idle", "lock"}]
         /\ calls \in [Callers -> 0..MaxCalls]
         /\ wire \in [Conns -> Seq(Messages)]
         /\ answers \in [Conns -> Seq([to : Messages, ok : BOOLEAN])]
         /\ authed \subseteq Conns /\ ran \in [Requests -> Nat]
         /\ heard \in [Requests -> Requests \union {NoAnswer, Failure}]

Quiet(k) == wire[k] = <<>> /\ answers[k] = <<>>

\* At most the message m is on its way on connection k, or its reply on the way back.
Awaits(k, m) ==
  \/ Quiet(k)
  \/ wire[k] = <<m>> /\ answers[k] = <<>>
  \/ wire[k] = <<>> /\ \E ok \in BOOLEAN : answers[k] = <<[to |-> m, ok |-> ok]>>

\* No connection, open or given up, ever carries two messages.
OneAtATime == \A k \in Conns : \E m \in Messages : Awaits(k, m)

\* A caller inside Do, by the line it is at.
CallerAt(c) ==
  /\ pc[c] \in Waiting <=> mu = c
  /\ pc[c] # "idle" => calls[c] > 0 /\ heard[Request(c)] = NoAnswer
  /\ pc[c] = "dial" => conn = 0
  /\ pc[c] \in Waiting \ {"dial"} => conn # 0
  /\ pc[c] \in {"auth", "ready"} => Quiet(conn)
  /\ pc[c] = "authSent" => Awaits(conn, AuthMsg)
  /\ pc[c] = "sent" => Awaits(conn, Request(c))
  /\ (pc[c] \in {"ready", "sent"} /\ UsePassword) => conn \in authed

CallerInv == \A c \in Callers : CallerAt(c)

\* The connection between two calls.
PoolInv == (mu = NoCaller /\ conn # 0) => Quiet(conn) /\ (UsePassword => conn \in authed)

NewIsQuiet == conn <= dialled /\ \A k \in Conns : k > dialled => Quiet(k)

\* A positive reply is the server's word.
AnswersAreTrue ==
  \A k \in Conns :
    /\ answers[k] = <<[to |-> AuthMsg, ok |-> TRUE]>> => k \in authed
    /\ \A r \in Requests : answers[k] = <<[to |-> r, ok |-> TRUE]>> => ran[r] > 0

\* A request that is on its way was opened, never ran, and is on its way once.
WrittenOnce ==
  \A r \in Requests :
    /\ \A k \in Conns : wire[k] = <<r>> =>
         /\ r \in Opened /\ ran[r] = 0 /\ (UsePassword => k \in authed)
         /\ \A j \in Conns : wire[j] = <<r>> => j = k
    /\ ran[r] > 0 => r \in Opened
    /\ r \notin Opened => heard[r] = NoAnswer

NotYetWritten ==
  \A c \in Callers :
    pc[c] \in {"lock", "dial", "auth", "authSent", "ready"} =>
      ran[Request(c)] = 0 /\ \A k \in Conns : wire[k] # <<Request(c)>>

CInv == /\ Types /\ OneAtATime /\ CallerInv /\ PoolInv /\ NewIsQuiet
        /\ AnswersAreTrue /\ WrittenOnce /\ NotYetWritten

-----------------------------------------------------------------------------

\* AUTH is nobody's request.
LEMMA AuthIsNoRequest == AuthMsg \notin Requests
BY ClientAssumption DEF AuthMsg, Requests

\* The request of a caller that has called is one of the requests, and was opened.
LEMMA RequestType ==
  ASSUME Types, NEW c \in Callers, calls[c] > 0
  PROVE  Request(c) \in Requests /\ Request(c) \in Opened
BY ClientAssumption DEF Types, Request, Requests, Opened

\* Nothing is connected, called or sent at the start.
LEMMA InitCInv == Init => CInv
<1> SUFFICES ASSUME Init PROVE CInv  OBVIOUS
<1>1. Types
  BY ClientAssumption DEF Init, Types, Waiting
<1>2. OneAtATime /\ CallerInv /\ PoolInv /\ NewIsQuiet
  BY ClientAssumption DEF Init, OneAtATime, CallerInv, CallerAt, PoolInv, NewIsQuiet, Awaits, Quiet,
     Messages, Waiting, Conns
<1>3. AnswersAreTrue /\ WrittenOnce /\ NotYetWritten
  BY DEF Init, AnswersAreTrue, WrittenOnce, NotYetWritten
<1> QED  BY <1>1, <1>2, <1>3 DEF CInv

\* A caller outside the mutex is not concerned by what its holder does.
LEMMA Bystander ==
  ASSUME CInv, NEW c \in Callers, NEW x \in Callers, x # c,
         mu \in {NoCaller, c}, mu' \in {NoCaller, c},
         pc'[x] = pc[x], calls'[x] = calls[x],
         heard'[Request(x)] = heard[Request(x)]
  PROVE  CallerAt(x)'
<1>1. pc[x] \notin Waiting /\ mu' # x
  BY ClientAssumption DEF CInv, CallerInv, CallerAt
<1>2. Request(x)' = Request(x)
  BY DEF Request
<1> QED  BY <1>1, <1>2 DEF CInv, CallerInv, CallerAt, Waiting

\* A call opens the next request of its caller.
LEMMA CallCInv ==
  ASSUME CInv, NEW c \in Callers, Call(c)
  PROVE  CInv'
<1>1. /\ pc[c] = "idle" /\ calls[c] < MaxCalls
      /\ calls' = [calls EXCEPT ![c] = @ + 1]
      /\ pc' = [pc EXCEPT ![c] = "lock"]
      /\ UNCHANGED <<mu, conn, dialled, heard, wire, answers, authed, ran>>
  BY DEF Call, GoTo, server
<1>2. Types'
  <2>1. calls' \in [Callers -> 0..MaxCalls]
    BY <1>1, ClientAssumption DEF CInv, Types
  <2>2. pc' \in [Callers -> Waiting \union {"idle", "lock"}]
    BY <1>1 DEF CInv, Types
  <2> QED  BY <1>1, <2>1, <2>2 DEF CInv, Types
<1>3. Opened \subseteq Opened'
  BY <1>1, ClientAssumption DEF CInv, Types, Opened, Requests
<1>4. Request(c)' \in Requests /\ Request(c)' \notin Opened /\ Request(c)' \in Opened'
  BY <1>1, ClientAssumption DEF CInv, Types, Request, Requests, Opened
<1>5. \A r \in Requests : r # Request(c)' => (r \in Opened' <=> r \in Opened)
  BY <1>1, ClientAssumption DEF CInv, Types, Opened, Requests, Request
<1>6. \A x \in Callers : x # c => Request(x)' = Request(x) /\ pc'[x] = pc[x] /\ calls'[x] = calls[x]
  BY <1>1 DEF CInv, Types, Request
<1>7. pc'[c] = "lock" /\ calls'[c] > 0
  BY <1>1, ClientAssumption DEF CInv, Types
<1>8. OneAtATime' /\ PoolInv' /\ NewIsQuiet' /\ AnswersAreTrue'
  BY <1>1 DEF CInv, OneAtATime, PoolInv, NewIsQuiet, AnswersAreTrue, Awaits, Quiet
<1>9. WrittenOnce'
  BY <1>1, <1>3, <1>4, <1>5 DEF CInv, WrittenOnce
<1>10. NotYetWritten'
  <2>1. ran[Request(c)'] = 0 /\ \A k \in Conns : wire[k] # <<Request(c)'>>
    BY <1>4 DEF CInv, Types, WrittenOnce
  <2> QED  BY <1>1, <1>6, <2>1 DEF CInv, NotYetWritten
<1>11. CallerInv'
  <2> SUFFICES ASSUME NEW x \in Callers PROVE CallerAt(x)'
    BY DEF CallerInv
  <2>1. CASE x = c
    <3>1. mu # c
      BY <1>1 DEF CInv, CallerInv, CallerAt, Waiting
    <3>2. heard'[Request(c)'] = NoAnswer
      BY <1>1, <1>4 DEF CInv, WrittenOnce
    <3> QED  BY <1>1, <1>7, <2>1, <3>1, <3>2 DEF CallerAt, Waiting
  <2>2. CASE x # c
    BY <1>1, <1>6, <2>2 DEF CInv, CallerInv, CallerAt, Awaits, Quiet
  <2> QED  BY <2>1, <2>2
<1> QED  BY <1>2, <1>8, <1>9, <1>10, <1>11 DEF CInv

\* The mutex goes to one caller, with the connection as the last one left it.
LEMMA LockCInv ==
  ASSUME CInv, NEW c \in Callers, Lock(c)
  PROVE  CInv'
<1>1. /\ pc[c] = "lock" /\ mu = NoCaller /\ mu' = c
      /\ pc' = [pc EXCEPT ![c] = IF conn = 0 THEN "dial" ELSE "ready"]
      /\ UNCHANGED <<conn, dialled, calls, heard, wire, answers, authed, ran>>
  BY DEF Lock, GoTo, server
<1>2. Types'
  BY <1>1 DEF CInv, Types, Waiting
<1>3. OneAtATime' /\ NewIsQuiet' /\ AnswersAreTrue' /\ WrittenOnce'
  BY <1>1 DEF CInv, OneAtATime, NewIsQuiet, AnswersAreTrue, WrittenOnce, Awaits, Quiet, Opened
<1>4. PoolInv'
  BY <1>1, ClientAssumption DEF PoolInv
<1>5. NotYetWritten'
  BY <1>1 DEF CInv, Types, NotYetWritten, Request
<1>6. CallerInv'
  <2> SUFFICES ASSUME NEW x \in Callers PROVE CallerAt(x)'
    BY DEF CallerInv
  <2>1. CASE x = c
    BY <1>1, <2>1 DEF CInv, Types, CallerInv, CallerAt, PoolInv, Quiet, Waiting, Request
  <2>2. CASE x # c
    BY <1>1, <2>2, Bystander DEF CInv, Types, Request
  <2> QED  BY <2>1, <2>2
<1> QED  BY <1>2, <1>3, <1>4, <1>5, <1>6 DEF CInv

\* A new connection has nothing on it.
LEMMA DialCInv ==
  ASSUME CInv, NEW c \in Callers, Dial(c)
  PROVE  CInv'
<1>1. /\ pc[c] = "dial" /\ dialled < MaxConns
      /\ dialled' = dialled + 1 /\ conn' = dialled + 1
      /\ pc' = [pc EXCEPT ![c] = IF UsePassword THEN "auth" ELSE "ready"]
      /\ UNCHANGED <<mu, calls, heard, wire, answers, authed, ran>>
  BY DEF Dial, GoTo, server
<1>2. mu = c /\ dialled \in Nat /\ conn' \in Conns /\ conn' > dialled
  BY <1>1, ClientAssumption DEF CInv, Types, CallerInv, CallerAt, Waiting, Conns
<1>3. Types'
  BY <1>1, <1>2 DEF CInv, Types, Waiting
<1>4. OneAtATime' /\ AnswersAreTrue' /\ WrittenOnce'
  BY <1>1 DEF CInv, OneAtATime, AnswersAreTrue, WrittenOnce, Awaits, Quiet, Opened
<1>5. PoolInv'
  BY <1>1, <1>2, ClientAssumption DEF PoolInv
<1>6. NotYetWritten'
  BY <1>1 DEF CInv, Types, NotYetWritten, Request
<1>7. Quiet(conn)'
  BY <1>1, <1>2 DEF CInv, NewIsQuiet, Quiet
<1>8. NewIsQuiet'
  BY <1>1, <1>2 DEF CInv, NewIsQuiet, Quiet, Conns
<1>9. CallerInv'
  <2> SUFFICES ASSUME NEW x \in Callers PROVE CallerAt(x)'
    BY DEF CallerInv
  <2>1. CASE x = c
    BY <1>1, <1>2, <1>7, <2>1 DEF CInv, Types, CallerInv, CallerAt, Waiting, Request, Conns
  <2>2. CASE x # c
    BY <1>1, <1>2, <2>2, Bystander DEF CInv, Types
  <2> QED  BY <2>1, <2>2
<1> QED  BY <1>3, <1>4, <1>5, <1>6, <1>8, <1>9 DEF CInv

\* What is written goes out alone, and a command for the first time.
LEMMA WriteCInv ==
  ASSUME CInv, NEW c \in Callers, Write(c)
  PROVE  CInv'
<1> DEFINE m == IF pc[c] = "auth" THEN AuthMsg ELSE Request(c)
<1>1. /\ pc[c] \in {"auth", "ready"} /\ mu = c /\ conn # 0 /\ conn \in Conns
      /\ Quiet(conn) /\ calls[c] > 0
  BY DEF Write, CInv, Types, CallerInv, CallerAt, Waiting
<1>2. m \in Messages /\ Request(c) \in Requests /\ Request(c) \in Opened
  BY <1>1, RequestType DEF Messages, CInv
<1>3. wire' = [wire EXCEPT ![conn] = <<m>>]
  <2>1. wire[conn] = <<>>
    BY <1>1 DEF Quiet
  <2>2. Append(<<>>, m) = <<m>>
    OBVIOUS
  <2> QED  BY <1>1, <2>1, <2>2 DEF Write
<1>4. /\ pc' = [pc EXCEPT ![c] = IF pc[c] = "auth" THEN "authSent" ELSE "sent"]
      /\ UNCHANGED <<mu, conn, dialled, calls, heard, answers, authed, ran>>
  BY <1>1 DEF Write, GoTo, server
<1>5. Types'
  <2>1. <<m>> \in Seq(Messages)
    BY <1>2
  <2> HIDE DEF m
  <2> QED  BY <1>1, <1>3, <1>4, <2>1 DEF CInv, Types, Waiting
<1>6. conn' = conn /\ wire'[conn] = <<m>> /\ answers'[conn] = <<>>
  BY <1>1, <1>3, <1>4 DEF Quiet, CInv, Types
<1>7. OneAtATime'
  <2> SUFFICES ASSUME NEW k \in Conns PROVE \E x \in Messages : Awaits(k, x)'
    BY DEF OneAtATime
  <2>1. CASE k = conn
    BY <1>2, <1>6, <2>1 DEF Awaits
  <2>2. CASE k # conn
    <3>1. wire'[k] = wire[k] /\ answers'[k] = answers[k]
      BY <1>3, <1>4, <2>2 DEF CInv, Types
    <3> QED  BY <3>1 DEF CInv, OneAtATime, Awaits, Quiet
  <2> QED  BY <2>1, <2>2
<1>8. PoolInv'
  BY <1>1, <1>4, ClientAssumption DEF PoolInv
<1>9. NewIsQuiet'
  BY <1>1, <1>3, <1>4 DEF CInv, Types, NewIsQuiet, Quiet, Conns
<1>10. AnswersAreTrue'
  BY <1>4 DEF CInv, AnswersAreTrue
<1>11. pc[c] = "ready" => /\ m = Request(c) /\ ran[Request(c)] = 0
                          /\ \A k \in Conns : wire[k] # <<Request(c)>>
                          /\ (UsePassword => conn \in authed)
  BY <1>1 DEF CInv, CallerInv, CallerAt, NotYetWritten
<1>12. WrittenOnce'
  <2> SUFFICES ASSUME NEW r \in Requests, NEW k \in Conns, wire'[k] = <<r>>
               PROVE  /\ r \in Opened /\ ran[r] = 0 /\ (UsePassword => k \in authed)
                      /\ \A j \in Conns : wire'[j] = <<r>> => j = k
    BY <1>4 DEF CInv, WrittenOnce, Opened
  <2>1. \A j \in Conns : wire'[j] = IF j = conn THEN <<m>> ELSE wire[j]
    BY <1>1, <1>3 DEF CInv, Types
  <2>2. CASE pc[c] = "auth"
    <3>1. <<m>> # <<r>>
      BY <2>2, AuthIsNoRequest
    <3> QED  BY <2>1, <3>1 DEF CInv, WrittenOnce
  <2>3. CASE pc[c] = "ready"
    <3>1. CASE r = Request(c)
      BY <1>2, <1>11, <2>1, <2>3, <3>1
    <3>2. CASE r # Request(c)
      <4>1. <<m>> # <<r>>
        BY <1>11, <2>3, <3>2
      <4> QED  BY <2>1, <4>1 DEF CInv, WrittenOnce
    <3> QED  BY <3>1, <3>2
  <2> QED  BY <1>1, <2>2, <2>3
<1>13. NotYetWritten'
  <2> SUFFICES ASSUME NEW x \in Callers,
                      pc'[x] \in {"lock", "dial", "auth", "authSent", "ready"}
               PROVE  ran[Request(x)] = 0 /\ \A k \in Conns : wire'[k] # <<Request(x)>>
    BY <1>4 DEF NotYetWritten, Request
  <2>1. /\ pc[x] \in {"lock", "dial", "auth", "authSent", "ready"}
        /\ x = c => pc[c] = "auth"
    BY <1>1, <1>4 DEF CInv, Types
  <2>2. m # Request(x)
    <3>1. calls[x] > 0
      BY <2>1 DEF CInv, CallerInv, CallerAt
    <3>2. Request(x) \in Requests
      BY <3>1, RequestType DEF CInv
    <3>3. x # c => Request(x) # Request(c)
      BY DEF Request
    <3> QED  BY <2>1, <3>2, <3>3, AuthIsNoRequest
  <2> HIDE DEF m
  <2>3. <<m>> # <<Request(x)>>
    BY <2>2
  <2>4. ran[Request(x)] = 0 /\ \A k \in Conns : wire[k] # <<Request(x)>>
    BY <2>1 DEF CInv, NotYetWritten
  <2> QED  BY <1>1, <1>3, <2>3, <2>4 DEF CInv, Types
<1>14. CallerInv'
  <2> SUFFICES ASSUME NEW x \in Callers PROVE CallerAt(x)'
    BY DEF CallerInv
  <2>1. CASE x = c
    <3>1. Request(c)' = Request(c)
      BY <1>4 DEF Request
    <3>2. Awaits(conn, AuthMsg)' \/ pc[c] # "auth"
      BY <1>6 DEF Awaits
    <3>3. Awaits(conn, Request(c))' \/ pc[c] # "ready"
      BY <1>1, <1>6, <3>1 DEF Awaits
    <3>4. heard[Request(c)] = NoAnswer
      BY <1>1 DEF CInv, CallerInv, CallerAt
    <3>5. pc'[c] = IF pc[c] = "auth" THEN "authSent" ELSE "sent"
      BY <1>4 DEF CInv, Types
    <3> QED  BY <1>1, <1>4, <1>11, <2>1, <3>1, <3>2, <3>3, <3>4, <3>5 DEF CallerAt, Waiting
  <2>2. CASE x # c
    BY <1>1, <1>4, <2>2, Bystander DEF CInv, Types
  <2> QED  BY <2>1, <2>2
<1> QED  BY <1>5, <1>7, <1>8, <1>9, <1>10, <1>12, <1>13, <1>14 DEF CInv

-----------------------------------------------------------------------------

\* What has been read leaves the connection with no reply.
LEMMA EmptiedType ==
  ASSUME Types, NEW k \in Conns
  PROVE  [answers EXCEPT ![k] = <<>>] \in [Conns -> Seq([to : Messages, ok : BOOLEAN])]
<1> DEFINE S == [to : Messages, ok : BOOLEAN]
<1>1. answers \in [Conns -> Seq(S)]
  BY DEF Types
<1> HIDE DEF S
<1>2. <<>> \in Seq(S)
  OBVIOUS
<1>3. [answers EXCEPT ![k] = <<>>] \in [Conns -> Seq(S)]
  BY <1>1, <1>2
<1> QED  BY <1>3 DEF S

\* Nor does it take from what a positive reply says.
LEMMA EmptiedIsTrue ==
  ASSUME AnswersAreTrue, UNCHANGED <<authed, ran>>,
         \A k \in Conns : answers'[k] \in {answers[k], <<>>}
  PROVE  AnswersAreTrue'
<1>1. \A x : <<x>> # <<>>
  OBVIOUS
<1> QED  BY <1>1 DEF AnswersAreTrue

\* A caller that gives up leaves no connection to the next one.
LEMMA ReturnErrorCInv ==
  ASSUME CInv, NEW c \in Callers, pc[c] \in Waiting, ReturnError(c),
         UNCHANGED <<wire, authed, ran>>,
         \/ answers' = answers
         \/ conn \in Conns /\ answers' = [answers EXCEPT ![conn] = <<>>]
  PROVE  CInv'
<1>1. /\ conn' = 0 /\ mu' = NoCaller
      /\ pc' = [pc EXCEPT ![c] = "idle"]
      /\ heard' = [heard EXCEPT ![Request(c)] = Failure]
      /\ UNCHANGED <<dialled, calls, wire, authed, ran>>
  BY DEF ReturnError, Closed, Unlocked, GoTo
<1>2. mu = c /\ Request(c) \in Requests /\ Request(c) \in Opened
  BY RequestType DEF CInv, CallerInv, CallerAt, Waiting
<1>3. \A k \in Conns : answers'[k] = answers[k] \/ answers'[k] = <<>>
  BY DEF CInv, Types
<1>4. Types'
  <2>1. answers' \in [Conns -> Seq([to : Messages, ok : BOOLEAN])]
    BY EmptiedType DEF CInv, Types
  <2> QED  BY <1>1, <2>1 DEF CInv, Types
<1>5. OneAtATime'
  BY <1>1, <1>3 DEF CInv, OneAtATime, Awaits, Quiet
<1>6. PoolInv' /\ AnswersAreTrue'
  BY <1>1, <1>3, EmptiedIsTrue DEF CInv, PoolInv
<1>7. NewIsQuiet'
  BY <1>1, <1>3 DEF CInv, Types, NewIsQuiet, Quiet, Conns
<1>8. WrittenOnce'
  BY <1>1, <1>2 DEF CInv, Types, WrittenOnce, Opened
<1>9. NotYetWritten'
  BY <1>1 DEF CInv, Types, NotYetWritten, Request
<1>10. CallerInv'
  <2> SUFFICES ASSUME NEW x \in Callers PROVE CallerAt(x)'
    BY DEF CallerInv
  <2>1. CASE x = c
    BY <1>1, <2>1, ClientAssumption DEF CInv, Types, CallerAt, Waiting
  <2>2. CASE x # c
    <3>1. Request(x) # Request(c)
      BY <2>2 DEF Request
    <3>2. heard'[Request(x)] = heard[Request(x)]
      BY <1>1, <3>1 DEF CInv, Types
    <3> QED  BY <1>1, <1>2, <2>2, <3>2, Bystander DEF CInv, Types
  <2> QED  BY <2>1, <2>2
<1> QED  BY <1>4, <1>5, <1>6, <1>7, <1>8, <1>9, <1>10 DEF CInv

\* Any error on the connection gives it up and fails the call.
LEMMA IOErrorCInv ==
  ASSUME CInv, NEW c \in Callers, IOError(c)
  PROVE  CInv'
BY ReturnErrorCInv DEF IOError, server

\* A reply that is read is the only one, and answers what this caller has written.
LEMMA ReplyIsMine ==
  ASSUME CInv, NEW c \in Callers, ReadReply(c)
  PROVE  /\ pc[c] \in {"authSent", "sent"} /\ mu = c /\ conn \in Conns
         /\ wire[conn] = <<>>
         /\ \E ok \in BOOLEAN :
              answers[conn] = <<[to |-> IF pc[c] = "authSent" THEN AuthMsg ELSE Request(c),
                                 ok |-> ok]>>
         /\ answers' = [answers EXCEPT ![conn] = <<>>]
<1>1. /\ pc[c] \in {"authSent", "sent"} /\ answers[conn] # <<>>
      /\ answers' = [answers EXCEPT ![conn] = Tail(answers[conn])]
  BY DEF ReadReply
<1>2. mu = c /\ conn \in Conns
  BY <1>1 DEF CInv, Types, CallerInv, CallerAt, Waiting
<1>3. /\ pc[c] = "authSent" => Awaits(conn, AuthMsg)
      /\ pc[c] = "sent" => Awaits(conn, Request(c))
  BY DEF CInv, CallerInv, CallerAt
<1> DEFINE m == IF pc[c] = "authSent" THEN AuthMsg ELSE Request(c)
<1>4. wire[conn] = <<>> /\ \E ok \in BOOLEAN : answers[conn] = <<[to |-> m, ok |-> ok]>>
  BY <1>1, <1>3 DEF Awaits, Quiet
<1> HIDE DEF m
<1>5. Tail(answers[conn]) = <<>>
  BY <1>4
<1> QED  BY <1>1, <1>2, <1>4, <1>5 DEF m

\* After AUTH succeeds the connection is empty and authenticated.
LEMMA AuthReplyCInv ==
  ASSUME CInv, NEW c \in Callers, ReadReply(c), pc[c] = "authSent",
         Head(answers[conn]).ok, GoTo(c, "ready"),
         UNCHANGED <<mu, conn, dialled, calls, heard>>
  PROVE  CInv'
<1>1. /\ mu = c /\ conn \in Conns /\ wire[conn] = <<>>
      /\ answers' = [answers EXCEPT ![conn] = <<>>]
      /\ \E ok \in BOOLEAN : answers[conn] = <<[to |-> AuthMsg, ok |-> ok]>>
  BY ReplyIsMine
<1>2. answers[conn] = <<[to |-> AuthMsg, ok |-> TRUE]>>
  <2>1. PICK ok \in BOOLEAN : answers[conn] = <<[to |-> AuthMsg, ok |-> ok]>>
    BY <1>1
  <2>2. Head(answers[conn]) = [to |-> AuthMsg, ok |-> ok]
    BY <2>1
  <2>3. ok
    BY <2>2
  <2> QED  BY <2>1, <2>3
<1>3. conn \in authed
  BY <1>1, <1>2 DEF CInv, AnswersAreTrue
<1>4. pc' = [pc EXCEPT ![c] = "ready"] /\ UNCHANGED <<wire, authed, ran>>
  BY DEF GoTo, ReadReply, server
<1>5. \A k \in Conns : answers'[k] = IF k = conn THEN <<>> ELSE answers[k]
  BY <1>1 DEF CInv, Types
<1>6. Types'
  <2>1. answers' \in [Conns -> Seq([to : Messages, ok : BOOLEAN])]
    BY <1>1, EmptiedType DEF CInv
  <2> QED  BY <1>4, <2>1 DEF CInv, Types, Waiting
<1>7. OneAtATime'
  BY <1>4, <1>5 DEF CInv, OneAtATime, Awaits, Quiet
<1>8. PoolInv' /\ AnswersAreTrue'
  BY <1>1, <1>4, <1>5, EmptiedIsTrue, ClientAssumption DEF CInv, PoolInv
<1>9. NewIsQuiet' /\ WrittenOnce'
  BY <1>4, <1>5 DEF CInv, Types, NewIsQuiet, Quiet, WrittenOnce, Opened
<1>10. NotYetWritten'
  BY <1>4 DEF CInv, Types, NotYetWritten, Request
<1>11. CallerInv'
  <2> SUFFICES ASSUME NEW x \in Callers PROVE CallerAt(x)'
    BY DEF CallerInv
  <2>1. CASE x = c
    <3>1. calls[c] > 0 /\ heard[Request(c)] = NoAnswer /\ conn # 0
      BY DEF CInv, CallerInv, CallerAt, Waiting
    <3> QED  BY <1>1, <1>3, <1>4, <1>5, <2>1, <3>1 DEF CInv, Types, CallerAt, Waiting, Quiet, Request
  <2>2. CASE x # c
    BY <1>1, <1>4, <2>2, Bystander DEF CInv, Types
  <2> QED  BY <2>1, <2>2
<1> QED  BY <1>6, <1>7, <1>8, <1>9, <1>10, <1>11 DEF CInv

\* The connection goes back to the pool empty.
LEMMA CommandReplyCInv ==
  ASSUME CInv, NEW c \in Callers, ReadReply(c), pc[c] = "sent",
         heard' = [heard EXCEPT ![Request(c)] = Head(answers[conn]).to],
         mu' = NoCaller, GoTo(c, "idle"), UNCHANGED <<conn, dialled, calls>>
  PROVE  CInv'
<1>1. /\ mu = c /\ conn \in Conns /\ wire[conn] = <<>>
      /\ answers' = [answers EXCEPT ![conn] = <<>>]
      /\ \E ok \in BOOLEAN : answers[conn] = <<[to |-> Request(c), ok |-> ok]>>
  BY ReplyIsMine
<1>2. Request(c) \in Requests /\ Request(c) \in Opened
  BY RequestType DEF CInv, CallerInv, CallerAt
<1>3. heard' = [heard EXCEPT ![Request(c)] = Request(c)]
  <2>1. PICK ok \in BOOLEAN : answers[conn] = <<[to |-> Request(c), ok |-> ok]>>
    BY <1>1
  <2>2. Head(answers[conn]).to = Request(c)
    BY <2>1
  <2> QED  BY <2>2
<1>4. pc' = [pc EXCEPT ![c] = "idle"] /\ UNCHANGED <<wire, authed, ran>>
  BY DEF GoTo, ReadReply, server
<1>5. \A k \in Conns : answers'[k] = IF k = conn THEN <<>> ELSE answers[k]
  BY <1>1 DEF CInv, Types
<1>6. Types'
  <2>1. answers' \in [Conns -> Seq([to : Messages, ok : BOOLEAN])]
    BY <1>1, EmptiedType DEF CInv
  <2> QED  BY <1>2, <1>3, <1>4, <2>1 DEF CInv, Types
<1>7. OneAtATime' /\ AnswersAreTrue'
  BY <1>4, <1>5, EmptiedIsTrue DEF CInv, OneAtATime, Awaits, Quiet
<1>8. PoolInv'
  BY <1>1, <1>4, <1>5 DEF CInv, CallerInv, CallerAt, PoolInv, Quiet
<1>9. NewIsQuiet'
  BY <1>4, <1>5 DEF CInv, Types, NewIsQuiet, Quiet
<1>10. WrittenOnce'
  BY <1>2, <1>3, <1>4 DEF CInv, Types, WrittenOnce, Opened
<1>11. NotYetWritten'
  BY <1>4 DEF CInv, Types, NotYetWritten, Request
<1>12. CallerInv'
  <2> SUFFICES ASSUME NEW x \in Callers PROVE CallerAt(x)'
    BY DEF CallerInv
  <2>1. CASE x = c
    BY <1>4, <2>1, ClientAssumption DEF CInv, Types, CallerAt, Waiting
  <2>2. CASE x # c
    <3>1. Request(x) # Request(c)
      BY <2>2 DEF Request
    <3>2. heard'[Request(x)] = heard[Request(x)]
      BY <1>3, <3>1 DEF CInv, Types
    <3> QED  BY <1>1, <1>4, <2>2, <3>2, Bystander DEF CInv, Types
  <2> QED  BY <2>1, <2>2
<1> QED  BY <1>6, <1>7, <1>8, <1>9, <1>10, <1>11, <1>12 DEF CInv

\* Reading a reply keeps the invariant, to AUTH or to the command.
LEMMA ReadReplyCInv ==
  ASSUME CInv, NEW c \in Callers, ReadReply(c)
  PROVE  CInv'
<1>1. CASE ReturnError(c)
  <2>1. /\ answers' = [answers EXCEPT ![conn] = <<>>] /\ conn \in Conns
        /\ pc[c] \in Waiting
    BY ReplyIsMine DEF Waiting
  <2> QED  BY <1>1, <2>1, ReturnErrorCInv DEF ReadReply, server
<1>2. CASE /\ Head(answers[conn]).ok /\ pc[c] = "authSent" /\ GoTo(c, "ready")
           /\ UNCHANGED <<mu, conn, dialled, calls, heard>>
  BY <1>2, AuthReplyCInv
<1>3. CASE /\ pc[c] = "sent" /\ heard' = [heard EXCEPT ![Request(c)] = Head(answers[conn]).to]
           /\ mu' = NoCaller /\ GoTo(c, "idle") /\ UNCHANGED <<conn, dialled, calls>>
  BY <1>3, CommandReplyCInv
<1> QED  BY <1>1, <1>2, <1>3 DEF ReadReply

-----------------------------------------------------------------------------

\* The server answers the one message that is on a connection.
LEMMA ReplyCInv ==
  ASSUME CInv, NEW k \in Conns, NEW m \in Messages, NEW ok \in BOOLEAN,
         wire[k] = <<m>>, answers[k] = <<>>,
         wire' = [wire EXCEPT ![k] = <<>>],
         answers' = [answers EXCEPT ![k] = <<[to |-> m, ok |-> ok]>>],
         UNCHANGED client, authed \subseteq authed', authed' \subseteq Conns,
         ran' \in [Requests -> Nat],
         \A r \in Requests : (ran[r] > 0 => ran'[r] > 0) /\ (r # m => ran'[r] = ran[r]),
         ok => (m = AuthMsg => k \in authed') /\ (m \in Requests => ran'[m] > 0)
  PROVE  CInv'
<1>1. UNCHANGED <<mu, conn, dialled, pc, calls, heard>>
  BY DEF client
<1>2. \A j \in Conns : /\ wire'[j] = IF j = k THEN <<>> ELSE wire[j]
                       /\ answers'[j] = IF j = k THEN <<[to |-> m, ok |-> ok]>> ELSE answers[j]
  BY DEF CInv, Types
<1>3. \A x : <<x>> # <<>>
  OBVIOUS
<1>4. ~Quiet(k) /\ \A y : Awaits(k, y) => y = m
  BY <1>3 DEF Quiet, Awaits
<1>5. Awaits(k, m)'
  BY <1>2 DEF Awaits
<1>6. Types'
  <2> DEFINE S == [to : Messages, ok : BOOLEAN]
             a == [to |-> m, ok |-> ok]
  <2>1. a \in S /\ answers \in [Conns -> Seq(S)] /\ answers' = [answers EXCEPT ![k] = <<a>>]
    BY DEF CInv, Types
  <2> HIDE DEF S, a
  <2>2. <<a>> \in Seq(S)
    BY <2>1
  <2>3. answers' \in [Conns -> Seq(S)]
    BY <2>1, <2>2
  <2>4. <<>> \in Seq(Messages)
    OBVIOUS
  <2>5. wire' \in [Conns -> Seq(Messages)]
    BY <2>4 DEF CInv, Types
  <2> QED  BY <1>1, <2>3, <2>5 DEF CInv, Types, S
<1>7. OneAtATime'
  <2> SUFFICES ASSUME NEW j \in Conns PROVE \E x \in Messages : Awaits(j, x)'
    BY DEF OneAtATime
  <2>1. CASE j = k
    BY <1>5, <2>1
  <2>2. CASE j # k
    <3>1. PICK x \in Messages : Awaits(j, x)
      BY DEF CInv, OneAtATime
    <3>2. wire'[j] = wire[j] /\ answers'[j] = answers[j]
      BY <1>2, <2>2
    <3>3. Awaits(j, x)'
      BY <3>1, <3>2 DEF Awaits, Quiet
    <3> QED  BY <3>3
  <2> QED  BY <2>1, <2>2
<1>8. PoolInv' /\ NewIsQuiet'
  BY <1>1, <1>2, <1>4 DEF CInv, Types, PoolInv, NewIsQuiet, Quiet
<1>9. AnswersAreTrue'
  <2>1. \A r \in Requests : ran[r] > 0 => ran'[r] > 0
    OBVIOUS
  <2> SUFFICES ASSUME NEW j \in Conns
               PROVE  /\ answers'[j] = <<[to |-> AuthMsg, ok |-> TRUE]>> => j \in authed'
                      /\ \A r \in Requests : answers'[j] = <<[to |-> r, ok |-> TRUE]>> => ran'[r] > 0
    BY DEF AnswersAreTrue
  <2>2. CASE j = k
    <3>1. ASSUME NEW y, answers'[j] = <<[to |-> y, ok |-> TRUE]>> PROVE y = m /\ ok
      <4>1. <<[to |-> m, ok |-> ok]>> = <<[to |-> y, ok |-> TRUE]>>
        BY <1>2, <2>2, <3>1
      <4>2. [to |-> m, ok |-> ok] = [to |-> y, ok |-> TRUE]
        BY <4>1
      <4> QED  BY <4>2
    <3> QED  BY <2>2, <3>1
  <2>3. CASE j # k
    <3>1. answers'[j] = answers[j]
      BY <1>2, <2>3
    <3>2. ASSUME NEW r \in Requests, answers[j] = <<[to |-> r, ok |-> TRUE]>> PROVE ran[r] > 0
      BY <3>2 DEF CInv, AnswersAreTrue
    <3>3. answers[j] = <<[to |-> AuthMsg, ok |-> TRUE]>> => j \in authed
      BY DEF CInv, AnswersAreTrue
    <3> QED  BY <2>1, <3>1, <3>2, <3>3
  <2> QED  BY <2>2, <2>3
<1>10. WrittenOnce'
  <2> SUFFICES ASSUME NEW r \in Requests
               PROVE  /\ \A j \in Conns : wire'[j] = <<r>> =>
                           /\ r \in Opened /\ ran'[r] = 0 /\ (UsePassword => j \in authed')
                           /\ \A i \in Conns : wire'[i] = <<r>> => i = j
                      /\ ran'[r] > 0 => r \in Opened
                      /\ r \notin Opened => heard'[r] = NoAnswer
    BY <1>1 DEF WrittenOnce, Opened
  <2>1. r = m => wire[k] = <<r>>
    OBVIOUS
  <2>2. \A j \in Conns : wire'[j] = <<r>> => j # k /\ wire[j] = <<r>>
    BY <1>2, <1>3
  <2> QED  BY <1>1, <2>1, <2>2 DEF CInv, WrittenOnce
<1>11. NotYetWritten'
  <2> SUFFICES ASSUME NEW x \in Callers,
                      pc[x] \in {"lock", "dial", "auth", "authSent", "ready"}
               PROVE  ran'[Request(x)] = 0 /\ \A j \in Conns : wire'[j] # <<Request(x)>>
    BY <1>1 DEF NotYetWritten, Request
  <2>1. ran[Request(x)] = 0 /\ \A j \in Conns : wire[j] # <<Request(x)>>
    BY DEF CInv, NotYetWritten
  <2>2. Request(x) # m /\ Request(x) \in Requests
    BY <2>1, RequestType DEF CInv, CallerInv, CallerAt
  <2> QED  BY <1>2, <1>3, <2>1, <2>2
<1>12. CallerInv'
  <2> SUFFICES ASSUME NEW x \in Callers PROVE CallerAt(x)'
    BY DEF CallerInv
  <2>1. CallerAt(x) /\ Request(x)' = Request(x)
    BY <1>1 DEF CInv, CallerInv, Request
  <2>2. \A y : Awaits(conn, y) /\ conn \in Conns => Awaits(conn, y)'
    <3>1. ASSUME NEW y, Awaits(conn, y), conn \in Conns PROVE Awaits(conn, y)'
      <4>1. CASE conn = k
        BY <1>1, <1>4, <1>5, <3>1, <4>1 DEF Awaits
      <4>2. CASE conn # k
        BY <1>1, <1>2, <3>1, <4>2 DEF Awaits, Quiet
      <4> QED  BY <4>1, <4>2
    <3> QED  BY <3>1
  <2>3. Quiet(conn) /\ conn \in Conns => Quiet(conn)'
    BY <1>1, <1>2, <1>4 DEF Quiet
  <2>4. pc[x] \in Waiting \ {"dial"} => conn \in Conns
    BY <2>1 DEF CInv, Types, CallerAt
  <2>5. pc[x] = "authSent" => Awaits(conn, AuthMsg)'
    BY <2>1, <2>2, <2>4 DEF CallerAt, Waiting
  <2>6. pc[x] = "sent" => Awaits(conn, Request(x))'
    <3>1. pc[x] = "sent" => conn \in Conns /\ Awaits(conn, Request(x))
      BY <2>1, <2>4 DEF CallerAt, Waiting
    <3>2. DEFINE y == Request(x)
    <3>3. y' = y
      BY <2>1
    <3>4. pc[x] = "sent" => Awaits(conn, y) /\ conn \in Conns
      BY <3>1
    <3> QED  BY <1>1, <1>2, <1>4, <1>5, <2>1, <3>4 DEF Awaits, Quiet
  <2> QED  BY <1>1, <2>1, <2>3, <2>4, <2>5, <2>6 DEF CallerAt, Waiting
<1> QED  BY <1>6, <1>7, <1>8, <1>9, <1>10, <1>11, <1>12 DEF CInv

\* A message that the server takes is alone on its connection.
LEMMA ServedIsAlone ==
  ASSUME CInv, NEW k \in Conns, wire[k] # <<>>
  PROVE  /\ Head(wire[k]) \in Messages /\ wire[k] = <<Head(wire[k])>> /\ answers[k] = <<>>
         /\ Tail(wire[k]) = <<>>
<1>1. PICK m \in Messages : Awaits(k, m)
  BY DEF CInv, OneAtATime
<1>2. wire[k] = <<m>> /\ answers[k] = <<>>
  BY <1>1 DEF Awaits, Quiet
<1>3. Head(<<m>>) = m /\ Tail(<<m>>) = <<>>
  OBVIOUS
<1> QED  BY <1>2, <1>3

\* A message that the server runs was written once and never ran before.
LEMMA ServeCInv ==
  ASSUME CInv, NEW k \in Conns, Serve(k)
  PROVE  CInv'
<1> DEFINE m == Head(wire[k])
<1>1. m \in Messages /\ wire[k] = <<m>> /\ answers[k] = <<>> /\ Tail(wire[k]) = <<>>
  BY ServedIsAlone DEF Serve
<1>2. ASSUME NEW ok \in BOOLEAN, Reply(k, ok)
      PROVE  /\ wire' = [wire EXCEPT ![k] = <<>>]
             /\ answers' = [answers EXCEPT ![k] = <<[to |-> m, ok |-> ok]>>]
             /\ UNCHANGED client
  <2>1. Append(<<>>, [to |-> m, ok |-> ok]) = <<[to |-> m, ok |-> ok]>>
    OBVIOUS
  <2> QED  BY <1>1, <1>2, <2>1 DEF Reply
<1>3. m # AuthMsg => m \in Requests
  BY <1>1 DEF Messages
<1> HIDE DEF m
<1>4. authed \subseteq Conns
  BY DEF CInv, Types
<1>5. ran \in [Requests -> Nat]
  BY DEF CInv, Types
<1>6. CASE m = AuthMsg /\ Reply(k, TRUE) /\ authed' = authed \union {k} /\ UNCHANGED ran
  <2>1. authed \subseteq authed' /\ authed' \subseteq Conns /\ k \in authed' /\ m \notin Requests
    BY <1>4, <1>6, AuthIsNoRequest
  <2>2. /\ wire' = [wire EXCEPT ![k] = <<>>]
        /\ answers' = [answers EXCEPT ![k] = <<[to |-> m, ok |-> TRUE]>>]
        /\ UNCHANGED client
    BY <1>2, <1>6
  <2> QED  BY <1>1, <1>5, <1>6, <2>1, <2>2, ReplyCInv
<1>7. CASE m # AuthMsg /\ Reply(k, TRUE) /\ ran' = [ran EXCEPT ![m] = @ + 1] /\ UNCHANGED authed
  <2>1. /\ ran' \in [Requests -> Nat] /\ ran'[m] > 0
        /\ \A r \in Requests : (ran[r] > 0 => ran'[r] > 0) /\ (r # m => ran'[r] = ran[r])
    BY <1>3, <1>5, <1>7
  <2>2. /\ wire' = [wire EXCEPT ![k] = <<>>]
        /\ answers' = [answers EXCEPT ![k] = <<[to |-> m, ok |-> TRUE]>>]
        /\ UNCHANGED client
    BY <1>2, <1>7
  <2> QED  BY <1>1, <1>4, <1>7, <2>1, <2>2, ReplyCInv
<1>8. CASE Reply(k, FALSE) /\ UNCHANGED server
  <2>1. UNCHANGED <<authed, ran>>
    BY <1>8 DEF server
  <2>2. /\ wire' = [wire EXCEPT ![k] = <<>>]
        /\ answers' = [answers EXCEPT ![k] = <<[to |-> m, ok |-> FALSE]>>]
        /\ UNCHANGED client
    BY <1>2, <1>8
  <2> QED  BY <1>1, <1>4, <1>5, <2>1, <2>2, ReplyCInv
<1> QED  BY <1>6, <1>7, <1>8 DEF Serve, m

\* What a broken connection loses was its only message.
LEMMA BreakCInv ==
  ASSUME CInv, NEW k \in Conns, Break(k)
  PROVE  CInv'
<1>1. UNCHANGED <<mu, conn, dialled, pc, calls, heard, authed, ran>>
  BY DEF Break, client, server
<1>2. \A j \in Conns : /\ wire'[j] = IF j = k THEN <<>> ELSE wire[j]
                       /\ answers'[j] = IF j = k THEN <<>> ELSE answers[j]
  BY DEF Break, CInv, Types
<1>3. Types'
  <2>1. answers' \in [Conns -> Seq([to : Messages, ok : BOOLEAN])]
    BY EmptiedType DEF CInv, Break
  <2>2. <<>> \in Seq(Messages)
    OBVIOUS
  <2>3. wire' \in [Conns -> Seq(Messages)]
    BY <2>2 DEF Break, CInv, Types
  <2> QED  BY <1>1, <2>1, <2>3 DEF CInv, Types
<1>4. \A x : <<x>> # <<>>
  OBVIOUS
<1>5. OneAtATime' /\ PoolInv' /\ NewIsQuiet' /\ AnswersAreTrue'
  BY <1>1, <1>2, EmptiedIsTrue DEF CInv, Types, OneAtATime, PoolInv, NewIsQuiet, Awaits, Quiet
<1>6. WrittenOnce' /\ NotYetWritten'
  <2>1. \A x : \A j \in Conns : wire'[j] = <<x>> => wire[j] = <<x>>
    BY <1>2, <1>4
  <2>2. UNCHANGED Opened /\ \A x \in Callers : Request(x)' = Request(x)
    BY <1>1 DEF Opened, Request
  <2>3. WrittenOnce'
    BY <1>1, <2>1, <2>2 DEF CInv, WrittenOnce
  <2>4. NotYetWritten'
    BY <1>1, <2>1, <2>2 DEF CInv, NotYetWritten
  <2> QED  BY <2>3, <2>4
<1>7. CallerInv'
  <2> SUFFICES ASSUME NEW x \in Callers PROVE CallerAt(x)'
    BY DEF CallerInv
  <2>1. CallerAt(x) /\ Request(x)' = Request(x)
    BY <1>1 DEF CInv, CallerInv, Request
  <2>2. pc[x] \in Waiting \ {"dial"} => conn \in Conns
    BY <2>1 DEF CInv, Types, CallerAt
  <2> QED  BY <1>1, <1>2, <2>1, <2>2 DEF CallerAt, Waiting, Awaits, Quiet
<1> QED  BY <1>3, <1>5, <1>6, <1>7 DEF CInv

\* Every step of a caller, of the server or of the network keeps the invariant.
LEMMA NextCInv == CInv /\ [Next]_vars => CInv'
<1> SUFFICES ASSUME CInv, [Next]_vars PROVE CInv'  OBVIOUS
<1>1. ASSUME NEW c \in Callers, Call(c) \/ Lock(c) \/ Proceed(c) PROVE CInv'
  BY <1>1, CallCInv, LockCInv, DialCInv, WriteCInv, ReadReplyCInv, IOErrorCInv DEF Proceed
<1>2. ASSUME NEW k \in Conns, Serve(k) \/ Break(k) PROVE CInv'
  BY <1>2, ServeCInv, BreakCInv
<1>3. CASE UNCHANGED vars
  <2>1. UNCHANGED <<mu, conn, dialled, pc, calls, heard, wire, answers, authed, ran>>
    BY <1>3 DEF vars, client, server
  <2>2. Types' /\ OneAtATime' /\ PoolInv' /\ NewIsQuiet' /\ AnswersAreTrue'
    BY <2>1 DEF CInv, Types, OneAtATime, PoolInv, NewIsQuiet, AnswersAreTrue, Awaits, Quiet
  <2>3. CallerInv'
    BY <2>1 DEF CInv, CallerInv, CallerAt, Awaits, Quiet, Request
  <2>4. WrittenOnce' /\ NotYetWritten'
    BY <2>1 DEF CInv, WrittenOnce, NotYetWritten, Request, Opened
  <2> QED  BY <2>2, <2>3, <2>4 DEF CInv
<1> QED  BY <1>1, <1>2, <1>3 DEF Next, Finished

\* The inductive invariant holds in every reachable state of the client.
THEOREM ClientInvariance == Spec => []CInv
<1>1. QED  BY InitCInv, NextCInv, PTL DEF Spec

-----------------------------------------------------------------------------

\* Mutex, connections, requests and replies keep their types (client.go 18-41).
THEOREM ClientTypeCorrect == Spec => []TypeOK
<1>1. CInv => TypeOK  BY DEF CInv, Types, TypeOK, Messages
<1>2. QED  BY <1>1, ClientInvariance, PTL

\* No command goes out before AUTH has succeeded on its connection (client.go 54-62).
THEOREM CommandsFollowAuth == Spec => []AuthBeforeCommand
<1>1. CInv => AuthBeforeCommand
  <2> SUFFICES ASSUME CInv, UsePassword, NEW k \in Conns, NEW r \in Requests,
                      NEW i \in DOMAIN wire[k], wire[k][i] = r
               PROVE  k \in authed
    BY DEF AuthBeforeCommand
  <2>1. PICK m \in Messages : Awaits(k, m)
    BY DEF CInv, OneAtATime
  <2>2. wire[k] = <<m>>
    BY <2>1 DEF Awaits, Quiet
  <2>3. m = r
    BY <2>2
  <2> QED  BY <2>2, <2>3 DEF CInv, WrittenOnce
<1>2. QED  BY <1>1, ClientInvariance, PTL

\* What a caller finds in the pool carries nothing of an earlier call (client.go 36-39).
THEOREM PoolStaysClean == Spec => []PooledIsClean
<1>1. CInv => PooledIsClean
  BY DEF CInv, PoolInv, PooledIsClean, Quiet
<1>2. QED  BY <1>1, ClientInvariance, PTL

-----------------------------------------------------------------------------
\* Do is an at-most-once call: each step of the client, the server or the network is
\* a step of Rpc or leaves its state as it is.

\* At the start no call of Rpc has been made.
LEMMA InitIsRpc == Init => Rpc!RpcInit
<1> SUFFICES ASSUME Init PROVE Rpc!RpcInit  OBVIOUS
<1>1. Opened = {}
  BY DEF Init, Opened, Requests
<1> QED  BY <1>1 DEF Init, Rpc!RpcInit

\* A call opens a request that was never opened before.
LEMMA CallIsOpen ==
  ASSUME CInv, NEW c \in Callers, Call(c)
  PROVE  Rpc!RpcNext
<1>1. /\ calls[c] < MaxCalls /\ calls' = [calls EXCEPT ![c] = @ + 1]
      /\ UNCHANGED <<ran, heard>>
  BY DEF Call, server
<1> DEFINE r == [caller |-> c, n |-> calls[c] + 1]
<1>2. r \in Requests /\ r \notin Opened
  BY <1>1, ClientAssumption DEF CInv, Types, Requests, Opened
<1>3. Opened' = Opened \union {r}
  <2>1. ASSUME NEW q \in Requests PROVE q \in Opened' <=> q \in Opened \/ q = r
    BY <1>1, ClientAssumption DEF CInv, Types, Requests, Opened
  <2> QED  BY <1>2, <2>1 DEF Opened
<1> HIDE DEF r
<1> QED  BY <1>1, <1>2, <1>3 DEF Rpc!RpcNext, Rpc!Open

\* A command the server takes runs for the first time.
LEMMA ServeIsRun ==
  ASSUME CInv, NEW k \in Conns, Serve(k)
  PROVE  Rpc!RpcNext \/ UNCHANGED <<Opened, ran, heard>>
<1> DEFINE m == Head(wire[k])
<1>1. m \in Messages /\ wire[k] = <<m>>
  BY ServedIsAlone DEF Serve
<1>2. UNCHANGED <<Opened, heard>>
  BY DEF Serve, Reply, client, Opened
<1>3. UNCHANGED ran \/ (m # AuthMsg /\ ran' = [ran EXCEPT ![m] = @ + 1])
  BY DEF Serve, server
<1> HIDE DEF m
<1>4. CASE m # AuthMsg /\ ran' = [ran EXCEPT ![m] = @ + 1]
  <2>1. m \in Requests
    BY <1>1, <1>4 DEF Messages
  <2>2. m \in Opened /\ ran[m] = 0
    BY <1>1, <2>1 DEF CInv, WrittenOnce
  <2> QED  BY <1>2, <1>4, <2>1, <2>2 DEF Rpc!RpcNext, Rpc!Run
<1> QED  BY <1>2, <1>3, <1>4

\* An error tells its caller nothing, and only once.
LEMMA ErrorIsFail ==
  ASSUME CInv, NEW c \in Callers, pc[c] \in Waiting, ReturnError(c), UNCHANGED ran
  PROVE  Rpc!RpcNext
<1>1. Request(c) \in Requests /\ Request(c) \in Opened /\ heard[Request(c)] = NoAnswer
  BY RequestType DEF CInv, CallerInv, CallerAt, Waiting
<1>2. heard' = [heard EXCEPT ![Request(c)] = Failure] /\ UNCHANGED <<Opened, ran>>
  BY DEF ReturnError, Opened
<1> QED  BY <1>1, <1>2 DEF Rpc!RpcNext, Rpc!Fail

\* A reply that Do returns is the reply of its own request.
LEMMA ReplyIsAnswer ==
  ASSUME CInv, NEW c \in Callers, ReadReply(c)
  PROVE  Rpc!RpcNext \/ UNCHANGED <<Opened, ran, heard>>
<1>1. UNCHANGED ran
  BY DEF ReadReply, server
<1>2. CASE ReturnError(c)
  BY <1>1, <1>2, ErrorIsFail DEF ReadReply, Waiting
<1>3. CASE UNCHANGED <<mu, conn, dialled, calls, heard>>
  BY <1>1, <1>3 DEF Opened
<1>4. CASE /\ Head(answers[conn]).ok /\ pc[c] = "sent"
           /\ heard' = [heard EXCEPT ![Request(c)] = Head(answers[conn]).to]
           /\ UNCHANGED <<conn, dialled, calls>>
  <2>1. PICK ok \in BOOLEAN : answers[conn] = <<[to |-> Request(c), ok |-> ok]>>
    BY <1>4, ReplyIsMine
  <2>2. Head(answers[conn]) = [to |-> Request(c), ok |-> ok]
    BY <2>1
  <2>3. ok /\ Head(answers[conn]).to = Request(c)
    BY <1>4, <2>2
  <2>4. Request(c) \in Requests /\ Request(c) \in Opened /\ heard[Request(c)] = NoAnswer
    BY <1>4, RequestType DEF CInv, CallerInv, CallerAt
  <2>5. conn \in Conns
    BY ReplyIsMine
  <2>6. answers[conn] = <<[to |-> Request(c), ok |-> TRUE]>>
    BY <2>1, <2>3
  <2>7. ran[Request(c)] > 0
    BY <2>4, <2>5, <2>6 DEF CInv, AnswersAreTrue
  <2>8. heard' = [heard EXCEPT ![Request(c)] = Request(c)] /\ UNCHANGED <<Opened, ran>>
    BY <1>1, <1>4, <2>3 DEF Opened
  <2> QED  BY <2>4, <2>7, <2>8 DEF Rpc!RpcNext, Rpc!Answer
<1> QED  BY <1>2, <1>3, <1>4 DEF ReadReply

\* Every step of the client is a step of Rpc or a stutter.
LEMMA NextIsRpc == CInv /\ [Next]_vars => [Rpc!RpcNext]_(Rpc!rpcVars)
<1> SUFFICES ASSUME CInv, [Next]_vars
             PROVE  Rpc!RpcNext \/ UNCHANGED <<Opened, ran, heard>>
  BY DEF Rpc!rpcVars
<1>1. ASSUME NEW c \in Callers, Call(c) PROVE Rpc!RpcNext
  BY <1>1, CallIsOpen
<1>2. ASSUME NEW c \in Callers, Lock(c) \/ Dial(c) \/ Write(c)
      PROVE  UNCHANGED <<Opened, ran, heard>>
  BY <1>2 DEF Lock, Dial, Write, server, Opened
<1>3. ASSUME NEW c \in Callers, ReadReply(c)
      PROVE  Rpc!RpcNext \/ UNCHANGED <<Opened, ran, heard>>
  BY <1>3, ReplyIsAnswer
<1>4. ASSUME NEW c \in Callers, IOError(c) PROVE Rpc!RpcNext
  BY <1>4, ErrorIsFail DEF IOError, server
<1>5. ASSUME NEW k \in Conns, Serve(k)
      PROVE  Rpc!RpcNext \/ UNCHANGED <<Opened, ran, heard>>
  BY <1>5, ServeIsRun
<1>6. ASSUME NEW k \in Conns, Break(k) PROVE UNCHANGED <<Opened, ran, heard>>
  BY <1>6 DEF Break, client, server, Opened
<1>7. CASE UNCHANGED vars
  BY <1>7 DEF vars, client, server, Opened
<1> QED  BY <1>1, <1>2, <1>3, <1>4, <1>5, <1>6, <1>7 DEF Next, Proceed, Finished

\* Every behaviour of the client is one of an at-most-once call: no reply is given to
\* another request than its own, and no request runs twice (client.go 28-84).
THEOREM ClientImplementsRpc == Spec => ImplementsRpc
<1>1. QED
  BY InitIsRpc, NextIsRpc, ClientInvariance, PTL DEF Spec, ImplementsRpc, Rpc!RpcSpec

=============================================================================
