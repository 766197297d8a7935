--------------------------------- MODULE Rpc ---------------------------------
(***************************************************************************)
(* What a caller of Client.Do may rely on, and all that FanIn assumes of a *)
(* call to Redis: a request runs at most once; a caller that gets a reply  *)
(* gets the reply of its own request, which ran before; an error says      *)
(* nothing, the request may have run, may run later or never.              *)
(***************************************************************************)
EXTENDS Naturals

CONSTANTS Requests, NoAnswer, Failure

VARIABLES opened,   \* requests handed to Do
          ran,      \* ran[r]: how often the server has run r
          heard     \* heard[r]: the request whose reply the caller of r got

rpcVars == <<opened, ran, heard>>

RpcInit == /\ opened = {}
           /\ ran = [r \in Requests |-> 0]
           /\ heard = [r \in Requests |-> NoAnswer]

Open(r) == /\ r \notin opened
           /\ opened' = opened \union {r}
           /\ UNCHANGED <<ran, heard>>

Run(r) == /\ r \in opened /\ ran[r] = 0
          /\ ran' = [ran EXCEPT ![r] = @ + 1]
          /\ UNCHANGED <<opened, heard>>

Answer(r) == /\ r \in opened /\ ran[r] > 0 /\ heard[r] = NoAnswer
             /\ heard' = [heard EXCEPT ![r] = r]
             /\ UNCHANGED <<opened, ran>>

Fail(r) == /\ r \in opened /\ heard[r] = NoAnswer
           /\ heard' = [heard EXCEPT ![r] = Failure]
           /\ UNCHANGED <<opened, ran>>

RpcNext == \E r \in Requests : Open(r) \/ Run(r) \/ Answer(r) \/ Fail(r)

RpcSpec == RpcInit /\ [][RpcNext]_rpcVars

=============================================================================
