--------------------------- MODULE SocPerfClient ---------------------------
(***************************************************************************)
(* SocPerfClient: the singleton of a process that uses the service. It      *)
(* finds the service at the first call, keeps a proxy, and asks to be told  *)
(* when the service dies. mutex_ is held from the first step of a call to   *)
(* its return, and by the reset that a death brings: a process is at one    *)
(* step at a time, and "idle" means that the mutex is free.                 *)
(*                                                                         *)
(* The service is seen as a sequence of incarnations, numbered from 1. A    *)
(* proxy is the number of the one it leads to, 0 is nullptr.                *)
(***************************************************************************)
EXTENDS Naturals, FiniteSets

CONSTANTS
    Proc,   \* client processes
    Calls,  \* what they call: [from, token, op, cmd, on, long]
    Starts, \* bound: number of incarnations of the service
    Faults  \* what may fail besides the service: "nomem", "addfails"

None == 0
Object == 1 .. Starts

ASSUME ClientAssumption ==
    /\ \A c \in Calls : c.from \in Proc /\ c.on \in BOOLEAN /\ c.long \in BOOLEAN
    /\ Starts \in Nat
    /\ Faults \subseteq {"nomem", "addfails"}

VARIABLES
    running,    \* the incarnation whose process is alive
    registered, \* the incarnation that the system ability manager knows
    client, recipient, \* by process: the proxy; where recipient_ is added
    notices,    \* deaths on their way: <<process, incarnation>>
    at, inHand  \* by process: where its call is; the call, or the object found

service == <<running, registered>>
clientVars == <<client, recipient, notices, at, inHand>>

Alive(i) == i # None /\ i = running

Idle == [from |-> None]

ClientInit ==
    /\ client = [p \in Proc |-> None] /\ recipient = [p \in Proc |-> None]
    /\ notices = {}
    /\ at = [p \in Proc |-> "idle"] /\ inHand = [p \in Proc |-> Idle]

-----------------------------------------------------------------------------
Goto(p, place) == at' = [at EXCEPT ![p] = place] /\ UNCHANGED inHand
Return(p) == at' = [at EXCEPT ![p] = "idle"] /\ inHand' = [inHand EXCEPT ![p] = Idle]

\* A thread of the process calls and takes the mutex.
Begin(p, c) ==
    /\ c.from = p /\ at[p] = "idle"
    /\ at' = [at EXCEPT ![p] = IF client[p] = None THEN "find" ELSE "valid"]
    /\ inHand' = [inHand EXCEPT ![p] = c]
    /\ UNCHANGED <<client, recipient, notices>>

(* CheckClientValid *)

\* There is no system ability manager, or it does not know the service ...
NotFound(p) ==
    /\ at[p] = "find" /\ Return(p)
    /\ UNCHANGED <<client, recipient, notices>>

\* ... or it gives an object, and the proxy is set before there is a recipient.
\* Without memory for one, the call is given up and the proxy stays.
Found(p) ==
    /\ at[p] = "find" /\ registered # None
    /\ client' = [client EXCEPT ![p] = registered]
    /\ \/ Goto(p, "add")
       \/ "nomem" \in Faults /\ Return(p)
    /\ UNCHANGED <<recipient, notices>>

\* Mutant: the recipient is added to a live object only.
AddDeathRecipient_LiveOnly(p) ==
    /\ at[p] = "add" /\ Goto(p, "valid")
    /\ recipient' = [recipient EXCEPT ![p] = IF Alive(client[p]) THEN client[p] ELSE @]
    /\ UNCHANGED <<client, notices>>

\* Mutant: what is told is the death of where recipient_ was added before.
AddDeathRecipient_Before(p) ==
    /\ at[p] = "add" /\ Goto(p, "valid")
    /\ IF Alive(client[p])
       THEN recipient' = [recipient EXCEPT ![p] = client[p]] /\ UNCHANGED notices
       ELSE notices' = notices \cup {<<p, recipient[p]>>} /\ UNCHANGED recipient
    /\ UNCHANGED client

\* An object that died meanwhile tells so at once. The result is not looked at.
AddDeathRecipient(p) ==
    /\ at[p] = "add" /\ Goto(p, "valid")
    /\ \/ /\ Alive(client[p])
          /\ recipient' = [recipient EXCEPT ![p] = client[p]]
          /\ UNCHANGED notices
       \/ /\ ~Alive(client[p])
          /\ notices' = notices \cup {<<p, client[p]>>}
          /\ UNCHANGED recipient
       \/ /\ "addfails" \in Faults
          /\ UNCHANGED <<recipient, notices>>
    /\ UNCHANGED client

(* The call itself *)

Synchronous(c) == c.op = "RequestCmdIdCount"

\* Mutant: a call of a dead service is kept until it succeeds.
Drop_LongOnly(p) ==
    /\ at[p] = "valid" /\ inHand[p].long
    /\ Return(p)
    /\ UNCHANGED <<client, recipient, notices>>

\* A device mode that is too long is not sent, nor is anything to the dead.
Drop(p) ==
    /\ at[p] = "valid" /\ (inHand[p].long \/ ~Alive(client[p]))
    /\ Return(p)
    /\ UNCHANGED <<client, recipient, notices>>

\* Every operation but one is oneway: it returns at once.
Send(p) ==
    /\ at[p] = "valid" /\ ~inHand[p].long /\ Alive(client[p])
    /\ IF Synchronous(inHand[p]) THEN Goto(p, "wait") ELSE Return(p)
    /\ UNCHANGED <<client, recipient, notices>>

\* The answer, a refusal, or the death of the service.
Answered(p) ==
    /\ at[p] = "wait" /\ Return(p)
    /\ UNCHANGED <<client, recipient, notices>>

(* ResetClient *)

\* Mutant: the recipient is forgotten, the proxy is not.
Reset_KeepProxy(p) ==
    /\ at[p] = "idle"
    /\ recipient' = [recipient EXCEPT ![p] = None]
    /\ UNCHANGED <<client, at, inHand>>

Reset(p) ==
    /\ at[p] = "idle"
    /\ recipient' = [recipient EXCEPT ![p] = None]
    /\ client' = [client EXCEPT ![p] = None]
    /\ UNCHANGED <<at, inHand>>

\* Whichever incarnation died, the proxy of today is reset.
OnRemoteDied(p) ==
    \E i \in Object :
        /\ <<p, i>> \in notices
        /\ Reset(p)
        /\ notices' = notices \ {<<p, i>>}

\* A death may be on its way when the recipient is removed.
ResetClient(p) ==
    /\ Reset(p)
    /\ \/ UNCHANGED notices
       \/ notices' = notices \ {<<p, client[p]>>}

\* The service dies: who added a recipient to it will be told.
ClientsLoseService ==
    /\ notices' = notices \cup {<<p, running>> : p \in {x \in Proc : recipient[x] = running}}
    /\ recipient' = [p \in Proc |-> IF recipient[p] = running THEN None ELSE recipient[p]]
    /\ UNCHANGED <<client, at, inHand>>

-----------------------------------------------------------------------------
(* Properties *)

\* Every variable stays in the set its member ranges over.
ClientTypeOK ==
    /\ running \in Object \cup {None} /\ registered \in Object \cup {None}
    /\ client \in [Proc -> Object \cup {None}]
    /\ recipient \in [Proc -> Object \cup {None}]
    /\ notices \subseteq Proc \X Object
    /\ at \in [Proc -> {"idle", "find", "add", "valid", "wait"}]
    /\ inHand \in [Proc -> Calls \cup {Idle}]

\* A process that keeps the proxy of a dead service will be told of that death,
\* even when the service died between the lookup and AddDeathRecipient; a process
\* whose proxy is live will be told when it dies.
DeadProxyNoticed ==
    \A p \in Proc : at[p] = "idle" /\ client[p] # None =>
        IF Alive(client[p]) THEN recipient[p] = client[p]
                            ELSE <<p, client[p]>> \in notices

Stale(p) == client[p] # None /\ ~Alive(client[p])

\* A process does not keep the proxy of a dead service: its next call looks the
\* service up again.
Reconnects ==
    \A p \in Proc : Stale(p) ~> ~Stale(p)

\* Every call returns, also one that waits for the answer of a service that dies
\* (the mutex is held meanwhile, and the reset after the death needs it).
CallReturns == \A p \in Proc : at[p] # "idle" ~> at[p] = "idle"
=============================================================================
