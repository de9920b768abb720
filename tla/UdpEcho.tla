-------------------------------- MODULE UdpEcho --------------------------------
(***************************************************************************)
(* socket_program/client.cpp and server.cpp: the client sends each of its  *)
(* arguments as a datagram and reads one datagram before it sends the      *)
(* next; the server sends back what it receives.                           *)
(*                                                                         *)
(* A message is its number among the arguments.  Between the two programs  *)
(* is UDP (external): datagrams under way are lost, duplicated and         *)
(* overtaken by others.                                                    *)
(***************************************************************************)
EXTENDS Integers

CONSTANTS
    Args,       \* the number of messages the client is called with
    TooLong,    \* those that do not fit its buffer
    MaxDuplicates   \* bound: how often the network duplicates a datagram

ASSUME EchoAssumption ==
    /\ Args \in Nat
    /\ TooLong \subseteq 1 .. Args
    /\ MaxDuplicates \in Nat

Message == 1 .. Args
Nothing == 0            \* no message

VARIABLES
    echoPc,     \* what the client does next: "send", "read"; or how it ended
    arg,        \* j, the argument the client is at
    printed,    \* what the client printed for each argument
    toServer, toClient,     \* how many copies of each message are under way
    serverBuf,  \* what the server has received and not sent back
    lost,       \* history: whether a datagram was lost
    duplicated  \* history: how many were duplicated

echoVars == <<echoPc, arg, printed, toServer, toClient, serverBuf, lost, duplicated>>

EchoInit ==
    /\ echoPc = "send"
    /\ arg = 1
    /\ printed = [m \in Message |-> Nothing]
    /\ toServer = [m \in Message |-> 0]
    /\ toClient = [m \in Message |-> 0]
    /\ serverBuf = Nothing
    /\ lost = FALSE
    /\ duplicated = 0
------------------------------------------------------------------------------
(* The client                                                              *)

SkipArg ==
    /\ echoPc = "send"
    /\ arg \in TooLong
    /\ arg' = arg + 1
    /\ UNCHANGED <<echoPc, printed, toServer, toClient, serverBuf, lost, duplicated>>

WriteArg ==
    /\ echoPc = "send"
    /\ arg \in Message \ TooLong
    /\ toServer' = [toServer EXCEPT ![arg] = @ + 1]
    /\ echoPc' = "read"
    /\ UNCHANGED <<arg, printed, toClient, serverBuf, lost, duplicated>>

\* Mutant: the client looks at the datagram and leaves it there.
PeekAnswer(m) ==
    /\ echoPc = "read"
    /\ toClient[m] > 0
    /\ printed' = [printed EXCEPT ![arg] = m]
    /\ arg' = arg + 1
    /\ echoPc' = "send"
    /\ UNCHANGED <<toServer, toClient, serverBuf, lost, duplicated>>

\* The next datagram is taken for the answer, whichever it is.
ReadAnswer(m) ==
    /\ echoPc = "read"
    /\ toClient[m] > 0
    /\ toClient' = [toClient EXCEPT ![m] = @ - 1]
    /\ printed' = [printed EXCEPT ![arg] = m]
    /\ arg' = arg + 1
    /\ echoPc' = "send"
    /\ UNCHANGED <<toServer, serverBuf, lost, duplicated>>

\* write or read fails.
ClientFails ==
    /\ echoPc \in {"send", "read"}
    /\ echoPc = "send" => arg \in Message \ TooLong
    /\ echoPc' = "failure"
    /\ UNCHANGED <<arg, printed, toServer, toClient, serverBuf, lost, duplicated>>

ClientExits ==
    /\ echoPc = "send"
    /\ arg > Args
    /\ echoPc' = "success"
    /\ UNCHANGED <<arg, printed, toServer, toClient, serverBuf, lost, duplicated>>
------------------------------------------------------------------------------
(* The server                                                              *)

Receive(m) ==
    /\ serverBuf = Nothing
    /\ toServer[m] > 0
    /\ toServer' = [toServer EXCEPT ![m] = @ - 1]
    /\ serverBuf' = m
    /\ UNCHANGED <<echoPc, arg, printed, toClient, lost, duplicated>>

\* Mutant: the server only prints what it receives.
SendNothing ==
    /\ serverBuf # Nothing
    /\ serverBuf' = Nothing
    /\ UNCHANGED <<echoPc, arg, printed, toServer, toClient, lost, duplicated>>

SendBack ==
    /\ serverBuf # Nothing
    /\ toClient' = [toClient EXCEPT ![serverBuf] = @ + 1]
    /\ serverBuf' = Nothing
    /\ UNCHANGED <<echoPc, arg, printed, toServer, lost, duplicated>>

\* sendto fails: the server says so and goes on.
SendFails ==
    /\ serverBuf # Nothing
    /\ serverBuf' = Nothing
    /\ lost' = TRUE
    /\ UNCHANGED <<echoPc, arg, printed, toServer, toClient, duplicated>>
------------------------------------------------------------------------------
(* The network                                                             *)

Lose(m) ==
    /\ \/ /\ toServer[m] > 0
          /\ toServer' = [toServer EXCEPT ![m] = @ - 1]
          /\ UNCHANGED toClient
       \/ /\ toClient[m] > 0
          /\ toClient' = [toClient EXCEPT ![m] = @ - 1]
          /\ UNCHANGED toServer
    /\ lost' = TRUE
    /\ UNCHANGED <<echoPc, arg, printed, serverBuf, duplicated>>

Duplicate(m) ==
    /\ duplicated < MaxDuplicates
    /\ \/ /\ toServer[m] > 0
          /\ toServer' = [toServer EXCEPT ![m] = @ + 1]
          /\ UNCHANGED toClient
       \/ /\ toClient[m] > 0
          /\ toClient' = [toClient EXCEPT ![m] = @ + 1]
          /\ UNCHANGED toServer
    /\ duplicated' = duplicated + 1
    /\ UNCHANGED <<echoPc, arg, printed, serverBuf, lost>>
------------------------------------------------------------------------------
Client == SkipArg \/ WriteArg \/ (\E m \in Message : ReadAnswer(m)) \/ ClientExits

Server == (\E m \in Message : Receive(m)) \/ SendBack

Network == \E m \in Message : Lose(m) \/ Duplicate(m)

\* The server waits for other clients, and the network rests.
EchoRests ==
    /\ echoPc \in {"success", "failure", "read"}
    /\ UNCHANGED echoVars

EchoNext == Client \/ ClientFails \/ Server \/ SendFails \/ Network \/ EchoRests

EchoSpec == EchoInit /\ [][EchoNext]_echoVars
------------------------------------------------------------------------------
\* What the client prints for an argument is never a message it has not sent
\* yet, and it is the argument itself if the network has duplicated nothing:
\* after a duplicate the client takes each answer for that to a later message.
EchoAnswers ==
    \A m \in Message :
        /\ printed[m] <= m
        /\ duplicated = 0 => printed[m] \in {Nothing, m}

\* If nothing is lost the client ends.  (A lost datagram leaves it reading: it
\* has no timeout and sends nothing again.)
EchoEnds == <>(lost \/ echoPc \in {"success", "failure"})
==============================================================================
