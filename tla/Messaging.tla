------------------------------ MODULE Messaging ------------------------------
(***************************************************************************)
(* The message layer of atm/ (namespace messaging): queue.h, sender.h,     *)
(* receiver.h, dispatcher.h and template_dispatcher.h.  Each machine runs  *)
(* in a thread of its own and owns one queue; a Sender is a reference to a *)
(* queue.  The machines differ only in their handlers, which are in        *)
(* AtmMachine, BankMachine and InterfaceMachine.                           *)
(***************************************************************************)
EXTENDS Integers, Sequences, FiniteSets

CONSTANTS
    Digits,        \* the digit keys of main.cpp:32-41
    CorrectPin,    \* "1937" in bank_machine.h:27
    Amount         \* 50, the only amount main.cpp:48 asks for

ASSUME PayloadAssumption ==
    /\ CorrectPin \in Seq(Digits)
    /\ Amount \in Nat \ {0}

\* The three Receivers of main.cpp, by the machine that owns each.
Machines == {"atm", "bank", "interface"}

VARIABLES
    queue,    \* queue[m]: the messages of m's Queue, oldest first
    asleep,   \* the machines blocked in cond_var_.wait (queue.h:38)
    running   \* the machines whose Run() has not returned

msgVars == <<queue, asleep, running>>

(***************************************************************************)
(* Every message is a record with a type; digits is the payload of         *)
(* DigitPressed (one digit) and of VerifyPin (the PIN), and empty in every *)
(* other message.  Accounts and amounts have one value each in main.cpp.   *)
(***************************************************************************)
Msg(t) == [type |-> t, digits |-> << >>]
DigitMsg(t, s) == [type |-> t, digits |-> s]

CloseQueue == Msg("CloseQueue")

\* What Push does to the queues, and what WaitAndPop does to them.
Push(q, m, msg) == [q EXCEPT ![m] = Append(@, msg)]
Pop(q, m) == [q EXCEPT ![m] = Tail(@)]

\* Mutant: the waiters are not notified.
SentUnnoticed(q, to) == queue' = q /\ asleep' = asleep

(***************************************************************************)
(* Push notifies all waiters before it releases the mutex: the machines    *)
(* that were sent to are awake afterwards.                                 *)
(***************************************************************************)
Sent(q, to) == queue' = q /\ asleep' = asleep \ to

\* The thread of m holds its mutex in WaitAndPop with a message to take.
Awake(m) == m \in running /\ m \notin asleep
Receives(m, t) == Awake(m) /\ queue[m] # << >> /\ Head(queue[m]).type = t

(***************************************************************************)
(* WaitAndPop with an empty queue: the mutex is released and the thread    *)
(* sleeps, in one step of wait().  A spurious wakeup finds the predicate   *)
(* false and sleeps again, so it changes nothing.                          *)
(***************************************************************************)
Block(m) ==
    /\ Awake(m)
    /\ queue[m] = << >>
    /\ asleep' = asleep \cup {m}
    /\ UNCHANGED <<queue, running>>

\* No handler of the chain matches: Dispatch returns false and
\* WaitAndDispatch goes round its loop; the message is gone.
Discard(m, handled) ==
    /\ Awake(m)
    /\ queue[m] # << >>
    /\ Head(queue[m]).type \notin handled \cup {"CloseQueue"}
    /\ queue' = Pop(queue, m)
    /\ UNCHANGED <<asleep, running>>

\* CloseQueue reaches the first Dispatcher, which throws; Run catches it.
Close(m) ==
    /\ Receives(m, "CloseQueue")
    /\ queue' = Pop(queue, m)
    /\ running' = running \ {m}
    /\ UNCHANGED asleep

MessagingInit ==
    /\ queue = [m \in Machines |-> << >>]
    /\ asleep = {}
    /\ running = Machines

\* How many copies of a message are in a queue.
Count(q, msg) == Cardinality({i \in DOMAIN q : q[i] = msg})
==============================================================================
