----------------------------- MODULE CoarseSafeSet -----------------------------
(***************************************************************************)
(* CoarseSafeSet of common/safe_set.cpp, a sorted list behind one mutex.   *)
(* Nothing in the repository uses it; the threads here call add and remove *)
(* as they like.  A node is named by its key: keys are not repeated, and   *)
(* no one sees a node without the mutex.                                   *)
(***************************************************************************)
EXTENDS Integers, Reachability

CONSTANTS
    SetThreads,     \* the threads
    SetKeys,        \* the keys they add and remove
    SetTimes,       \* bound: how many calls each makes
    SetMin, SetMax, \* INT32_MIN and INT32_MAX, the sentinels
    NoOne           \* a free mutex, no call, no answer; no node

ASSUME CoarseAssumption ==
    /\ SetTimes \in Nat
    /\ SetMin \in Int /\ SetMax \in Int /\ SetMin < SetMax
    /\ SetKeys \subseteq SetMin + 1 .. SetMax - 1
    /\ NoOne \notin SetThreads /\ NoOne \notin BOOLEAN
    /\ NoOne \notin SetKeys \cup {SetMin, SetMax}
    /\ NoOne \notin [op : {"add", "remove"}, key : SetKeys]

SetNodes == SetKeys \cup {SetMin, SetMax}

VARIABLES
    setNext,            \* next of each node on the list
    mu_,                \* who holds the mutex
    setPc, setCall,     \* where each thread is, and its call: [op, key]
    setPre, setCur,     \* pre and cur
    setAnswer,          \* what the call will return
    setLeft,            \* the calls it has left
    setSeen             \* history: whether its key was in the set since the call

coarseVars == <<setNext, mu_, setPc, setCall, setPre, setCur, setAnswer, setLeft, setSeen>>

CoarseInit ==
    /\ setNext = [n \in SetNodes |-> IF n = SetMin THEN SetMax ELSE NoOne]
    /\ mu_ = NoOne
    /\ setPc = [t \in SetThreads |-> "call"]
    /\ setCall = [t \in SetThreads |-> NoOne]
    /\ setPre = [t \in SetThreads |-> SetMin]
    /\ setCur = [t \in SetThreads |-> SetMin]
    /\ setAnswer = [t \in SetThreads |-> NoOne]
    /\ setLeft = [t \in SetThreads |-> SetTimes]
    /\ setSeen = [t \in SetThreads |-> {}]

CoarseGoto(t, from, to) == setPc[t] = from /\ setPc' = [setPc EXCEPT ![t] = to]

\* The nodes a walk from the head meets, and their keys.
SetList == Reached(SetMin, setNext, NoOne)
SetMembers == SetList \ {SetMin, SetMax}

ObserveSet ==
    setSeen' = [t \in SetThreads |->
                   IF setCall'[t] = NoOne THEN {}
                   ELSE {setCall'[t].key \in SetMembers'}
                            \cup (IF setCall[t] = NoOne THEN {} ELSE setSeen[t])]
------------------------------------------------------------------------------
CallSet(t) ==
    /\ setLeft[t] > 0
    /\ CoarseGoto(t, "call", "lock")
    /\ \E op \in {"add", "remove"}, k \in SetKeys : setCall' = [setCall EXCEPT ![t] = [op |-> op, key |-> k]]
    /\ setLeft' = [setLeft EXCEPT ![t] = @ - 1]
    /\ UNCHANGED <<setNext, mu_, setPre, setCur, setAnswer>>

\* Mutant: the mutex is not taken.
LockNothing(t) ==
    /\ CoarseGoto(t, "lock", "walk")
    /\ setPre' = [setPre EXCEPT ![t] = SetMin]
    /\ setCur' = [setCur EXCEPT ![t] = setNext[SetMin]]
    /\ UNCHANGED <<setNext, mu_, setCall, setAnswer, setLeft>>

LockSet(t) ==
    /\ CoarseGoto(t, "lock", "walk")
    /\ mu_ = NoOne
    /\ mu_' = t
    /\ setPre' = [setPre EXCEPT ![t] = SetMin]
    /\ setCur' = [setCur EXCEPT ![t] = setNext[SetMin]]
    /\ UNCHANGED <<setNext, setCall, setAnswer, setLeft>>

WalkSet(t) ==
    /\ setPc[t] = "walk"
    /\ setCur[t] < setCall[t].key
    /\ setPre' = [setPre EXCEPT ![t] = setCur[t]]
    /\ setCur' = [setCur EXCEPT ![t] = setNext[setCur[t]]]
    /\ UNCHANGED <<setNext, mu_, setPc, setCall, setAnswer, setLeft>>

\* At the first key that is not smaller: add links a node in front of it or
\* finds it there, remove takes it out or finds another.
ActOnSet(t) ==
    LET k == setCall[t].key
        there == setCur[t] = k
    IN  /\ CoarseGoto(t, "walk", "unlock")
        /\ setCur[t] >= k
        /\ setNext' =
              CASE setCall[t].op = "add" /\ ~there -> [setNext EXCEPT ![k] = setCur[t], ![setPre[t]] = k]
                [] setCall[t].op = "remove" /\ there -> [setNext EXCEPT ![setPre[t]] = setNext[k]]
                [] OTHER -> setNext
        /\ setAnswer' = [setAnswer EXCEPT ![t] = (setCall[t].op = "add") # there]
        /\ UNCHANGED <<mu_, setCall, setPre, setCur, setLeft>>

ReturnFromSet(t) ==
    /\ CoarseGoto(t, "unlock", "call")
    /\ mu_' = NoOne
    /\ setCall' = [setCall EXCEPT ![t] = NoOne]
    /\ setAnswer' = [setAnswer EXCEPT ![t] = NoOne]
    /\ UNCHANGED <<setNext, setPre, setCur, setLeft>>
------------------------------------------------------------------------------
CoarseStep(t) == CallSet(t) \/ LockSet(t) \/ WalkSet(t) \/ ActOnSet(t) \/ ReturnFromSet(t)

CoarseDone ==
    /\ \A t \in SetThreads : setPc[t] = "call" /\ setLeft[t] = 0
    /\ UNCHANGED coarseVars

CoarseNext == (\E t \in SetThreads : CoarseStep(t) /\ ObserveSet) \/ CoarseDone

CoarseSpec == CoarseInit /\ [][CoarseNext]_coarseVars
------------------------------------------------------------------------------
\* Every call takes effect at one moment between its call and its return, and
\* answers what the set was like then.
CoarseShared == INSTANCE SharedSet WITH
    Thread <- SetThreads, Key <- SetKeys, None <- NoOne,
    members <- SetMembers, call <- setCall, answer <- setAnswer, seen <- setSeen

CoarseIsSet == CoarseShared!Spec
==============================================================================
