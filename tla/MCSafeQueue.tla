----------------------------- MODULE MCSafeQueue -----------------------------
(* SafeQueue with two threads that push and two that pop. *)
EXTENDS SafeQueue
==============================================================================
