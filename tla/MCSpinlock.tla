---------------------------- MODULE MCSpinlock ----------------------------
(* Two processors, each with a thread and a handler, and two nested locks:   *)
(* enough for ABBA and for a handler meeting its own thread's lock.          *)
EXTENDS Spinlock

MCLocks == 1 .. 2
===========================================================================
