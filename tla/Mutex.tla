------------------------------- MODULE Mutex -------------------------------
(***************************************************************************)
(* What FileLock promises its callers (libs/Concurrency/FileLock.m,        *)
(* "per-key mutual exclusion across MATLAB processes"): a set of holders   *)
(* that never has more than one member.  A holder leaves by releasing or   *)
(* by dying; in both cases the lock becomes free.                          *)
(***************************************************************************)
CONSTANT Client          \* the processes that may hold the lock

VARIABLE holders         \* the processes that hold it now

TypeOK == holders \subseteq Client

Init == holders = {}

Acquire(c) == holders = {} /\ holders' = {c}

Leave(c) == holders = {c} /\ holders' = {}

Next == \E c \in Client : Acquire(c) \/ Leave(c)

Spec == Init /\ [][Next]_holders
=============================================================================
