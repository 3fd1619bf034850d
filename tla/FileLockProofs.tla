--------------------------- MODULE FileLockProofs ---------------------------
(***************************************************************************)
(* Proofs about FileLock for every set of processes, every subset of them  *)
(* with lockfile_mex, and every bound on heartbeats, crashes and faults.   *)
(***************************************************************************)
EXTENDS FileLock, TLAPS

(* The inductive invariant.  Mutual exclusion is not inductive by itself:  *)
(* it needs to know that an object's handle_ is backed by the kernel lock, *)
(* that handle_ is set exactly in the states between the acquire and       *)
(* release(), and that heldKeys_ is only marked inside them.               *)
HandleStates == {"sign", "held", "beat"}

KernelBacksHandle == \A p \in MexProc : handle[p] => kernel = p

HandleInHold == \A p \in Proc : handle[p] <=> pc[p] \in HandleStates

VerifyIsSidecar == \A p \in Proc : pc[p] = "verify" => p \notin MexProc

KernelInHold == \A p \in Proc : kernel = p => p \in MexProc /\ handle[p]

RegistryInHold == \A p \in Proc : held[p] => pc[p] \in {"held", "beat"}

IInv == /\ TypeOK /\ KernelBacksHandle /\ HandleInHold /\ KernelInHold
        /\ VerifyIsSidecar /\ RegistryInHold

-----------------------------------------------------------------------------
LEMMA InitIInv == Init => IInv
  BY ProcAssumption DEF Init, IInv, TypeOK, States, Identity, KernelBacksHandle,
     HandleInHold, KernelInHold, VerifyIsSidecar, RegistryInHold, HandleStates

(* Every step keeps the variables in their types. *)
LEMMA TypeStep == TypeOK /\ [Next]_vars => TypeOK'
  <1> SUFFICES ASSUME TypeOK, [Next]_vars PROVE TypeOK'
    OBVIOUS
  <1> USE DEF TypeOK, States, Identity, Goto, BestEffort
  <1>1. ASSUME NEW p \in Proc, TryAcquire(p) PROVE TypeOK'
    BY <1>1 DEF TryAcquire
  <1>2. ASSUME NEW p \in Proc, KernelAcquire(p) PROVE TypeOK'
    BY <1>2 DEF KernelAcquire
  <1>3. ASSUME NEW p \in Proc, Sign(p) PROVE TypeOK'
    BY <1>3 DEF Sign
  <1>4. ASSUME NEW p \in Proc, SidecarRename(p) PROVE TypeOK'
    BY <1>4 DEF SidecarRename
  <1>5. ASSUME NEW p \in Proc, SidecarOwn(p) PROVE TypeOK'
    BY <1>5 DEF SidecarOwn
  <1>15. ASSUME NEW p \in Proc, SidecarLost(p) PROVE TypeOK'
    BY <1>15 DEF SidecarLost
  <1>6. ASSUME NEW p \in Proc, GiveUp(p) PROVE TypeOK'
    BY <1>6 DEF GiveUp
  <1>7. ASSUME NEW p \in Proc, HeartbeatRead(p) PROVE TypeOK'
    BY <1>7 DEF HeartbeatRead
  <1>8. ASSUME NEW p \in Proc, HeartbeatWrite(p) PROVE TypeOK'
    BY <1>8 DEF HeartbeatWrite
  <1>9. ASSUME NEW p \in Proc, Unlock(p) PROVE TypeOK'
    BY <1>9 DEF Unlock
  <1>10. ASSUME NEW p \in Proc, EraseBody(p) PROVE TypeOK'
    BY <1>10 DEF EraseBody
  <1>11. ASSUME NEW p \in Proc, Destroy(p) PROVE TypeOK'
    BY <1>11 DEF Destroy
  <1>12. ASSUME NEW p \in Proc, NestedAttempt(p) PROVE TypeOK'
    BY <1>12 DEF NestedAttempt
  <1>13. ASSUME NEW p \in Proc, Crash(p) PROVE TypeOK'
    BY <1>13, ProcAssumption DEF Crash, Buried
  <1>14. CASE UNCHANGED vars
    BY <1>14 DEF vars
  <1> QED
    BY <1>1, <1>2, <1>3, <1>4, <1>5, <1>6, <1>7, <1>8, <1>9, <1>10, <1>11,
       <1>12, <1>13, <1>14, <1>15 DEF Next, Step

(* Every step keeps the whole inductive invariant. *)
LEMMA IInvStep == IInv /\ [Next]_vars => IInv'
  <1> SUFFICES ASSUME IInv, [Next]_vars PROVE IInv'
    OBVIOUS
  <1>t. TypeOK'
    BY TypeStep DEF IInv
  <1> DEFINE Rest == /\ KernelBacksHandle /\ HandleInHold /\ KernelInHold
                    /\ VerifyIsSidecar /\ RegistryInHold
  <1> USE ProcAssumption DEF IInv, TypeOK, States, Identity, Goto, KernelBacksHandle,
      HandleInHold, KernelInHold, VerifyIsSidecar, RegistryInHold, HandleStates
  <1>1. ASSUME NEW p \in Proc, TryAcquire(p) PROVE Rest'
    BY <1>1 DEF TryAcquire
  <1>2. ASSUME NEW p \in Proc, KernelAcquire(p) PROVE Rest'
    BY <1>2 DEF KernelAcquire
  <1>3. ASSUME NEW p \in Proc, Sign(p) PROVE Rest'
    BY <1>3 DEF Sign
  <1>4. ASSUME NEW p \in Proc, SidecarRename(p) PROVE Rest'
    BY <1>4 DEF SidecarRename
  <1>5. ASSUME NEW p \in Proc, SidecarOwn(p) PROVE Rest'
    BY <1>5 DEF SidecarOwn
  <1>15. ASSUME NEW p \in Proc, SidecarLost(p) PROVE Rest'
    BY <1>15 DEF SidecarLost
  <1>6. ASSUME NEW p \in Proc, GiveUp(p) PROVE Rest'
    BY <1>6 DEF GiveUp
  <1>7. ASSUME NEW p \in Proc, HeartbeatRead(p) PROVE Rest'
    BY <1>7 DEF HeartbeatRead
  <1>8. ASSUME NEW p \in Proc, HeartbeatWrite(p) PROVE Rest'
    BY <1>8 DEF HeartbeatWrite
  <1>9. ASSUME NEW p \in Proc, Unlock(p) PROVE Rest'
    BY <1>9 DEF Unlock
  <1>10. ASSUME NEW p \in Proc, EraseBody(p) PROVE Rest'
    BY <1>10 DEF EraseBody
  <1>11. ASSUME NEW p \in Proc, Destroy(p) PROVE Rest'
    BY <1>11 DEF Destroy
  <1>12. ASSUME NEW p \in Proc, NestedAttempt(p) PROVE Rest'
    BY <1>12 DEF NestedAttempt
  <1>13. ASSUME NEW p \in Proc, Crash(p) PROVE Rest'
    BY <1>13 DEF Crash
  <1>14. CASE UNCHANGED vars
    BY <1>14 DEF vars
  <1> QED
    BY <1>t, <1>1, <1>2, <1>3, <1>4, <1>5, <1>6, <1>7, <1>8, <1>9, <1>10, <1>11,
       <1>12, <1>13, <1>14, <1>15 DEF Next, Step

(* The inductive invariant holds in every reachable state. *)
LEMMA SpecIInv == Spec => []IInv
  BY InitIInv, IInvStep, PTL DEF Spec

-----------------------------------------------------------------------------
(* Type correctness of FileLock. *)
THEOREM FileLockTypes == Spec => []TypeOK
  BY SpecIInv, PTL DEF IInv

(* Two processes with lockfile_mex never both own the lock: the promise of *)
(* FileLock.m, for any number of processes, heartbeats, nested attempts,   *)
(* failed body writes and crashes.                                         *)
THEOREM FileLockMutualExclusion == Spec => []MutualExclusion
  <1>1. IInv => MutualExclusion
    BY ProcAssumption DEF IInv, KernelBacksHandle, MutualExclusion, KernelHolding
  <1> QED
    BY <1>1, SpecIInv, PTL

(* A process that does not own the lock is never refused by the heldKeys_  *)
(* guard as if it did.                                                     *)
THEOREM FileLockRegistryHonest == Spec => []RegistryHonest
  <1>1. IInv => RegistryHonest
    BY DEF IInv, RegistryInHold, HandleInHold, HandleStates, RegistryHonest
  <1> QED
    BY <1>1, SpecIInv, PTL

-----------------------------------------------------------------------------
(* The holders of the abstract mutex after a step, given that the invariant *)
(* holds before and after it: they change only by one process entering an  *)
(* empty set or leaving a singleton.                                       *)
LEMMA MutexStep == IInv /\ IInv' /\ [Next]_vars => [M!Next]_KernelHolding
  <1> SUFFICES ASSUME IInv, IInv', [Next]_vars PROVE [M!Next]_KernelHolding
    OBVIOUS
  <1> USE ProcAssumption DEF KernelHolding
  <1> DEFINE Same == UNCHANGED handle => UNCHANGED KernelHolding
  <1>s. Same
    OBVIOUS
  <1>1. ASSUME NEW p \in Proc, KernelAcquire(p) PROVE M!Acquire(p) /\ p \in MexProc
    <2>1. p \in MexProc /\ kernel = Nobody /\ handle' = [handle EXCEPT ![p] = TRUE]
      BY <1>1 DEF KernelAcquire
    <2>2. KernelHolding = {}
      BY <2>1 DEF IInv, KernelBacksHandle
    <2>3. KernelHolding' = {p}
      BY <2>1, <2>2 DEF IInv, TypeOK
    <2> QED
      BY <2>1, <2>2, <2>3 DEF M!Acquire
  <1>2. ASSUME NEW p \in Proc, p \in MexProc, handle[p],
               handle' = [handle EXCEPT ![p] = FALSE]
        PROVE  M!Leave(p)
    <2>1. KernelHolding = {p}
      BY <1>2 DEF IInv, KernelBacksHandle
    <2>2. KernelHolding' = {}
      BY <1>2, <2>1 DEF IInv, TypeOK
    <2> QED
      BY <2>1, <2>2 DEF M!Leave
  <1>3. ASSUME NEW p \in Proc, p \notin MexProc \/ ~handle[p],
               handle' = [handle EXCEPT ![p] = FALSE]
        PROVE  UNCHANGED KernelHolding
    BY <1>3 DEF IInv, TypeOK
  <1>4. ASSUME NEW p \in Proc, p \notin MexProc,
               handle' = [handle EXCEPT ![p] = TRUE]
        PROVE  UNCHANGED KernelHolding
    BY <1>4 DEF IInv, TypeOK
  <1>5. ASSUME NEW p \in Proc, Unlock(p) \/ Crash(p) PROVE [M!Next]_KernelHolding
    <2>1. handle' = [handle EXCEPT ![p] = FALSE]
      BY <1>5 DEF Unlock, Crash
    <2> QED
      BY <2>1, <1>2, <1>3 DEF M!Next
  <1>6. ASSUME NEW p \in Proc, SidecarOwn(p) PROVE UNCHANGED KernelHolding
    <2>1. handle' = [handle EXCEPT ![p] = TRUE] /\ pc[p] = "verify" /\ pc'[p] = "held"
      BY <1>6 DEF SidecarOwn, Goto, IInv, TypeOK
    <2>2. p \notin MexProc
      BY <2>1 DEF IInv, VerifyIsSidecar
    <2> QED
      BY <2>1, <2>2, <1>4
  <1>7. ASSUME NEW p \in Proc,
               \/ TryAcquire(p) \/ Sign(p) \/ SidecarRename(p) \/ SidecarLost(p) \/ GiveUp(p)
               \/ HeartbeatRead(p) \/ HeartbeatWrite(p) \/ EraseBody(p)
               \/ Destroy(p) \/ NestedAttempt(p)
        PROVE  UNCHANGED KernelHolding
    BY <1>7, <1>s DEF TryAcquire, Sign, SidecarRename, SidecarLost, GiveUp, HeartbeatRead,
       HeartbeatWrite, EraseBody, Destroy, NestedAttempt
  <1>8. CASE UNCHANGED vars
    BY <1>8, <1>s DEF vars
  <1> QED
    BY <1>1, <1>5, <1>6, <1>7, <1>8 DEF Next, Step, M!Next

(* FileLock with lockfile_mex implements the abstract mutex: its initial   *)
(* states map to free locks and each of its steps to a Mutex step or to a  *)
(* stutter.                                                                *)
THEOREM FileLockImplementsMutex == Spec => ImplementsMutex
  <1>1. Init => M!Init
    BY ProcAssumption DEF Init, M!Init, KernelHolding
  <1>2. Spec => [][M!Next]_KernelHolding
    BY SpecIInv, MutexStep, PTL DEF Spec
  <1> QED
    BY <1>1, <1>2, PTL DEF Spec, ImplementsMutex, M!Spec
=============================================================================
