----------------------- MODULE CoordinatedWriteProofs -----------------------
(***************************************************************************)
(* Proofs about CoordinatedWrite for every set of processes and every      *)
(* bound.  The lock part is not proved again: the actions are FileLock's   *)
(* with the writer's conjuncts added, so FileLockProofs' invariant holds.  *)
(***************************************************************************)
EXTENDS CoordinatedWrite, TLAPS

LockP == INSTANCE FileLockProofs WITH MexProc <- Proc

(* Every step of the writer is a step of FileLock or leaves it alone. *)
LEMMA LockStep == [Next]_vars => [Lock!Next]_lockVars
  <1> SUFFICES ASSUME [Next]_vars PROVE [Lock!Next]_lockVars
    OBVIOUS
  <1>1. ASSUME NEW p \in Proc, Acquire(p) PROVE Lock!Next
    BY <1>1 DEF Acquire, Lock!Next, Lock!Step
  <1>2. ASSUME NEW p \in Proc, Locking(p) PROVE Lock!Next
    BY <1>2 DEF Locking, Lock!Next, Lock!Step
  <1>3. ASSUME NEW p \in Proc, Callback(p) PROVE Lock!Next
    BY <1>3 DEF Callback, Lock!Next, Lock!Step
  <1>4. ASSUME NEW p \in Proc, Release(p) PROVE Lock!Next
    BY <1>4 DEF Release, Lock!Next, Lock!Step
  <1>5. ASSUME NEW p \in Proc, Crash(p) PROVE Lock!Next
    BY <1>5 DEF Crash, Lock!Next
  <1>6. ASSUME NEW p \in Proc,
               \/ Merge(p) \/ Revalidate(p) \/ Rename(p) \/ RenameUnconfirmed(p)
               \/ RenameThrows(p) \/ BackoffOver(p)
        PROVE  UNCHANGED lockVars
    BY <1>6 DEF Merge, Revalidate, Rename, RenameUnconfirmed, RenameThrows, BackoffOver
  <1>7. CASE UNCHANGED vars
    BY <1>7 DEF vars
  <1> QED
    BY <1>1, <1>2, <1>3, <1>4, <1>5, <1>6, <1>7 DEF Next, Write

(* By its shape the specification is one of FileLock, too. *)
LEMMA LockBehaviour == Spec => Lock!Spec
  <1>1. Init => Lock!Init
    BY DEF Init
  <1> QED
    BY <1>1, LockStep, PTL DEF Spec, Lock!Spec, lockVars, Lock!vars

(* FileLock as CoordinatedWrite instantiates it and as FileLockProofs      *)
(* extends it is one specification.                                        *)
LEMMA SameLock == Lock!Spec => LockP!Spec
  <1>1. Lock!Init => LockP!Init
    BY DEF Lock!Init, LockP!Init
  <1>2. [Lock!Next]_(Lock!vars) => [LockP!Next]_(LockP!vars)
    BY DEF Lock!Next, LockP!Next, Lock!Step, LockP!Step, Lock!vars, LockP!vars,
       Lock!TryAcquire, Lock!KernelAcquire, Lock!Sign,
       Lock!SidecarRename, Lock!SidecarOwn, Lock!SidecarLost,
       Lock!GiveUp, Lock!HeartbeatRead, Lock!HeartbeatWrite,
       Lock!NestedAttempt, Lock!Unlock, Lock!EraseBody, Lock!Destroy,
       Lock!Crash, Lock!Buried, Lock!Goto, Lock!BestEffort,
       LockP!TryAcquire, LockP!KernelAcquire, LockP!Sign,
       LockP!SidecarRename, LockP!SidecarOwn, LockP!SidecarLost,
       LockP!GiveUp, LockP!HeartbeatRead, LockP!HeartbeatWrite,
       LockP!NestedAttempt, LockP!Unlock, LockP!EraseBody,
       LockP!Destroy, LockP!Crash, LockP!Buried, LockP!Goto,
       LockP!BestEffort
  <1> QED
    BY <1>1, <1>2, PTL DEF Lock!Spec, LockP!Spec

LEMMA LockInvariant == Spec => []LockP!IInv
  BY SameLock, LockBehaviour, LockP!SpecIInv, WriterAssumption

-----------------------------------------------------------------------------
(* The inductive invariant of the data.  What makes an acknowledged batch  *)
(* safe is that the temp file of a writer between load and rename is still *)
(* the current file plus its batch; that is inductive because only a       *)
(* holder of the lock is in that window, and there is at most one.         *)
Window == {"check", "rename", "backoff"}

WriteTypes ==
  /\ phase \in [Proc -> Phases]
  /\ attempt \in [Proc -> Nat]
  /\ temp \in [Proc -> Seq(Batch)]
  /\ file \in Seq(Batch)
  /\ next \in [Proc -> Nat \ {0}]
  /\ acked \subseteq Batch
  /\ misses \in Nat

PhaseInHold == \A p \in Proc : phase[p] # "none" => handle[p]

TempFresh ==
  \A p \in Proc : phase[p] \in Window => temp[p] = Append(file, <<p, next[p]>>)

WInv == WriteTypes /\ PhaseInHold /\ TempFresh /\ AckedDurable

(* The lock's invariant, in the terms used below. *)
LEMMA LockFacts ==
  ASSUME LockP!IInv
  PROVE  /\ pc \in [Proc -> Lock!States]
         /\ handle \in [Proc -> BOOLEAN]
         /\ Lock!TypeOK
         /\ \A p \in Proc : pc[p] \in {"held", "beat"} => handle[p]
         /\ \A p \in Proc : handle[p] => kernel = p
  BY DEF LockP!IInv, LockP!TypeOK, Lock!TypeOK, LockP!States, Lock!States,
     LockP!Identity, Lock!Identity, LockP!HandleInHold, LockP!HandleStates,
     LockP!KernelBacksHandle

(* Appending a batch adds it to the batches written, and nothing else. *)
LEMMA WrittenAppend ==
  ASSUME file \in Seq(Batch), NEW b \in Batch, file' = Append(file, b)
  PROVE  Written' = Written \cup {b}
  <1>1. Len(file') = Len(file) + 1 /\ Len(file) \in Nat
    OBVIOUS
  <1>2. \A i \in 1..Len(file) : file'[i] = file[i]
    OBVIOUS
  <1>3. file'[Len(file) + 1] = b
    OBVIOUS
  <1> QED
    BY <1>1, <1>2, <1>3 DEF Written

LEMMA InitWInv == Init => WInv
  BY DEF Init, WInv, WriteTypes, Phases, PhaseInHold, TempFresh, Window, AckedDurable, Written

(* A step of the lock that is not a release or a crash keeps every handle. *)
LEMMA LockingKeepsHandles ==
  ASSUME NEW p \in Proc, LockP!IInv, Acquire(p) \/ Locking(p) \/ Callback(p)
  PROVE  /\ \A q \in Proc : handle[q] => handle'[q]
         /\ UNCHANGED writeVars
  <1> USE LockFacts
  <1>1. CASE Acquire(p)
    BY <1>1 DEF Acquire, Lock!TryAcquire
  <1>2. CASE Locking(p)
    <2>1. CASE Lock!KernelAcquire(p)
      BY <1>2, <2>1 DEF Locking, Lock!KernelAcquire
    <2>2. CASE ~Lock!KernelAcquire(p)
      BY <1>2, <2>2 DEF Locking, Lock!Sign, Lock!GiveUp, Lock!HeartbeatWrite,
         Lock!EraseBody, Lock!Destroy
    <2> QED BY <2>1, <2>2
  <1>3. CASE Callback(p)
    BY <1>3 DEF Callback, Lock!HeartbeatRead, Lock!NestedAttempt
  <1> QED
    BY <1>1, <1>2, <1>3

-----------------------------------------------------------------------------
(* The data steps of the holder p, and those of the lock. *)
LEMMA WInvStep ==
  ASSUME LockP!IInv, WInv, [Next]_vars
  PROVE  WInv'
  <1> USE DEF WInv, WriteTypes, Phases, Ended, PhaseInHold, TempFresh, Window, Batch, Turn
  <1> USE LockFacts
  <1>1. ASSUME NEW p \in Proc, Acquire(p) \/ Locking(p) \/ Callback(p) PROVE WInv'
    <2>1. UNCHANGED writeVars /\ \A q \in Proc : handle[q] => handle'[q]
      BY <1>1, LockingKeepsHandles
    <2>2. UNCHANGED Written
      BY <2>1 DEF writeVars, Written
    <2> QED
      BY <2>1, <2>2 DEF writeVars, AckedDurable
  <1>2. ASSUME NEW p \in Proc, Merge(p) PROVE WInv'
    <2>1. UNCHANGED <<handle, Written>>
      BY <1>2 DEF Merge, lockVars, Written
    <2>2. handle[p] /\ <<p, next[p]>> \in Batch
      BY <1>2 DEF Merge
    <2>3. phase' = [phase EXCEPT ![p] = "check"]
          /\ temp' = [temp EXCEPT ![p] = Append(file, <<p, next[p]>>)]
          /\ UNCHANGED <<attempt, file, next, acked, misses>>
      BY <1>2 DEF Merge
    <2>4. WriteTypes'
      <3>1. Append(file, <<p, next[p]>>) \in Seq(Batch)
        BY <2>2
      <3> QED
        BY <1>2, <2>3, <3>1
    <2>5. PhaseInHold' /\ TempFresh'
      BY <1>2, <2>1, <2>2, <2>3
    <2> QED
      BY <2>1, <2>3, <2>4, <2>5 DEF AckedDurable
  <1>3. ASSUME NEW p \in Proc, Revalidate(p) \/ BackoffOver(p) PROVE WInv'
    <2>1. UNCHANGED <<handle, attempt, temp, file, next, acked, misses>>
      BY <1>3 DEF Revalidate, BackoffOver, lockVars
    <2>2. UNCHANGED Written
      BY <2>1 DEF Written
    <2> QED
      BY <1>3, <2>1, <2>2 DEF Revalidate, BackoffOver, AckedDurable
  <1>4. ASSUME NEW p \in Proc, Rename(p) \/ RenameUnconfirmed(p) PROVE WInv'
    <2>1. phase[p] = "rename" /\ file' = temp[p] /\ UNCHANGED <<handle, temp, attempt>>
      BY <1>4 DEF Rename, RenameUnconfirmed, lockVars
    <2>2. file' = Append(file, <<p, next[p]>>)
      BY <1>4, <2>1
    <2>3. \A q \in Proc : q # p => phase[q] \notin Window
      <3>1. handle[p]
        BY <2>1
      <3> QED
        BY <3>1
    <2>4. Written' = Written \cup {<<p, next[p]>>}
      BY <2>2, WrittenAppend
    <2>5. WriteTypes'
      <3>1. <<p, next[p]>> \in Batch
        BY <1>4
      <3>2. file' \in Seq(Batch) /\ UNCHANGED <<attempt, temp>>
        BY <1>4, <2>1
      <3>3. CASE Rename(p)
        BY SMTT(30), <1>4, <3>1, <3>2, <3>3 DEF Rename
      <3>4. CASE RenameUnconfirmed(p)
        BY SMTT(30), <1>4, <3>2, <3>4 DEF RenameUnconfirmed
      <3> QED
        BY <1>4, <3>3, <3>4
    <2>6. phase' = [phase EXCEPT ![p] = phase'[p]] /\ phase'[p] \in {"done", "failed"}
      BY <1>4 DEF Rename, RenameUnconfirmed
    <2>7. PhaseInHold'
      BY <2>1, <2>6
    <2>8. TempFresh'
      BY <2>3, <2>6
    <2>9. acked' \subseteq acked \cup {<<p, next[p]>>}
      BY <1>4 DEF Rename, RenameUnconfirmed
    <2> QED
      BY <2>4, <2>5, <2>7, <2>8, <2>9 DEF AckedDurable
  <1>5. ASSUME NEW p \in Proc, RenameThrows(p) PROVE WInv'
    <2>1. UNCHANGED <<handle, temp, file, next, acked>> /\ UNCHANGED Written
      BY <1>5 DEF RenameThrows, lockVars, Written
    <2>2. phase[p] = "rename" /\ phase' = [phase EXCEPT ![p] = phase'[p]]
          /\ phase'[p] \in {"backoff", "failed"}
      BY <1>5 DEF RenameThrows
    <2>3. attempt' = [attempt EXCEPT ![p] = @ + 1] /\ misses' = misses + 1
      BY <1>5 DEF RenameThrows
    <2>4. WriteTypes'
      <3>1. phase' \in [Proc -> Phases]
        BY <2>2
      <3>2. attempt' \in [Proc -> Nat] /\ misses' \in Nat
        BY <2>3
      <3> QED
        BY <2>1, <3>1, <3>2
    <2>5. PhaseInHold' /\ TempFresh'
      BY <1>5, <2>1, <2>2
    <2> QED
      BY <2>1, <2>4, <2>5 DEF AckedDurable
  <1>6. ASSUME NEW p \in Proc, Release(p) \/ Crash(p) PROVE WInv'
    <2>1. handle' = [handle EXCEPT ![p] = FALSE]
      BY <1>6 DEF Release, Crash, Lock!Unlock, Lock!Crash
    <2>2. UNCHANGED <<file, acked, misses>> /\ UNCHANGED Written
      <3>1. UNCHANGED <<file, acked, misses>>
        BY <1>6 DEF Release, Crash
      <3> QED
        BY <3>1 DEF Written
    <2>3. phase' = [phase EXCEPT ![p] = "none"] /\ temp' = [temp EXCEPT ![p] = <<>>]
      BY <1>6 DEF Release, Crash
    <2>4. WriteTypes'
      <3>1. <<>> \in Seq(Batch)
        OBVIOUS
      <3>2. attempt' = [attempt EXCEPT ![p] = 0]
        BY <1>6 DEF Release, Crash
      <3>3. next' = next \/ next' = [next EXCEPT ![p] = 1]
        BY <1>6 DEF Release, Crash
      <3>4. next' \in [Proc -> Nat \ {0}]
        BY <3>3
      <3> QED
        BY <1>6, <2>2, <2>3, <3>1, <3>2, <3>4
    <2>5. PhaseInHold'
      BY <2>1, <2>3
    <2>6. TempFresh'
      <3>1. \A q \in Proc : q # p => next'[q] = next[q]
        BY <1>6 DEF Release, Crash
      <3> QED
        BY <2>2, <2>3, <3>1
    <2> QED
      BY <2>2, <2>4, <2>5, <2>6 DEF AckedDurable
  <1>7. CASE UNCHANGED vars
    BY <1>7 DEF vars, lockVars, writeVars, AckedDurable, Written
  <1> QED
    BY <1>1, <1>2, <1>3, <1>4, <1>5, <1>6, <1>7 DEF Next, Write

LEMMA SpecWInv == Spec => [](LockP!IInv /\ WInv)
  BY InitWInv, WInvStep, LockInvariant, PTL DEF Spec

-----------------------------------------------------------------------------
(* Type correctness of the whole composition. *)
THEOREM CoordinatedWriteTypes == Spec => []TypeOK
  <1>1. LockP!IInv /\ WInv => TypeOK
    BY LockFacts DEF WInv, WriteTypes, TypeOK
  <1> QED
    BY <1>1, SpecWInv, PTL

(* An acknowledged batch is never lost from the shared file. *)
THEOREM CoordinatedWriteAckedDurable == Spec => []AckedDurable
  <1>1. WInv => AckedDurable
    BY DEF WInv
  <1> QED
    BY <1>1, SpecWInv, PTL

(* Nothing takes the lock from a writer between stillHeldByMe and the last *)
(* movefile attempt.                                                       *)
THEOREM CoordinatedWriteRenamerOwnsLock == Spec => []RenamerOwnsLock
  <1>1. LockP!IInv /\ WInv => RenamerOwnsLock
    BY LockFacts DEF WInv, PhaseInHold, RenamerOwnsLock
  <1> QED
    BY <1>1, SpecWInv, PTL

(* The shared file is an append-only log of batches. *)
THEOREM CoordinatedWriteAppendOnly == Spec => AppendOnly
  <1> DEFINE A == \E p \in Proc : file' = Append(file, <<p, next[p]>>)
  <1>1. WInv /\ [Next]_vars => [A]_file
    <2> SUFFICES ASSUME WInv, [Next]_vars PROVE [A]_file
      OBVIOUS
    <2>1. ASSUME NEW p \in Proc, Rename(p) \/ RenameUnconfirmed(p) PROVE A
      BY <2>1 DEF Rename, RenameUnconfirmed, Turn, WInv, TempFresh, Window
    <2>2. ASSUME NEW p \in Proc,
                 \/ Acquire(p) \/ Locking(p) \/ Callback(p) \/ Merge(p)
                 \/ Revalidate(p) \/ RenameThrows(p) \/ BackoffOver(p)
                 \/ Release(p) \/ Crash(p)
          PROVE  UNCHANGED file
      BY <2>2 DEF Acquire, Locking, Callback, Merge, Revalidate, RenameThrows,
         BackoffOver, Release, Crash, writeVars
    <2>3. CASE UNCHANGED vars
      BY <2>3 DEF vars, writeVars
    <2> QED
      BY <2>1, <2>2, <2>3 DEF Next, Write
  <1> QED
    BY <1>1, SpecWInv, PTL DEF Spec, AppendOnly
=============================================================================
