------------------------------ MODULE FileLock ------------------------------
(***************************************************************************)
(* The life of the FileLock objects that the processes of a cluster create *)
(* for ONE key (libs/Concurrency/FileLock.m, private/mex_src/              *)
(* lockfile_mex.c).  A lock is two files: <key>.lock, on which the kernel  *)
(* lock is taken, and <key>.lock.body, which names the holder.  A process  *)
(* of MexProc has the compiled lockfile_mex; any other process falls back  *)
(* to the sidecar protocol, in which the body file is itself the lock.     *)
(*                                                                         *)
(* One action is one effect on the shared files together with the          *)
(* process-local assignments around it.  MATLAB runs a process's code and  *)
(* its timer callbacks on one thread, so a process has one pc, and a       *)
(* heartbeat in progress ("beat") stands in for the code it interrupted.   *)
(***************************************************************************)
EXTENDS Naturals

CONSTANTS Proc,       \* processes (one ClusterIdentity each)
          MexProc,    \* those with lockfile_mex on their path
          Nobody,     \* no kernel lock / no body file
          Ghost,      \* the identity of a process that has died
          MaxBeats,   \* heartbeats per hold (bound)
          MaxCrashes, \* crashes in a behaviour (bound)
          MaxFaults   \* file operations that fail in a behaviour (bound)

ASSUME ProcAssumption == /\ MexProc \subseteq Proc
                         /\ Nobody \notin Proc
                         /\ Ghost \notin Proc
                         /\ Nobody # Ghost

ASSUME BoundAssumption == {MaxBeats, MaxCrashes, MaxFaults} \subseteq Nat

VARIABLES pc,       \* where each process stands in its use of the lock
          kernel,   \* holder of the kernel lock on lockPath_ (and of its lf_fdTable entry)
          body,     \* the identity in bodyPath_
          held,     \* lockPath_ is in the process's heldKeys_ registry
          handle,   \* handle_ of the process's (outer) lock object is non-empty
          seen,     \* the body text heartbeat_ has read and is about to write back
          beats,    \* heartbeats of the current hold
          crashes, faults

vars == <<pc, kernel, body, held, handle, seen, beats, crashes, faults>>

(***************************************************************************)
(* "idle"     no lock object            "verify"  sidecar: body renamed in *)
(* "wait"     inside tryAcquire         "unsign"  release: kernel unlocked *)
(* "sign"     kernel lock taken         "destroy" object awaits delete()   *)
(* "held"     caller's critical section "beat"    heartbeat_ has read      *)
(***************************************************************************)
States == {"idle", "wait", "sign", "verify", "held", "beat", "unsign", "destroy"}

Identity == Proc \cup {Ghost}

TypeOK ==
  /\ pc \in [Proc -> States]
  /\ kernel \in Proc \cup {Nobody}
  /\ body \in Identity \cup {Nobody}
  /\ held \in [Proc -> BOOLEAN]
  /\ handle \in [Proc -> BOOLEAN]
  /\ seen \in [Proc -> Identity \cup {Nobody}]
  /\ \A p \in Proc : pc[p] = "beat" => seen[p] # Nobody
  /\ beats \in [Proc -> Nat]
  /\ crashes \in Nat
  /\ faults \in Nat

Init ==
  /\ pc = [p \in Proc |-> "idle"]
  /\ kernel = Nobody
  /\ body = Nobody
  /\ held = [p \in Proc |-> FALSE]
  /\ handle = [p \in Proc |-> FALSE]
  /\ seen = [p \in Proc |-> Nobody]
  /\ beats = [p \in Proc |-> 0]
  /\ crashes = 0
  /\ faults = 0

Goto(p, from, to) == pc[p] = from /\ pc' = [pc EXCEPT ![p] = to]

(* A file operation in a try/catch that swallows its error: the body       *)
(* becomes b, or (a bounded number of times) stays what it was.            *)
BestEffort(b) ==
  \/ body' = b /\ faults' = faults
  \/ faults < MaxFaults /\ body' = body /\ faults' = faults + 1

-----------------------------------------------------------------------------
(* Mutants: slips in the code below that the properties must catch.        *)

(* The kernel lock is reported taken without being tested. *)
KernelAcquire_Untested(p) ==
  /\ p \in MexProc
  /\ Goto(p, "wait", "sign")
  /\ kernel' = p
  /\ handle' = [handle EXCEPT ![p] = TRUE]
  /\ UNCHANGED <<body, held, seen, beats, crashes, faults>>

(* heartbeat_ does not test that there is a body to renew. *)
HeartbeatRead_NoExist(p) ==
  /\ handle[p]
  /\ beats[p] < MaxBeats
  /\ Goto(p, "held", "beat")
  /\ seen' = [seen EXCEPT ![p] = body]
  /\ beats' = [beats EXCEPT ![p] = @ + 1]
  /\ UNCHANGED <<kernel, body, held, handle, crashes, faults>>

(* POSIX record locks instead of OFD locks: closing the nested attempt's   *)
(* descriptor drops the lock that the process holds through another one.   *)
NestedAttempt_PosixClose(p) ==
  /\ pc[p] = "held"
  /\ kernel' = IF kernel = p THEN Nobody ELSE kernel
  /\ held' = [held EXCEPT ![p] = FALSE]
  /\ BestEffort(Nobody)
  /\ UNCHANGED <<pc, handle, seen, beats, crashes>>

(* release() forgets the registry entry. *)
Unlock_KeepsEntry(p) ==
  /\ Goto(p, "held", "unsign")
  /\ handle' = [handle EXCEPT ![p] = FALSE]
  /\ kernel' = IF p \in MexProc THEN Nobody ELSE kernel
  /\ beats' = [beats EXCEPT ![p] = 0]
  /\ UNCHANGED <<body, held, seen, crashes, faults>>

(* release() forgets the descriptor instead of closing it. *)
Unlock_LeaksKernel(p) ==
  /\ Goto(p, "held", "unsign")
  /\ held' = [held EXCEPT ![p] = FALSE]
  /\ handle' = [handle EXCEPT ![p] = FALSE]
  /\ beats' = [beats EXCEPT ![p] = 0]
  /\ UNCHANGED <<kernel, body, seen, crashes, faults>>

(* delete() erases the body only for an object that has held the lock. *)
Destroy_KeepsBody(p) ==
  /\ Goto(p, "destroy", "idle")
  /\ held' = [held EXCEPT ![p] = FALSE]
  /\ UNCHANGED <<kernel, body, handle, seen, beats, crashes, faults>>

-----------------------------------------------------------------------------
(* tryAcquire: the in-process guard has let the call through. *)
TryAcquire(p) ==
  /\ ~held[p]
  /\ Goto(p, "idle", "wait")
  /\ UNCHANGED <<kernel, body, held, handle, seen, beats, crashes, faults>>

(* cmd_acquire got F_OFD_SETLK / LockFileEx, and lf_table_insert a slot. *)
KernelAcquire(p) ==
  /\ p \in MexProc
  /\ kernel = Nobody
  /\ Goto(p, "wait", "sign")
  /\ kernel' = p
  /\ handle' = [handle EXCEPT ![p] = TRUE]
  /\ UNCHANGED <<body, held, seen, beats, crashes, faults>>

(* acquireViaMex_ after the kernel lock: writeBody_, startHeartbeat_, and  *)
(* the entry in heldKeys_.                                                 *)
Sign(p) ==
  /\ Goto(p, "sign", "held")
  /\ BestEffort(p)
  /\ held' = [held EXCEPT ![p] = TRUE]
  /\ UNCHANGED <<kernel, handle, seen, beats, crashes>>

(* acquireViaSidecar_: movefile without 'f' onto an absent body. *)
SidecarRename(p) ==
  /\ p \notin MexProc
  /\ body = Nobody
  /\ Goto(p, "wait", "verify")
  /\ body' = p
  /\ UNCHANGED <<kernel, held, handle, seen, beats, crashes, faults>>

(* acquireViaSidecar_ re-reads the body and finds its own identity. *)
SidecarOwn(p) ==
  /\ body = p
  /\ Goto(p, "verify", "held")
  /\ handle' = [handle EXCEPT ![p] = TRUE]
  /\ held' = [held EXCEPT ![p] = TRUE]
  /\ UNCHANGED <<kernel, body, seen, beats, crashes, faults>>

(* It finds another's, or none: the temp file is gone, so every further    *)
(* movefile fails and the call times out.                                  *)
SidecarLost(p) ==
  /\ body # p
  /\ Goto(p, "verify", "destroy")
  /\ UNCHANGED <<kernel, body, held, handle, seen, beats, crashes, faults>>

(* tryAcquire returns false: timeout, full lf_fdTable, or open() failed. *)
GiveUp(p) ==
  /\ Goto(p, "wait", "destroy")
  /\ UNCHANGED <<kernel, body, held, handle, seen, beats, crashes, faults>>

-----------------------------------------------------------------------------
(* heartbeat_, first half: the body is read and its heartbeat_at renewed. *)
HeartbeatRead(p) ==
  /\ handle[p]
  /\ body # Nobody
  /\ beats[p] < MaxBeats
  /\ Goto(p, "held", "beat")
  /\ seen' = [seen EXCEPT ![p] = body]
  /\ beats' = [beats EXCEPT ![p] = @ + 1]
  /\ UNCHANGED <<kernel, body, held, handle, crashes, faults>>

(* heartbeat_, second half: movefile(..., 'f') over whatever is there now. *)
HeartbeatWrite(p) ==
  /\ Goto(p, "beat", "held")
  /\ BestEffort(seen[p])
  /\ seen' = [seen EXCEPT ![p] = Nobody]
  /\ UNCHANGED <<kernel, held, handle, beats, crashes>>

(* A second FileLock for the same key in the process that holds it: the    *)
(* heldKeys_ guard (or, once that entry is gone, lf_table_find) refuses    *)
(* it, and its destructor runs release().  A refused sidecar attempt, and  *)
(* one that gets in and out, leave the same files behind.                  *)
NestedAttempt(p) ==
  /\ pc[p] = "held"
  /\ held' = [held EXCEPT ![p] = FALSE]
  /\ BestEffort(Nobody)
  /\ UNCHANGED <<pc, kernel, handle, seen, beats, crashes>>

-----------------------------------------------------------------------------
(* release() of the holder: the heartbeat timer is stopped, the registry   *)
(* entry removed and the kernel lock dropped.                              *)
Unlock(p) ==
  /\ Goto(p, "held", "unsign")
  /\ held' = [held EXCEPT ![p] = FALSE]
  /\ handle' = [handle EXCEPT ![p] = FALSE]
  /\ kernel' = IF p \in MexProc THEN Nobody ELSE kernel
  /\ beats' = [beats EXCEPT ![p] = 0]
  /\ UNCHANGED <<body, seen, crashes, faults>>

(* release(), last step: whatever body file is there is deleted. *)
EraseBody(p) ==
  /\ Goto(p, "unsign", "destroy")
  /\ BestEffort(Nobody)
  /\ UNCHANGED <<kernel, held, handle, seen, beats, crashes>>

(* The object goes out of scope: delete() calls release() once more, for   *)
(* an object that has released as for one that never held.                 *)
Destroy(p) ==
  /\ Goto(p, "destroy", "idle")
  /\ held' = [held EXCEPT ![p] = FALSE]
  /\ BestEffort(Nobody)
  /\ UNCHANGED <<kernel, handle, seen, beats, crashes>>

(* The process dies and is started again with a new identity.  The kernel  *)
(* drops its lock; the body file stays, and now names a dead process.      *)
Buried(p, id) == IF id = p THEN Ghost ELSE id

Crash(p) ==
  /\ crashes < MaxCrashes
  /\ pc[p] # "idle"
  /\ crashes' = crashes + 1
  /\ pc' = [pc EXCEPT ![p] = "idle"]
  /\ kernel' = IF kernel = p THEN Nobody ELSE kernel
  /\ body' = Buried(p, body)
  /\ seen' = [q \in Proc |-> IF q = p THEN Nobody ELSE Buried(p, seen[q])]
  /\ held' = [held EXCEPT ![p] = FALSE]
  /\ handle' = [handle EXCEPT ![p] = FALSE]
  /\ beats' = [beats EXCEPT ![p] = 0]
  /\ UNCHANGED faults

-----------------------------------------------------------------------------
(* What a process does without being asked twice. *)
Step(p) ==
  \/ TryAcquire(p) \/ KernelAcquire(p) \/ Sign(p)
  \/ SidecarRename(p) \/ SidecarOwn(p) \/ SidecarLost(p) \/ GiveUp(p)
  \/ HeartbeatRead(p) \/ HeartbeatWrite(p)
  \/ Unlock(p) \/ EraseBody(p) \/ Destroy(p)

Next == \E p \in Proc : Step(p) \/ NestedAttempt(p) \/ Crash(p)

(* A live process keeps executing, and its pollers come back each period.  *)
(* Nothing obliges it to nest an acquire or to crash.                      *)
Fairness == \A p \in Proc : WF_vars(Step(p))

Spec == Init /\ [][Next]_vars

FairSpec == Spec /\ Fairness
-----------------------------------------------------------------------------
(* A process whose lock object believes it owns the lock. *)
Holding == {p \in Proc : handle[p]}
KernelHolding == {p \in MexProc : handle[p]}

(* Two processes with lockfile_mex never believe at the same time that     *)
(* they own the lock, whatever contention, nesting, lost body files and    *)
(* crashes do in between (FileLock.m:4 "per-key mutual exclusion").        *)
MutualExclusion == \A p, q \in KernelHolding : p = q

(* The in-process registry never outlives the hold: a process that does    *)
(* not own the lock is never refused with nestedLockAcquireForbidden.      *)
RegistryHonest == \A p \in Proc : held[p] => handle[p]

(* The same exclusion for every process, the sidecar fallback included. *)
SidecarExclusion == \A p, q \in Holding : p = q

(* A taken kernel lock is freed again: by release() or by the death of its *)
(* holder, never kept by a heartbeat or a failed body write.               *)
KernelFreed == \A p \in Proc : (kernel = p) ~> (kernel # p)

(* A dead holder's body does not block the key for ever: some later        *)
(* attempt overwrites or removes it.                                       *)
StaleBodyCleared == (body = Ghost) ~> (body # Ghost)

(* FileLock with lockfile_mex implements the abstract mutex. *)
M == INSTANCE Mutex WITH Client <- MexProc, holders <- KernelHolding
ImplementsMutex == M!Spec
=============================================================================
