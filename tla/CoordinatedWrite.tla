-------------------------- MODULE CoordinatedWrite --------------------------
(***************************************************************************)
(* The cluster-mode write of one tag file, <SharedRoot>/tags/<key>.mat, by *)
(* several LiveTagPipeline processes: TagWriteCoordinator.acquireTag takes *)
(* the tag's FileLock, writeMergedTagMat_ loads the file and saves old plus *)
(* new rows to a temp file, and AtomicWriter.replace re-validates the lock *)
(* with stillHeldByMe before it renames the temp file into place.          *)
(*                                                                         *)
(* Every process has lockfile_mex.  The lock is FileLock, step for step;   *)
(* this module adds what the holder does between acquire and release.  A   *)
(* batch is the block of new rows of one tick.                             *)
(***************************************************************************)
EXTENDS Naturals, Sequences

CONSTANTS Proc, Nobody, Ghost, MaxBeats, MaxCrashes, MaxFaults,
          Batches,    \* batches each process has to write (bound)
          Retries,    \* AtomicWriter's opts.Retries (3 in the code)
          MaxMisses   \* renames that throw or go unconfirmed (bound)

ASSUME WriterAssumption == /\ Nobody \notin Proc
                           /\ Ghost \notin Proc
                           /\ Nobody # Ghost
                           /\ {MaxBeats, MaxCrashes, MaxFaults, MaxMisses} \subseteq Nat
                           /\ {Batches, Retries} \subseteq Nat \ {0}

VARIABLES pc, kernel, body, held, handle, seen, beats, crashes, faults

lockVars == <<pc, kernel, body, held, handle, seen, beats, crashes, faults>>

Lock == INSTANCE FileLock WITH MexProc <- Proc

VARIABLES phase,    \* how far the holder has got in AtomicWriter.write
          attempt,  \* movefile attempts of AtomicWriter.replace so far
          temp,     \* the contents of the process's temp file
          file,     \* the batches in the shared tag file, in order
          next,     \* tagState_(key): the process's next batch
          acked,    \* batches whose write has returned without error
          misses    \* renames that have thrown or gone unconfirmed

writeVars == <<phase, attempt, temp, file, next, acked, misses>>

vars == <<lockVars, writeVars>>

(* "none" before write(), "check" temp saved, "rename" lock re-validated,  *)
(* "backoff" a movefile has thrown, and the three ways the call ends:      *)
(* "done", "failed" (atomicWriteFailed), "aborted" (lockLostBeforeReplace).*)
Ended == {"done", "failed", "aborted"}
Phases == {"none", "check", "rename", "backoff"} \cup Ended

Batch == Proc \X (Nat \ {0})

TypeOK ==
  /\ Lock!TypeOK
  /\ phase \in [Proc -> Phases]
  /\ attempt \in [Proc -> Nat]
  /\ temp \in [Proc -> Seq(Batch)]
  /\ file \in Seq(Batch)
  /\ next \in [Proc -> Nat \ {0}]
  /\ acked \subseteq Batch
  /\ misses \in Nat

Init ==
  /\ Lock!Init
  /\ phase = [p \in Proc |-> "none"]
  /\ attempt = [p \in Proc |-> 0]
  /\ temp = [p \in Proc |-> <<>>]
  /\ file = <<>>
  /\ next = [p \in Proc |-> 1]
  /\ acked = {}
  /\ misses = 0

Turn(p, from, to) ==
  /\ pc[p] = "held"
  /\ phase[p] = from
  /\ phase' = [phase EXCEPT ![p] = to]

-----------------------------------------------------------------------------
(* Mutants: slips in the code below that the properties must catch.        *)

(* The existing file is not loaded, so the save replaces it. *)
Merge_SkipsLoad(p) ==
  /\ Turn(p, "none", "check")
  /\ temp' = [temp EXCEPT ![p] = <<<<p, next[p]>>>>]
  /\ UNCHANGED <<lockVars, attempt, file, next, acked, misses>>

(* [newX; priorX] instead of [priorX; newX]. *)
Merge_Prepends(p) ==
  /\ Turn(p, "none", "check")
  /\ temp' = [temp EXCEPT ![p] = <<<<p, next[p]>>>> \o file]
  /\ UNCHANGED <<lockVars, attempt, file, next, acked, misses>>

(* An unconfirmed rename also steps the raw-file index back. *)
RenameUnconfirmed_StepsBack(p) ==
  /\ misses < MaxMisses
  /\ misses' = misses + 1
  /\ Turn(p, "rename", "failed")
  /\ file' = temp[p]
  /\ next' = [next EXCEPT ![p] = @ - 1]
  /\ UNCHANGED <<lockVars, attempt, temp, acked>>

(* The retry loop counts one attempt too few. *)
BackoffOver_OffByOne(p) ==
  /\ attempt[p] < Retries - 1
  /\ Turn(p, "backoff", "rename")
  /\ UNCHANGED <<lockVars, attempt, temp, file, next, acked, misses>>

(* The onCleanup object is cleared while replace is still backing off. *)
Release_Early(p) ==
  /\ phase[p] \in Ended \cup {"backoff"}
  /\ Lock!Unlock(p)
  /\ UNCHANGED writeVars

-----------------------------------------------------------------------------
(* processTag_ takes the lock only for new rows; a timeout defers them. *)
Acquire(p) ==
  /\ next[p] <= Batches
  /\ Lock!TryAcquire(p)
  /\ UNCHANGED writeVars

Locking(p) ==
  /\ \/ Lock!KernelAcquire(p) \/ Lock!Sign(p) \/ Lock!GiveUp(p)
     \/ Lock!HeartbeatWrite(p) \/ Lock!EraseBody(p) \/ Lock!Destroy(p)
  /\ UNCHANGED writeVars

(* Timer callbacks run where the code pauses: in the retry backoff, and in *)
(* what the callers of acquireTag do around AtomicWriter.write.            *)
Callback(p) ==
  /\ phase[p] \in {"none", "backoff"}
  /\ Lock!HeartbeatRead(p) \/ Lock!NestedAttempt(p)
  /\ UNCHANGED writeVars

(* writeMergedTagMat_: load the shared file, append, save to temp. *)
Merge(p) ==
  /\ Turn(p, "none", "check")
  /\ temp' = [temp EXCEPT ![p] = Append(file, <<p, next[p]>>)]
  /\ UNCHANGED <<lockVars, attempt, file, next, acked, misses>>

(* replace: StillHeldByMe, FileLock.stillHeldByMe, reads the body file. *)
Revalidate(p) ==
  /\ Turn(p, "check", IF body = p THEN "rename" ELSE "aborted")
  /\ UNCHANGED <<lockVars, attempt, temp, file, next, acked, misses>>

(* movefile(temp, final, 'f') succeeds and dir() confirms it; processTag_  *)
(* then advances lastIndex.                                                *)
Rename(p) ==
  /\ Turn(p, "rename", "done")
  /\ file' = temp[p]
  /\ acked' = acked \cup {<<p, next[p]>>}
  /\ next' = [next EXCEPT ![p] = @ + 1]
  /\ UNCHANGED <<lockVars, attempt, temp, misses>>

(* movefile succeeds, but dir() right after it shows no file or no bytes   *)
(* (a lagging share): replace throws although the rename is done.          *)
RenameUnconfirmed(p) ==
  /\ misses < MaxMisses
  /\ misses' = misses + 1
  /\ Turn(p, "rename", "failed")
  /\ file' = temp[p]
  /\ UNCHANGED <<lockVars, attempt, temp, next, acked>>

(* movefile throws: back off and try again, at most Retries times. *)
RenameThrows(p) ==
  /\ misses < MaxMisses
  /\ misses' = misses + 1
  /\ attempt' = [attempt EXCEPT ![p] = @ + 1]
  /\ Turn(p, "rename", IF attempt[p] + 1 < Retries THEN "backoff" ELSE "failed")
  /\ UNCHANGED <<lockVars, temp, file, next, acked>>

BackoffOver(p) ==
  /\ Turn(p, "backoff", "rename")
  /\ UNCHANGED <<lockVars, attempt, temp, file, next, acked, misses>>

(* The call returns or throws; the onCleanup object releases the lock. *)
Release(p) ==
  /\ phase[p] \in Ended
  /\ Lock!Unlock(p)
  /\ phase' = [phase EXCEPT ![p] = "none"]
  /\ attempt' = [attempt EXCEPT ![p] = 0]
  /\ temp' = [temp EXCEPT ![p] = <<>>]
  /\ UNCHANGED <<file, next, acked, misses>>

(* A crash loses the temp file and, with tagState_, the process's place in *)
(* its raw file: it starts from the first batch again.                     *)
Crash(p) ==
  /\ Lock!Crash(p)
  /\ phase' = [phase EXCEPT ![p] = "none"]
  /\ attempt' = [attempt EXCEPT ![p] = 0]
  /\ temp' = [temp EXCEPT ![p] = <<>>]
  /\ next' = [next EXCEPT ![p] = 1]
  /\ UNCHANGED <<file, acked, misses>>

Write(p) ==
  \/ Merge(p) \/ Revalidate(p) \/ Rename(p) \/ RenameUnconfirmed(p)
  \/ RenameThrows(p) \/ BackoffOver(p) \/ Release(p)

Next == \E p \in Proc :
  Acquire(p) \/ Locking(p) \/ Callback(p) \/ Write(p) \/ Crash(p)

(* A live process goes on with the call it is in. *)
Spec == Init /\ [][Next]_vars

FairSpec ==
  Spec /\ \A p \in Proc : WF_vars(Acquire(p) \/ Locking(p) \/ Write(p))
-----------------------------------------------------------------------------
Written == {file[i] : i \in 1..Len(file)}

(* A batch whose write has returned without error is in the shared file    *)
(* for good: no later merge of another process is built on an older copy,  *)
(* and no crash takes it back (AtomicWriter + TagWriteCoordinator).        *)
AckedDurable == acked \subseteq Written

(* The shared file changes only by gaining, at its end, the batch that is  *)
(* next for some process: a batch may be written again by a retry, but     *)
(* none is ever dropped, reordered or overtaken.                           *)
AppendOnly ==
  [][\E p \in Proc : file' = Append(file, <<p, next[p]>>)]_file

(* Whoever has re-validated the lock still owns it when it renames: the    *)
(* time between stillHeldByMe and movefile, retries included, is safe.     *)
RenamerOwnsLock ==
  \A p \in Proc : phase[p] \in {"rename", "backoff"} => kernel = p

(* A write that has begun comes to an end: done, failed, aborted or dead.  *)
WriteEnds == \A p \in Proc : (phase[p] # "none") ~> (phase[p] = "none")
=============================================================================
