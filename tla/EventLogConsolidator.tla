------------------------ MODULE EventLogConsolidator ------------------------
(***************************************************************************)
(* EventLogConsolidator.consolidate in several processes, beside the       *)
(* writers of EventLog: one leader, elected by a FileLock of its own, puts *)
(* what it reads from the logs behind what events.mat already has, drops   *)
(* repeated events and replaces the snapshot through AtomicWriter          *)
(* (libs/Concurrency/EventLogConsolidator.m).  One log stands for all.     *)
(*                                                                         *)
(* The leader's lock is Mutex together with its body file, which           *)
(* AtomicWriter consults and which anybody's release() deletes.            *)
(***************************************************************************)
EXTENDS EventLog

CONSTANTS Consolidator,  \* processes that call consolidate
          MaxMishaps     \* misreads and failures in a behaviour (bound)

ASSUME ConsolidatorAssumption ==
  /\ MaxMishaps \in Nat
  /\ \A e \in Event : e.chars \in Seq(Nat)

VARIABLES snapshot,  \* the events in events.mat; empty also if there is no file
          leader,    \* the processes that hold the events-consolidator lock
          body,      \* its body file is there
          cpc,       \* where each process stands in consolidate
          gathered,  \* its accumulated events
          misreads,  \* logs and snapshots that could not be read
          failures   \* passes ended by a failed rename or a death

passVars == <<snapshot, leader, body, cpc, gathered, misreads, failures>>

allVars == <<vars, passVars>>

Leader == INSTANCE Mutex WITH Client <- Consolidator, holders <- leader

(* "logs" before the logs are read, "prior" before the snapshot is loaded, *)
(* "write" before AtomicWriter.write, "leave" before the cleaner runs,     *)
(* "erase" and "destroy" before the two deletions of the body file.        *)
Places == {"idle", "logs", "prior", "write", "leave", "erase", "destroy"}

PassTypeOK ==
  /\ snapshot \in Seq(Event)
  /\ Leader!TypeOK
  /\ body \in BOOLEAN
  /\ cpc \in [Consolidator -> Places]
  /\ gathered \in [Consolidator -> Seq(Event)]
  /\ \A c \in Consolidator : cpc[c] \in {"idle", "logs"} => gathered[c] = <<>>
  /\ misreads \in Nat
  /\ failures \in Nat

PassInit ==
  /\ Init
  /\ snapshot = <<>>
  /\ Leader!Init
  /\ body = FALSE
  /\ cpc = [c \in Consolidator |-> "idle"]
  /\ gathered = [c \in Consolidator |-> <<>>]
  /\ misreads = 0
  /\ failures = 0

Move(c, from, to) == cpc[c] = from /\ cpc' = [cpc EXCEPT ![c] = to]

-----------------------------------------------------------------------------
(* dedupById_: an event's Id, or the sum of the character codes of its     *)
(* JSON text; chars are the characters in which events differ.             *)
Key == [e \in Event |->
         IF e.id # None THEN <<"id", e.id>>
         ELSE <<"hash", FoldLeft(LAMBDA sum, char : sum + char, 0, e.chars)>>]

Keys(s) == {Key[e] : e \in ToSet(s)}

(* Mutant: two events are the same only if they are next to each other. *)
DedupById_Adjacent(s) ==
  Masked(s, {i \in DOMAIN s : i = 1 \/ Key[s[i - 1]] # Key[s[i]]})

(* The first event of each key stays. *)
DedupById(s) ==
  Masked(s, {i \in DOMAIN s : \A j \in 1 .. i - 1 : Key[s[j]] # Key[s[i]]})

-----------------------------------------------------------------------------
(* Mutants: slips in the code below that the properties must catch.        *)

(* Without the leader lock every caller runs a pass of its own, on its own *)
(* copy of the snapshot.                                                   *)
Elect_Unlocked(c) ==
  /\ Move(c, "idle", "logs")
  /\ leader' = leader
  /\ body' = TRUE
  /\ UNCHANGED <<snapshot, gathered, misreads, failures>>

(* A snapshot that cannot be loaded empties the pass. *)
PriorUnreadable_DropsAll(c) ==
  /\ misreads + failures < MaxMishaps
  /\ Move(c, "prior", "write")
  /\ gathered' = [gathered EXCEPT ![c] = <<>>]
  /\ misreads' = misreads + 1
  /\ UNCHANGED <<failures, snapshot, leader, body>>

(* The pass ends without the cleaner. *)
Resign_KeepsLock(c) ==
  /\ Move(c, "leave", "erase")
  /\ gathered' = [gathered EXCEPT ![c] = <<>>]
  /\ UNCHANGED <<snapshot, leader, body, misreads, failures>>

(* The accumulated events outlive the pass. *)
Resign_KeepsEvents(c) ==
  /\ Move(c, "leave", "erase")
  /\ Leader!Leave(c)
  /\ UNCHANGED <<snapshot, body, gathered, misreads, failures>>

-----------------------------------------------------------------------------
Elect(c) ==
  /\ Move(c, "idle", "logs")
  /\ Leader!Acquire(c)
  /\ body' = TRUE
  /\ UNCHANGED <<snapshot, gathered, misreads, failures>>

(* The lock is taken: silent skip.  But delete(lock) deletes the body file *)
(* of the leader (or fails to).                                            *)
Refused(c) ==
  /\ cpc[c] = "idle"
  /\ leader # {}
  /\ body' \in {body, FALSE}
  /\ UNCHANGED <<snapshot, leader, cpc, gathered, misreads, failures>>

ReadLogs(c) ==
  /\ Move(c, "logs", "prior")
  /\ gathered' = [gathered EXCEPT ![c] = Decode(log)]
  /\ UNCHANGED <<snapshot, leader, body, misreads, failures>>

(* A log that cannot be read is left out with a warning. *)
LogUnreadable(c) ==
  /\ misreads + failures < MaxMishaps
  /\ Move(c, "logs", "prior")
  /\ misreads' = misreads + 1
  /\ UNCHANGED <<failures, snapshot, leader, body, gathered>>

MergePrior(c) ==
  /\ Move(c, "prior", "write")
  /\ gathered' = [gathered EXCEPT ![c] = DedupById(snapshot \o @)]
  /\ UNCHANGED <<snapshot, leader, body, misreads, failures>>

(* A snapshot that cannot be loaded is left out: "best-effort". *)
PriorUnreadable(c) ==
  /\ misreads + failures < MaxMishaps
  /\ Move(c, "prior", "write")
  /\ gathered' = [gathered EXCEPT ![c] = DedupById(@)]
  /\ misreads' = misreads + 1
  /\ UNCHANGED <<failures, snapshot, leader, body>>

(* AtomicWriter.write: stillHeldByMe, then the rename. *)
WriteSnapshot(c) ==
  /\ body
  /\ Move(c, "write", "leave")
  /\ snapshot' = gathered[c]
  /\ UNCHANGED <<leader, body, gathered, misreads, failures>>

(* stillHeldByMe finds no body: lockLostBeforeReplace leaves consolidate. *)
Abort(c) ==
  /\ ~body
  /\ Move(c, "write", "leave")
  /\ UNCHANGED <<snapshot, leader, body, gathered, misreads, failures>>

(* The temp file cannot be saved or renamed: atomicWriteFailed. *)
WriteFails(c) ==
  /\ misreads + failures < MaxMishaps
  /\ body
  /\ Move(c, "write", "leave")
  /\ failures' = failures + 1
  /\ UNCHANGED <<snapshot, leader, body, gathered, misreads>>

(* cleaner: release() drops the kernel lock ... *)
Resign(c) ==
  /\ Move(c, "leave", "erase")
  /\ Leader!Leave(c)
  /\ gathered' = [gathered EXCEPT ![c] = <<>>]
  /\ UNCHANGED <<snapshot, body, misreads, failures>>

(* ... and deletes the body file, whosever it is by now; the destructor    *)
(* does so once more.                                                      *)
Erase(c) ==
  /\ Move(c, "erase", "destroy") \/ Move(c, "destroy", "idle")
  /\ body' = FALSE
  /\ UNCHANGED <<snapshot, leader, gathered, misreads, failures>>

(* The process dies in a pass: a rename that has not happened never will. *)
Die(c) ==
  /\ misreads + failures < MaxMishaps
  /\ cpc[c] # "idle"
  /\ cpc' = [cpc EXCEPT ![c] = "idle"]
  /\ leader' = leader \ {c}
  /\ gathered' = [gathered EXCEPT ![c] = <<>>]
  /\ failures' = failures + 1
  /\ UNCHANGED <<misreads, snapshot, body>>

Pass(c) ==
  \/ ReadLogs(c) \/ LogUnreadable(c) \/ MergePrior(c) \/ PriorUnreadable(c)
  \/ WriteSnapshot(c) \/ Abort(c) \/ WriteFails(c) \/ Resign(c) \/ Erase(c)

Consolidate ==
  /\ \E c \in Consolidator : Elect(c) \/ Refused(c) \/ Pass(c) \/ Die(c)
  /\ UNCHANGED vars

PassNext == Consolidate \/ (Next /\ UNCHANGED passVars)

(* A pass that has begun goes on, and consolidate is called periodically   *)
(* ("Periodically merges all ... logs").                                   *)
PassFairness ==
  /\ WF_allVars(UNCHANGED vars /\ \E c \in Consolidator : Elect(c))
  /\ \A c \in Consolidator : WF_allVars(UNCHANGED vars /\ Pass(c))

PassSpec == PassInit /\ [][PassNext]_allVars

FairPassSpec == PassSpec /\ PassFairness
-----------------------------------------------------------------------------
(* One leader at a time, each on the latest snapshot: a pass only adds     *)
(* events behind those the snapshot has ("preserve cross-run history").    *)
(* A snapshot that could not be loaded is the exception.                   *)
SnapshotExtends == [][misreads = 0 => IsPrefix(snapshot, snapshot')]_snapshot

(* However often the same events are consolidated, from the log and from   *)
(* the snapshot, each appears once ("Idempotency contract").               *)
SnapshotDistinct ==
  \A i, j \in DOMAIN snapshot : Key[snapshot[i]] = Key[snapshot[j]] => i = j

(* "Corrupt snapshot is recoverable from NDJSON logs": one failed read,    *)
(* one failed write or one death never takes an acknowledged event out of  *)
(* the snapshot while its log line is intact.                              *)
OneMishapLosesNothing ==
  [][misreads + failures < 2 => \A e \in ToSet(snapshot) \cap Acked \cap Readable :
                       Key[e] \in Keys(snapshot')]_snapshot

(* If from some time on leaders that come to write find their body files,  *)
(* every acknowledged event that can be read comes into the snapshot.      *)
SnapshotCatchesUp ==
  <>[](\A c \in Consolidator : cpc[c] = "write" => body) =>
    \A e \in Event : (e \in Acked \cap Readable) ~> (Key[e] \in Keys(snapshot))

(* dedupById_: "a content-hash is used so genuinely different events are   *)
(* not accidentally merged into one".                                      *)
DifferentEventsKept ==
  [][\A c \in Consolidator : cpc[c] = "prior" /\ cpc'[c] = "write" =>
       \A e \in ToSet(gathered[c]) : e.id = None => e \in ToSet(gathered'[c])]_cpc
=============================================================================
