------------------------------ MODULE EventLog ------------------------------
(***************************************************************************)
(* The event log of one tag, <SharedRoot>/events/<key>.events.ndjson:      *)
(* EventLog.append by several MATLAB processes under the tag's FileLock,   *)
(* and EventLogReader with its mtime cache (libs/Concurrency/EventLog.m,   *)
(* EventLogReader.m, ndjsonEncode.m, ndjsonDecode.m).                      *)
(*                                                                         *)
(* The file is a sequence of tokens.  MATLAB's fopen(..., 'a') flushes     *)
(* after every fwrite and a share may store a write piece by piece, so the *)
(* tokens of one append arrive one at a time: readers see, and a crash     *)
(* leaves, any prefix.  An event is two tokens, of which the first alone   *)
(* is not valid JSON.  The lock is Mutex, which FileLock implements for    *)
(* processes with lockfile_mex.                                            *)
(***************************************************************************)
EXTENDS Naturals, SequencesExt, LogicalIndexing

CONSTANTS Writer,      \* processes that append
          Reader,      \* EventLogReader objects that are kept and asked again
          Event,       \* event structs
          None,        \* no event; no file; mtimeCache_ = NaN
          Hash,        \* the text of the line EventLog.MAGIC
          NL,          \* newline
          MaxTime,     \* mtime granules (bound)
          MaxCrashes,  \* crashes of writers in a behaviour (bound)
          MaxShort     \* fwrites cut short in a behaviour (bound)

ASSUME LogAssumption ==
  /\ None \notin Event \cup Nat
  /\ Hash # NL
  /\ {Hash, NL} \cap (Event \X {"start", "rest"}) = {}
  /\ {MaxTime, MaxCrashes, MaxShort} \subseteq Nat

VARIABLES log,      \* the tokens in the file
          mtime,    \* its modification time, None while there is no file
          clock,    \* the file server's time, in granules of dir().datenum
          lock,     \* the processes that hold the tag's FileLock
          wpc,      \* where each process stands in append
          todo,     \* the events that nobody appends, or has appended
          doing,    \* the event a process appends
          buffer,   \* the tokens it has yet to write
          ackTime,  \* history: when append of the event returned true
          crashes, shorts

writerVars == <<log, mtime, lock, wpc, todo, doing, buffer, ackTime, crashes, shorts>>

VARIABLES parsing,   \* the mtime a read in progress has statted, None if none
          cacheTime, \* mtimeCache_
          cache      \* eventsCache_

readerVars == <<parsing, cacheTime, cache>>

vars == <<writerVars, clock, readerVars>>

Lock == INSTANCE Mutex WITH Client <- Writer, holders <- lock

Start(e) == <<e, "start">>
Rest(e) == <<e, "rest">>
Token == {Hash, NL} \cup (Event \X {"start", "rest"})
Time == 0 .. MaxTime

LogTypeOK ==
  /\ log \in Seq(Token)
  /\ mtime \in Time \cup {None}
  /\ clock \in Time
  /\ Lock!TypeOK
  /\ wpc \in [Writer -> {"idle", "wait", "open", "write"}]
  /\ todo \subseteq Event
  /\ doing \in [Writer -> Event \cup {None}]
  /\ \A w \in Writer : (wpc[w] = "idle") <=> (doing[w] = None)
  /\ buffer \in [Writer -> Seq(Token)]
  /\ ackTime \in [Event -> Time \cup {None}]
  /\ crashes \in Nat
  /\ shorts \in Nat

TypeOK ==
  /\ LogTypeOK
  /\ parsing \in [Reader -> Time \cup {None}]
  /\ cacheTime \in [Reader -> Time \cup {None}]
  /\ cache \in [Reader -> Seq(Event)]

Init ==
  /\ log = <<>>
  /\ mtime = None
  /\ clock = 0
  /\ Lock!Init
  /\ wpc = [w \in Writer |-> "idle"]
  /\ todo = Event
  /\ doing = [w \in Writer |-> None]
  /\ buffer = [w \in Writer |-> <<>>]
  /\ ackTime = [e \in Event |-> None]
  /\ crashes = 0
  /\ shorts = 0
  /\ parsing = [r \in Reader |-> None]
  /\ cacheTime = [r \in Reader |-> None]
  /\ cache = [r \in Reader |-> <<>>]

-----------------------------------------------------------------------------
(* ndjsonDecode: a line that is exactly one whole event counts, whether or *)
(* not its newline is there yet; blank lines, lines that begin with '#'    *)
(* and lines that are not one JSON object are skipped.                     *)
StartsLine(s, i) == i = 1 \/ s[i - 1] = NL
EndsLine(s, i) == i = Len(s) \/ s[i + 1] = NL

EventLine(s, i) ==
  \E e \in Event : /\ i < Len(s)
                   /\ s[i] = Start(e)
                   /\ s[i + 1] = Rest(e)
                   /\ StartsLine(s, i)
                   /\ EndsLine(s, i + 1)

Decode(s) ==
  LET starts == Masked(s, {i \in DOMAIN s : EventLine(s, i)})
  IN  [k \in DOMAIN starts |-> starts[k][1]]

Readable == ToSet(Decode(log))

Acked == {e \in Event : ackTime[e] # None}

-----------------------------------------------------------------------------
(* Mutants: slips in the code below that the properties must catch.        *)

(* ndjsonEncode forgets the newline. *)
LineOf_NoNewline(e) == <<Start(e), Rest(e)>>

(* The contended append returns without leaving the call. *)
Contended_KeepsEvent(w) ==
  /\ wpc[w] = "wait"
  /\ wpc' = [wpc EXCEPT ![w] = "idle"]
  /\ todo' = todo \cup {doing[w]}
  /\ UNCHANGED <<log, mtime, lock, doing, buffer, ackTime, crashes, shorts>>

(* append opens the file whether or not it has got the lock. *)
AcquireTag_Unlocked(w) ==
  /\ wpc[w] = "wait"
  /\ wpc' = [wpc EXCEPT ![w] = "open"]
  /\ lock' = lock \cup {w}
  /\ UNCHANGED <<log, mtime, todo, doing, buffer, ackTime, crashes, shorts>>

(* fopen(LogPath, 'w'): every append starts the file anew. *)
OpenLog_Truncates(w) ==
  /\ wpc[w] = "open"
  /\ wpc' = [wpc EXCEPT ![w] = "write"]
  /\ buffer' = [buffer EXCEPT ![w] = <<Hash, NL, Start(doing[w]), Rest(doing[w]), NL>>]
  /\ log' = <<>>
  /\ mtime' = clock
  /\ UNCHANGED <<lock, todo, doing, ackTime, crashes, shorts>>

(* No onCleanup: an error in fopen leaves the lock taken. *)
OpenFails_KeepsLock(w) ==
  /\ wpc[w] = "open"
  /\ wpc' = [wpc EXCEPT ![w] = "idle"]
  /\ todo' = todo \cup {doing[w]}
  /\ doing' = [doing EXCEPT ![w] = None]
  /\ UNCHANGED <<log, mtime, lock, buffer, ackTime, crashes, shorts>>

(* The cache's time is set before the parse instead of after it. *)
ReadFails_KeepsTime(r) ==
  /\ parsing[r] # None
  /\ parsing' = [parsing EXCEPT ![r] = None]
  /\ cacheTime' = [cacheTime EXCEPT ![r] = parsing[r]]
  /\ UNCHANGED cache

-----------------------------------------------------------------------------
(* append(e) is called.  An event that two processes detect, or that is    *)
(* detected again after a crash, is two members of Event.                  *)
BeginAppend(w, e) ==
  /\ wpc[w] = "idle"
  /\ e \in todo
  /\ todo' = todo \ {e}
  /\ wpc' = [wpc EXCEPT ![w] = "wait"]
  /\ doing' = [doing EXCEPT ![w] = e]
  /\ UNCHANGED <<log, mtime, lock, buffer, ackTime, crashes, shorts>>

(* acquireTag returns ok = false: append returns false (skip and defer),   *)
(* and its caller may try again.                                           *)
Contended(w) ==
  /\ wpc[w] = "wait"
  /\ wpc' = [wpc EXCEPT ![w] = "idle"]
  /\ todo' = todo \cup {doing[w]}
  /\ doing' = [doing EXCEPT ![w] = None]
  /\ UNCHANGED <<log, mtime, lock, buffer, ackTime, crashes, shorts>>

AcquireTag(w) ==
  /\ wpc[w] = "wait"
  /\ Lock!Acquire(w)
  /\ wpc' = [wpc EXCEPT ![w] = "open"]
  /\ UNCHANGED <<log, mtime, todo, doing, buffer, ackTime, crashes, shorts>>

(* needHeader, asked before fopen creates the file. *)
NeedHeader == mtime = None

LineOf(e) == <<Start(e), Rest(e), NL>>

(* fopen(LogPath, 'a') creates a missing file and leaves any other alone. *)
OpenLog(w) ==
  /\ wpc[w] = "open"
  /\ wpc' = [wpc EXCEPT ![w] = "write"]
  /\ buffer' = [buffer EXCEPT ![w] =
                  (IF NeedHeader THEN <<Hash, NL>> ELSE <<>>) \o LineOf(doing[w])]
  /\ mtime' = IF mtime = None THEN clock ELSE mtime
  /\ UNCHANGED <<log, lock, todo, doing, ackTime, crashes, shorts>>

(* fopen fails: the error leaves append, and onCleanup releases the lock. *)
OpenFails(w) ==
  /\ wpc[w] = "open"
  /\ Lock!Leave(w)
  /\ wpc' = [wpc EXCEPT ![w] = "idle"]
  /\ todo' = todo \cup {doing[w]}
  /\ doing' = [doing EXCEPT ![w] = None]
  /\ UNCHANGED <<log, mtime, buffer, ackTime, crashes, shorts>>

(* The next token of the header or of the line reaches the end of the file. *)
WriteToken(w) ==
  /\ wpc[w] = "write"
  /\ buffer[w] # <<>>
  /\ log' = log \o <<Head(buffer[w])>>
  /\ mtime' = clock
  /\ buffer' = [buffer EXCEPT ![w] = Tail(@)]
  /\ UNCHANGED <<lock, wpc, todo, doing, ackTime, crashes, shorts>>

(* The disk is full or the share is gone: an fwrite, of the header or of   *)
(* the line, stops short, and append does not look at the count it         *)
(* returns.  The line may still be written after a cut header.             *)
ShortWrite(w) ==
  /\ shorts < MaxShort
  /\ wpc[w] = "write"
  /\ buffer[w] # <<>>
  /\ \E left \in {<<>>, LineOf(doing[w])} :
       /\ Len(left) < Len(buffer[w])
       /\ buffer' = [buffer EXCEPT ![w] = left]
  /\ shorts' = shorts + 1
  /\ UNCHANGED <<log, mtime, lock, wpc, todo, doing, ackTime, crashes>>

(* append returns true: onCleanup has closed the file and released the lock. *)
EndAppend(w) ==
  /\ wpc[w] = "write"
  /\ buffer[w] = <<>>
  /\ Lock!Leave(w)
  /\ wpc' = [wpc EXCEPT ![w] = "idle"]
  /\ doing' = [doing EXCEPT ![w] = None]
  /\ ackTime' = [ackTime EXCEPT ![doing[w]] = clock]
  /\ UNCHANGED <<log, mtime, todo, buffer, crashes, shorts>>

(* The process dies inside append, and is started again. *)
Crash(w) ==
  /\ crashes < MaxCrashes
  /\ wpc[w] # "idle"
  /\ crashes' = crashes + 1
  /\ lock' = lock \ {w}
  /\ wpc' = [wpc EXCEPT ![w] = "idle"]
  /\ doing' = [doing EXCEPT ![w] = None]
  /\ buffer' = [buffer EXCEPT ![w] = <<>>]
  /\ UNCHANGED <<log, mtime, todo, ackTime, shorts>>

Writing(w) ==
  \/ Contended(w) \/ AcquireTag(w) \/ OpenLog(w) \/ OpenFails(w)
  \/ WriteToken(w) \/ ShortWrite(w) \/ EndAppend(w)

Write ==
  /\ \E w \in Writer : Writing(w) \/ Crash(w) \/ \E e \in Event : BeginAppend(w, e)
  /\ UNCHANGED <<clock, readerVars>>

-----------------------------------------------------------------------------
(* read_ is answered from the cache; nothing changes. *)
CacheHit(r) == mtime # None /\ cacheTime[r] # None /\ mtime <= cacheTime[r]

(* read_ stats the file, and goes on to parse it. *)
BeginRead(r) ==
  /\ parsing[r] = None
  /\ mtime # None
  /\ ~CacheHit(r)
  /\ parsing' = [parsing EXCEPT ![r] = mtime]
  /\ UNCHANGED <<cacheTime, cache>>

(* readWithRetry returns the parsed text, and the cache takes it. *)
EndRead(r) ==
  /\ parsing[r] # None
  /\ parsing' = [parsing EXCEPT ![r] = None]
  /\ cacheTime' = [cacheTime EXCEPT ![r] = parsing[r]]
  /\ cache' = [cache EXCEPT ![r] = Decode(log)]

(* fileread fails as often as readWithRetry tries, and the error leaves. *)
ReadFails(r) ==
  /\ parsing[r] # None
  /\ parsing' = [parsing EXCEPT ![r] = None]
  /\ UNCHANGED <<cacheTime, cache>>

Read ==
  /\ \E r \in Reader : BeginRead(r) \/ EndRead(r) \/ ReadFails(r)
  /\ UNCHANGED <<writerVars, clock>>

Tick ==
  /\ clock < MaxTime
  /\ clock' = clock + 1
  /\ UNCHANGED <<writerVars, readerVars>>

Next == Write \/ Read \/ Tick

(* A live process goes on with the append it is in. *)
Fairness == \A w \in Writer : WF_vars(Writing(w) /\ UNCHANGED <<clock, readerVars>>)

Spec == Init /\ [][Next]_vars

FairSpec == Spec /\ Fairness
-----------------------------------------------------------------------------
(* append's "true on success": every event for which it has returned true  *)
(* is read back, except that a crash can cost the next acknowledged event  *)
(* (it joins the torn line), and a short write that one and its own.       *)
AckedReadable == Cardinality(Acked \ Readable) <= crashes + 2 * shorts

(* The lock's purpose: lines of two processes never mix, and exactly one   *)
(* of them is the first writer, who writes the magic line.  While nothing  *)
(* has failed, the file is that line and whole event lines, and at most    *)
(* the last line is still being written.                                   *)
InLines(s) ==
  \A i \in DOMAIN s :
    /\ s[i] = Hash <=> i = 1
    /\ s[i] \in Event \X {"start"} =>
         /\ StartsLine(s, i)
         /\ i < Len(s) => s[i + 1] = Rest(s[i][1])

LinesIntact == crashes + shorts = 0 => InLines(log)

(* A log that has been written stays: appends never overwrite each other.  *)
AppendOnly == [][IsPrefix(log, log')]_log

(* The cache never claims too much: an event acknowledged in a granule     *)
(* before the cached mtime, and readable, is in the cache.                 *)
CacheComplete ==
  \A r \in Reader : \A e \in Acked \cap Readable :
    cacheTime[r] # None /\ ackTime[e] < cacheTime[r] => e \in ToSet(cache[r])

(* Whatever happens in append, the tag's lock is given back. *)
LockReleased == \A w \in Writer : (w \in lock) ~> (w \notin lock)
=============================================================================
