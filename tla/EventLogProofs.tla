--------------------------- MODULE EventLogProofs ---------------------------
(***************************************************************************)
(* Proofs about EventLog for every set of processes, readers and events,   *)
(* and every bound; then about EventLogConsolidator, whose passes run      *)
(* beside the writers of the log.                                          *)
(***************************************************************************)
EXTENDS EventLogConsolidator, RecursionLemmas, SequenceTheorems, FiniteSetTheorems, TLAPS

-----------------------------------------------------------------------------
(* What the file is made of. *)

(* A complete log: the magic line and whole event lines. *)
Complete(s) == s # <<>> /\ s[Len(s)] = NL /\ InLines(s)

LEMMA Tokens ==
  /\ Hash \in Token /\ NL \in Token /\ Hash # NL
  /\ \A e \in Event : /\ Start(e) \in Token /\ Rest(e) \in Token
                      /\ Start(e) \in Event \X {"start"} /\ Start(e)[1] = e
                      /\ Start(e) # Hash /\ Start(e) # NL
                      /\ Rest(e) # Hash /\ Rest(e) # NL
                      /\ Rest(e) \notin Event \X {"start"}
  /\ Hash \notin Event \X {"start"} /\ NL \notin Event \X {"start"}
  BY LogAssumption DEF Token, Start, Rest

LEMMA LineTypes == \A e \in Event : LineOf(e) \in Seq(Token)
  BY Tokens DEF LineOf

LEMMA NextToken ==
  ASSUME NEW s \in Seq(Token), NEW t \in Seq(Token), t # <<>>
  PROVE  (s \o <<Head(t)>>) \o Tail(t) = s \o t
  OBVIOUS

(* What has reached the file of a well-formed text is well-formed. *)
LEMMA PrefixInLines ==
  ASSUME NEW s \in Seq(Token), NEW t \in Seq(Token), InLines(s \o t)
  PROVE  InLines(s)
  <1> USE DEF InLines, StartsLine
  <1>1. \A i \in DOMAIN s : i \in DOMAIN (s \o t) /\ (s \o t)[i] = s[i]
    OBVIOUS
  <1>2. Len(s) <= Len(s \o t)
    OBVIOUS
  <1> SUFFICES ASSUME NEW i \in DOMAIN s
               PROVE  /\ s[i] = Hash <=> i = 1
                      /\ s[i] \in Event \X {"start"} =>
                           /\ i = 1 \/ s[i - 1] = NL
                           /\ i < Len(s) => s[i + 1] = Rest(s[i][1])
    OBVIOUS
  <1>3. i - 1 \in DOMAIN s \/ i = 1
    OBVIOUS
  <1>4. i < Len(s) => i + 1 \in DOMAIN s
    OBVIOUS
  <1> QED
    BY <1>1, <1>2, <1>3, <1>4

(* Behind a complete log an event line makes a complete log. *)
LEMMA LineCompletes ==
  ASSUME NEW s \in Seq(Token), NEW e \in Event, Complete(s)
  PROVE  Complete(s \o LineOf(e))
  <1> DEFINE t == s \o LineOf(e)
             n == Len(s)
  <1>1. /\ t \in Seq(Token) /\ Len(t) = n + 3 /\ n \in Nat /\ n > 0
        /\ \A i \in 1 .. n : t[i] = s[i]
        /\ t[n + 1] = Start(e) /\ t[n + 2] = Rest(e) /\ t[n + 3] = NL
    BY LineTypes, Tokens DEF Complete, LineOf
  <1>2. t[n] = NL
    BY <1>1 DEF Complete
  <1>3. ASSUME NEW i \in 1 .. n
        PROVE  /\ t[i] = Hash <=> i = 1
               /\ t[i] \in Event \X {"start"} =>
                    /\ i = 1 \/ t[i - 1] = NL
                    /\ i < Len(t) => t[i + 1] = Rest(t[i][1])
    <2>1. i \in DOMAIN s
      OBVIOUS
    <2>2. t[i] = s[i] /\ (i > 1 => t[i - 1] = s[i - 1]) /\ (i < n => t[i + 1] = s[i + 1])
      BY <1>1
    <2>3. i = n => t[i] \notin Event \X {"start"}
      BY <1>2, Tokens
    <2> QED
      BY <2>1, <2>2, <2>3, <1>1 DEF Complete, InLines, StartsLine
  <1>5. /\ t[n + 1] # Hash /\ t[n + 2] # Hash /\ t[n + 3] # Hash
        /\ t[n + 1][1] = e
        /\ t[n + 2] \notin Event \X {"start"} /\ t[n + 3] \notin Event \X {"start"}
    BY <1>1, Tokens
  <1>6. ASSUME NEW i \in n + 1 .. n + 3
        PROVE  /\ t[i] = Hash <=> i = 1
               /\ t[i] \in Event \X {"start"} =>
                    /\ i = 1 \/ t[i - 1] = NL
                    /\ i < Len(t) => t[i + 1] = Rest(t[i][1])
    <2>1. i = n + 1 \/ i = n + 2 \/ i = n + 3
      BY <1>1
    <2> HIDE DEF t, n
    <2> QED
      BY <2>1, <1>1, <1>2, <1>5
  <1>4. InLines(t)
    <2>1. \A i \in DOMAIN t : i \in 1 .. n \/ i \in n + 1 .. n + 3
      BY <1>1
    <2> HIDE DEF t, n
    <2> QED
      BY <2>1, <1>3, <1>6 DEF InLines, StartsLine
  <1> QED
    BY <1>1, <1>4 DEF Complete

(* So does the magic line with the first event line. *)
LEMMA HeaderCompletes ==
  ASSUME NEW e \in Event
  PROVE  Complete(<<>> \o (<<Hash, NL>> \o LineOf(e)))
  <1> DEFINE t == <<>> \o (<<Hash, NL>> \o LineOf(e))
  <1>1. /\ t \in Seq(Token) /\ Len(t) = 5 /\ t[1] = Hash /\ t[2] = NL
        /\ t[3] = Start(e) /\ t[4] = Rest(e) /\ t[5] = NL
    BY Tokens DEF LineOf
  <1>2. /\ t[2] # Hash /\ t[3] # Hash /\ t[4] # Hash /\ t[5] # Hash /\ t[3][1] = e
        /\ t[1] \notin Event \X {"start"} /\ t[2] \notin Event \X {"start"}
        /\ t[4] \notin Event \X {"start"} /\ t[5] \notin Event \X {"start"}
    BY <1>1, Tokens
  <1>3. \A i \in DOMAIN t : i = 1 \/ i = 2 \/ i = 3 \/ i = 4 \/ i = 5
    BY <1>1
  <1>4. Complete(t)
    <2> HIDE DEF t
    <2>1. InLines(t)
      BY <1>1, <1>2, <1>3 DEF InLines, StartsLine
    <2> QED
      BY <1>1, <2>1 DEF Complete
  <1> QED
    BY <1>4

-----------------------------------------------------------------------------
(* The inductive invariant: who writes holds the lock, only a writer has   *)
(* tokens left to write, and while nothing has failed the file is complete *)
(* once the writer's tokens are in it, or not begun.                       *)
InLock == {"open", "write"}

WriterOwnsLock == \A w \in Writer : wpc[w] \in InLock => lock = {w}

OwnerInLock == \A w \in lock : wpc[w] \in InLock

BufferInWrite == \A w \in Writer : wpc[w] # "write" => buffer[w] = <<>>

WriteCompletes ==
  crashes + shorts = 0 =>
    /\ \A w \in Writer : wpc[w] = "write" => Complete(log \o buffer[w]) /\ mtime # None
    /\ (\A w \in Writer : wpc[w] # "write") => \/ log = <<>> /\ mtime = None
                                               \/ Complete(log) /\ mtime # None

IInv == /\ LogTypeOK /\ WriterOwnsLock /\ OwnerInLock /\ BufferInWrite
        /\ WriteCompletes

LEMMA InitIInv == Init => IInv
  BY LogAssumption DEF Init, IInv, LogTypeOK, Lock!Init, Lock!TypeOK, Time, WriterOwnsLock,
     OwnerInLock, BufferInWrite, WriteCompletes, InLock

(* What a step does to the variables of the log, by action. *)
LogStep == \/ \E w \in Writer : \/ Writing(w) \/ Crash(w)
                              \/ \E e \in Event : BeginAppend(w, e)
           \/ UNCHANGED writerVars

LEMMA NextLogStep ==
  ASSUME [Next]_vars
  PROVE  LogStep /\ (clock' = clock \/ (clock < MaxTime /\ clock' = clock + 1))
  <1>1. CASE Write
    BY <1>1 DEF Write, LogStep
  <1>2. CASE Read
    <2>1. UNCHANGED writerVars
      BY <1>2 DEF Read
    <2>2. LogStep
      BY <2>1 DEF LogStep
    <2> QED
      BY <1>2, <2>2 DEF Read
  <1>3. CASE Tick
    <2>1. UNCHANGED writerVars
      BY <1>3 DEF Tick
    <2>2. LogStep
      BY <2>1 DEF LogStep
    <2> QED
      BY <1>3, <2>2 DEF Tick
  <1>4. CASE UNCHANGED vars
    <2>1. UNCHANGED writerVars
      BY <1>4 DEF vars
    <2>2. LogStep
      BY <2>1 DEF LogStep
    <2> QED
      BY <1>4, <2>2 DEF vars
  <1> QED
    BY <1>1, <1>2, <1>3, <1>4 DEF Next

LEMMA ClockStep ==
  ASSUME LogTypeOK, [Next]_vars
  PROVE  clock' \in Time
  BY NextLogStep, LogAssumption DEF LogTypeOK, Time

LEMMA TypeStep ==
  ASSUME LogTypeOK, BufferInWrite, [Next]_vars
  PROVE  LogTypeOK'
  <1> USE DEF LogTypeOK, Lock!TypeOK
  <1>0. clock' \in Time
    BY ClockStep
  <1>1. ASSUME NEW w \in Writer, NEW e \in Event, BeginAppend(w, e) PROVE LogTypeOK'
    BY <1>0, <1>1, LogAssumption DEF BeginAppend
  <1>2. ASSUME NEW w \in Writer, Contended(w) PROVE LogTypeOK'
    BY <1>0, <1>2 DEF Contended
  <1>3. ASSUME NEW w \in Writer, AcquireTag(w) PROVE LogTypeOK'
    BY <1>0, <1>3 DEF AcquireTag, Lock!Acquire
  <1>4. ASSUME NEW w \in Writer, OpenLog(w) PROVE LogTypeOK'
    <2>1. doing[w] \in Event
      BY <1>4 DEF OpenLog
    <2>2. (IF NeedHeader THEN <<Hash, NL>> ELSE <<>>) \o LineOf(doing[w]) \in Seq(Token)
      BY <2>1, LineTypes, Tokens
    <2> QED
      BY <1>0, <1>4, <2>2 DEF OpenLog
  <1>5. ASSUME NEW w \in Writer, OpenFails(w) PROVE LogTypeOK'
    BY <1>0, <1>5 DEF OpenFails, Lock!Leave
  <1>6. ASSUME NEW w \in Writer, WriteToken(w) PROVE LogTypeOK'
    <2>1. Head(buffer[w]) \in Token /\ Tail(buffer[w]) \in Seq(Token)
      BY <1>6 DEF WriteToken
    <2>2. log' \in Seq(Token)
      BY <1>6, <2>1 DEF WriteToken
    <2> QED
      BY <1>0, <1>6, <2>1, <2>2 DEF WriteToken
  <1>7. ASSUME NEW w \in Writer, ShortWrite(w) PROVE LogTypeOK'
    <2>1. doing[w] \in Event
      BY <1>7 DEF ShortWrite
    <2>2. PICK left \in {<<>>, LineOf(doing[w])} : buffer' = [buffer EXCEPT ![w] = left]
      BY <1>7 DEF ShortWrite
    <2>3. left \in Seq(Token)
      <3>1. LineOf(doing[w]) \in Seq(Token) /\ <<>> \in Seq(Token)
        BY <2>1, LineTypes
      <3> QED
        BY <2>2, <3>1
    <2> QED
      BY <1>0, <1>7, <2>2, <2>3 DEF ShortWrite
  <1>8. ASSUME NEW w \in Writer, EndAppend(w) PROVE LogTypeOK'
    BY <1>0, <1>8 DEF EndAppend, Lock!Leave
  <1>9. ASSUME NEW w \in Writer, Crash(w) PROVE LogTypeOK'
    BY <1>0, <1>9 DEF Crash
  <1>10. CASE UNCHANGED writerVars
    BY <1>0, <1>10 DEF writerVars
  <1> QED
    BY <1>1, <1>2, <1>3, <1>4, <1>5, <1>6, <1>7, <1>8, <1>9, <1>10, NextLogStep
       DEF LogStep, Writing

(* Only the holder of the lock is between fopen and the last token, so the *)
(* file is complete when the next process opens it.                        *)
LEMMA LockStep ==
  ASSUME LogTypeOK, WriterOwnsLock, OwnerInLock, BufferInWrite, [Next]_vars
  PROVE  WriterOwnsLock' /\ OwnerInLock' /\ BufferInWrite'
  <1> USE DEF LogTypeOK, Lock!TypeOK, WriterOwnsLock, OwnerInLock, BufferInWrite, InLock
  <1> DEFINE Goal == WriterOwnsLock' /\ OwnerInLock' /\ BufferInWrite'
  <1>1. ASSUME NEW w \in Writer, NEW e \in Event, BeginAppend(w, e) PROVE Goal
    BY <1>1 DEF BeginAppend
  <1>2. ASSUME NEW w \in Writer, Contended(w) PROVE Goal
    BY <1>2 DEF Contended
  <1>3. ASSUME NEW w \in Writer, AcquireTag(w) PROVE Goal
    BY <1>3 DEF AcquireTag, Lock!Acquire
  <1>4. ASSUME NEW w \in Writer, OpenLog(w) PROVE Goal
    BY <1>4 DEF OpenLog
  <1>5. ASSUME NEW w \in Writer, OpenFails(w) PROVE Goal
    BY <1>5 DEF OpenFails, Lock!Leave
  <1>6. ASSUME NEW w \in Writer, WriteToken(w) PROVE Goal
    BY <1>6 DEF WriteToken
  <1>7. ASSUME NEW w \in Writer, ShortWrite(w) PROVE Goal
    BY <1>7 DEF ShortWrite
  <1>8. ASSUME NEW w \in Writer, EndAppend(w) PROVE Goal
    BY <1>8 DEF EndAppend, Lock!Leave
  <1>9. ASSUME NEW w \in Writer, Crash(w) PROVE Goal
    BY <1>9 DEF Crash
  <1>10. CASE UNCHANGED writerVars
    BY <1>10 DEF writerVars
  <1> QED
    BY <1>1, <1>2, <1>3, <1>4, <1>5, <1>6, <1>7, <1>8, <1>9, <1>10, NextLogStep
       DEF LogStep, Writing

LEMMA CompletesStep ==
  ASSUME IInv, [Next]_vars
  PROVE  WriteCompletes'
  <1> USE DEF IInv, LogTypeOK, Lock!TypeOK, WriterOwnsLock, OwnerInLock, BufferInWrite, InLock
  <1> SUFFICES ASSUME (crashes + shorts = 0)'
               PROVE  /\ \A w \in Writer : wpc'[w] = "write" =>
                             Complete(log' \o buffer'[w]) /\ mtime' # None
                      /\ (\A w \in Writer : wpc'[w] # "write") =>
                           \/ log' = <<>> /\ mtime' = None
                           \/ Complete(log') /\ mtime' # None
    BY DEF WriteCompletes
  <1> DEFINE Goal == /\ \A w \in Writer : wpc'[w] = "write" =>
                             Complete(log' \o buffer'[w]) /\ mtime' # None
                     /\ (\A w \in Writer : wpc'[w] # "write") =>
                           \/ log' = <<>> /\ mtime' = None
                           \/ Complete(log') /\ mtime' # None
  <1>1. ASSUME NEW w \in Writer, NEW e \in Event, BeginAppend(w, e) PROVE Goal
    BY <1>1 DEF BeginAppend, WriteCompletes
  <1>2. ASSUME NEW w \in Writer, Contended(w) PROVE Goal
    BY <1>2 DEF Contended, WriteCompletes
  <1>3. ASSUME NEW w \in Writer, AcquireTag(w) PROVE Goal
    BY <1>3 DEF AcquireTag, Lock!Acquire, WriteCompletes
  <1>4. ASSUME NEW w \in Writer, OpenLog(w) PROVE Goal
    <2>1. \A v \in Writer : wpc[v] # "write"
      BY <1>4 DEF OpenLog
    <2>2. doing[w] \in Event /\ clock # None
      BY <1>4, LogAssumption DEF OpenLog, Time
    <2>3. \/ log = <<>> /\ mtime = None
          \/ Complete(log) /\ mtime # None
      BY <1>4, <2>1 DEF OpenLog, WriteCompletes
    <2>4. CASE log = <<>> /\ mtime = None
      <3>1. buffer'[w] = <<Hash, NL>> \o LineOf(doing[w]) /\ log' = <<>> /\ mtime' # None
        BY <1>4, <2>2, <2>4 DEF OpenLog, NeedHeader
      <3>2. Complete(log' \o buffer'[w])
        BY <2>2, <3>1, HeaderCompletes
      <3> QED
        BY <1>4, <2>1, <3>1, <3>2 DEF OpenLog
    <2>5. CASE Complete(log) /\ mtime # None
      <3>1. buffer'[w] = LineOf(doing[w]) /\ log' = log /\ mtime' # None
        <4>1. <<>> \o LineOf(doing[w]) = LineOf(doing[w])
          BY <2>2, LineTypes
        <4> QED
          BY <1>4, <2>2, <2>5, <4>1 DEF OpenLog, NeedHeader
      <3>2. Complete(log' \o buffer'[w])
        BY <2>2, <2>5, <3>1, LineCompletes
      <3> QED
        BY <1>4, <2>1, <3>1, <3>2 DEF OpenLog
    <2> QED
      BY <2>3, <2>4, <2>5
  <1>5. ASSUME NEW w \in Writer, OpenFails(w) PROVE Goal
    BY <1>5 DEF OpenFails, WriteCompletes
  <1>6. ASSUME NEW w \in Writer, WriteToken(w) PROVE Goal
    <2>1. /\ log \in Seq(Token) /\ buffer[w] \in Seq(Token) /\ buffer[w] # <<>>
          /\ log' = log \o <<Head(buffer[w])>> /\ buffer'[w] = Tail(buffer[w])
      BY <1>6 DEF WriteToken
    <2>2. log' \o buffer'[w] = log \o buffer[w]
      BY <2>1, NextToken
    <2>3. mtime' # None
      BY <1>6, LogAssumption DEF WriteToken, Time
    <2> QED
      BY <1>6, <2>2, <2>3 DEF WriteToken, WriteCompletes
  <1>7. ASSUME NEW w \in Writer, ShortWrite(w) PROVE Goal
    BY <1>7 DEF ShortWrite
  <1>8. ASSUME NEW w \in Writer, EndAppend(w) PROVE Goal
    <2>1. log \o buffer[w] = log
      BY <1>8 DEF EndAppend
    <2> QED
      BY <1>8, <2>1 DEF EndAppend, WriteCompletes
  <1>9. ASSUME NEW w \in Writer, Crash(w) PROVE Goal
    BY <1>9 DEF Crash
  <1>10. CASE UNCHANGED writerVars
    BY <1>10 DEF writerVars, WriteCompletes
  <1> QED
    BY <1>1, <1>2, <1>3, <1>4, <1>5, <1>6, <1>7, <1>8, <1>9, <1>10, NextLogStep
       DEF LogStep, Writing

THEOREM EventLogInvariant == Spec => []IInv
  <1>1. IInv /\ [Next]_vars => IInv'
    BY TypeStep, LockStep, CompletesStep DEF IInv
  <1> QED
    BY InitIInv, <1>1, PTL DEF Spec

-----------------------------------------------------------------------------
(* Type correctness of the writers' state. *)
THEOREM EventLogTypes == Spec => []LogTypeOK
  BY EventLogInvariant, PTL DEF IInv

(* While nothing has failed the file consists of the magic line and of     *)
(* whole event lines, of which only the last may be incomplete.            *)
THEOREM EventLogLinesIntact == Spec => []LinesIntact
  <1>1. IInv => LinesIntact
    <2> SUFFICES ASSUME IInv, crashes + shorts = 0 PROVE InLines(log)
      BY DEF LinesIntact
    <2>1. CASE \E w \in Writer : wpc[w] = "write"
      <3>1. PICK w \in Writer : Complete(log \o buffer[w])
        BY <2>1 DEF IInv, WriteCompletes
      <3>2. log \in Seq(Token) /\ buffer[w] \in Seq(Token)
        BY DEF IInv, LogTypeOK
      <3> QED
        BY <3>1, <3>2, PrefixInLines DEF Complete
    <2>2. CASE \A w \in Writer : wpc[w] # "write"
      BY <2>2 DEF IInv, WriteCompletes, Complete, InLines
    <2> QED
      BY <2>1, <2>2
  <1> QED
    BY <1>1, EventLogInvariant, PTL

(* No append changes what is in the file already. *)
THEOREM EventLogAppendOnly == Spec => AppendOnly
  <1>1. IInv /\ [Next]_vars => [IsPrefix(log, log')]_log
    <2> SUFFICES ASSUME IInv, [Next]_vars, log' # log PROVE IsPrefix(log, log')
      OBVIOUS
    <2>1. PICK w \in Writer : WriteToken(w)
      BY NextLogStep DEF LogStep, Writing, BeginAppend, Contended, AcquireTag, OpenLog,
         OpenFails, ShortWrite, EndAppend, Crash, writerVars
    <2>2. log \in Seq(Token) /\ Head(buffer[w]) \in Token
      BY <2>1 DEF WriteToken, IInv, LogTypeOK
    <2>3. log' = log \o <<Head(buffer[w])>>
      BY <2>1 DEF WriteToken
    <2> QED
      BY <2>2, <2>3 DEF IsPrefix
  <1> QED
    BY <1>1, EventLogInvariant, PTL DEF Spec, AppendOnly

-----------------------------------------------------------------------------
(* What append has promised, and what the readers have cached.             *)

(* Events whose line in s ends with its newline: later appends cannot join *)
(* anything to it.                                                         *)
KeptAt(s, i, e) ==
  /\ i + 2 <= Len(s)
  /\ s[i] = Start(e) /\ s[i + 1] = Rest(e) /\ s[i + 2] = NL
  /\ StartsLine(s, i)

Kept(s) == {e \in Event : \E i \in DOMAIN s : KeptAt(s, i, e)}

(* The line that is appended to s next will be lost. *)
Torn(s) == IF s # <<>> /\ s[Len(s)] # NL THEN 1 ELSE 0

(* The events of A that are, or can still be, lost. *)
Debt(s, A) == Cardinality(A \ Kept(s)) + Torn(s)

(* A fault costs two events at most: the one being appended and the next.  *)
DebtBounded ==
  /\ \A w \in Writer : wpc[w] = "write" =>
       Debt(log \o buffer[w], Acked \cup {doing[w]}) <= crashes + 2 * shorts
  /\ (\A w \in Writer : wpc[w] # "write") => Debt(log, Acked) <= crashes + 2 * shorts

(* A call of append is over once and for all; each event is with the       *)
(* caller, with one process, or done.                                      *)
OneCallEach ==
  /\ todo \cap Acked = {}
  /\ \A w \in Writer : doing[w] \notin todo \cup Acked
  /\ \A v, w \in Writer : doing[v] = doing[w] /\ doing[w] # None => v = w

Written(e) == \E i \in DOMAIN log : log[i] = Rest(e)

(* No event is written that is still to be appended. *)
WrittenOnce ==
  /\ \A e \in todo : ~Written(e)
  /\ \A w \in Writer : \/ wpc[w] \in {"wait", "open"}
                       \/ \E i \in DOMAIN buffer[w] : buffer[w][i] = Rest(doing[w])
                       => ~Written(doing[w])

(* What is left to write is the end of the line of the event, and of the   *)
(* magic line only what belongs to the first two places in the file.       *)
EndsLineOf(s, t, e) ==
  LET u == s \o t   n == Len(u)
  IN  /\ n >= 3 /\ u[n - 2] = Start(e) /\ u[n - 1] = Rest(e) /\ u[n] = NL
      /\ \A i \in Len(s) + 1 .. n - 3 : i <= 2 /\ u[i] \in {Hash, NL}

BufferEndsLine ==
  \A w \in Writer : wpc[w] = "write" /\ buffer[w] # <<>> =>
    EndsLineOf(log, buffer[w], doing[w])

NoFileIsEmpty == mtime = None => log = <<>>

TimesPast ==
  /\ mtime # None => mtime <= clock
  /\ \A r \in Reader : /\ parsing[r] # None => parsing[r] <= clock
                       /\ cacheTime[r] # None => cacheTime[r] <= clock

LogInv ==
  /\ TypeOK /\ IsFiniteSet(Acked)
  /\ OneCallEach /\ WrittenOnce /\ BufferEndsLine /\ NoFileIsEmpty
  /\ DebtBounded /\ TimesPast /\ CacheComplete

-----------------------------------------------------------------------------
(* What can be read of a file, and what of it stays. *)

LineAt(s, i, e) ==
  /\ i < Len(s)
  /\ s[i] = Start(e) /\ s[i + 1] = Rest(e)
  /\ StartsLine(s, i) /\ EndsLine(s, i + 1)

(* Decode returns the events of the event lines and nothing else. *)
LEMMA DecodeReads ==
  ASSUME NEW s \in Seq(Token)
  PROVE  /\ Decode(s) \in Seq(Event)
         /\ ToSet(Decode(s)) = {e \in Event : \E i \in DOMAIN s : LineAt(s, i, e)}
  <1> DEFINE mask == {i \in DOMAIN s : EventLine(s, i)}
             m == Masked(s, mask)
  <1>1. DOMAIN s = 1 .. Len(s) /\ mask \in SUBSET (1 .. Len(s))
    OBVIOUS
  <1>2. m \in Seq(Token)
    BY <1>1, MaskedSelects
  <1>3. PICK pos : Lists(pos, Len(m), mask) /\ \A k \in 1 .. Len(m) : m[k] = s[pos[k]]
    BY <1>1, MaskedSelects
  <1>4. \A i \in DOMAIN s : EventLine(s, i) <=> \E e \in Event : LineAt(s, i, e)
    BY DEF EventLine, LineAt
  <1>5. \A i \in DOMAIN s : \A e \in Event : LineAt(s, i, e) => s[i][1] = e
    BY Tokens DEF LineAt
  <1>6. Decode(s) = [k \in 1 .. Len(m) |-> m[k][1]]
    BY <1>2 DEF Decode
  <1>7. \A k \in 1 .. Len(m) : pos[k] \in mask /\ m[k] = s[pos[k]]
    BY <1>3 DEF Lists
  <1>8. \A i \in mask : \E k \in 1 .. Len(m) : pos[k] = i
    BY <1>3 DEF Lists
  <1>9. Len(m) \in Nat
    BY <1>2
  <1> HIDE DEF m
  <1>10. \A k \in 1 .. Len(m) : \E e \in Event : LineAt(s, pos[k], e) /\ m[k][1] = e
    BY <1>4, <1>5, <1>7
  <1>11. Decode(s) \in Seq(Event)
    <2>1. \A k \in 1 .. Len(m) : m[k][1] \in Event
      BY <1>10
    <2> QED
      BY <1>6, <1>9, <2>1
  <1>12. ToSet(Decode(s)) = {m[k][1] : k \in 1 .. Len(m)}
    BY <1>6 DEF ToSet
  <1>13. ASSUME NEW e \in Event, NEW i \in DOMAIN s, LineAt(s, i, e)
         PROVE  \E k \in 1 .. Len(m) : m[k][1] = e
    <2>1. PICK k \in 1 .. Len(m) : pos[k] = i
      BY <1>4, <1>8, <1>13
    <2> QED
      BY <1>5, <1>7, <1>13, <2>1
  <1>14. \A k \in 1 .. Len(m) : pos[k] \in DOMAIN s
    BY <1>7
  <1>15. ASSUME NEW e
         PROVE  (\E k \in 1 .. Len(m) : m[k][1] = e)
                  <=> e \in Event /\ \E i \in DOMAIN s : LineAt(s, i, e)
    BY <1>10, <1>13, <1>14
  <1>16. ToSet(Decode(s)) = {e \in Event : \E i \in DOMAIN s : LineAt(s, i, e)}
    BY <1>12, <1>15
  <1> QED
    BY <1>11, <1>16

(* An event whose line has its newline can be read, and always will be. *)
LEMMA KeptReadable ==
  ASSUME NEW s \in Seq(Token)
  PROVE  Kept(s) \subseteq ToSet(Decode(s))
  <1>1. \A i \in DOMAIN s : \A e \in Event : KeptAt(s, i, e) => LineAt(s, i, e)
    BY DEF KeptAt, LineAt, EndsLine
  <1> QED
    BY <1>1, DecodeReads DEF Kept

LEMMA KeptGrows ==
  ASSUME NEW s \in Seq(Token), NEW t \in Seq(Token)
  PROVE  Kept(s) \subseteq Kept(s \o t)
  <1>1. /\ Len(s \o t) = Len(s) + Len(t)
        /\ \A i \in 1 .. Len(s) : (s \o t)[i] = s[i]
        /\ DOMAIN s = 1 .. Len(s) /\ DOMAIN (s \o t) = 1 .. Len(s \o t)
        /\ Len(s) \in Nat /\ Len(t) \in Nat
    OBVIOUS
  <1> DEFINE u == s \o t
  <1> HIDE DEF u
  <1>2. ASSUME NEW i \in 1 .. Len(s), NEW e \in Event, KeptAt(s, i, e) PROVE KeptAt(u, i, e)
    <2>1. /\ i + 2 \in 1 .. Len(s) /\ i + 1 \in 1 .. Len(s)
          /\ i = 1 \/ i - 1 \in 1 .. Len(s)
      BY <1>1, <1>2 DEF KeptAt
    <2> QED
      BY <1>1, <1>2, <2>1 DEF KeptAt, StartsLine, u
  <1>3. \A i \in 1 .. Len(s) : i \in DOMAIN u
    BY <1>1 DEF u
  <1> QED
    BY <1>1, <1>2, <1>3 DEF Kept, u

(* A process that has yet to end a line can only save its own event. *)
LEMMA KeptOwn ==
  ASSUME NEW s \in Seq(Token), NEW t \in Seq(Token), NEW e \in Event, EndsLineOf(s, t, e)
  PROVE  Kept(s \o t) \subseteq Kept(s) \cup {e}
  <1> DEFINE u == s \o t
             n == Len(u)
  <1>1. /\ n = Len(s) + Len(t)
        /\ \A i \in 1 .. Len(s) : u[i] = s[i]
        /\ DOMAIN s = 1 .. Len(s) /\ DOMAIN u = 1 .. n
        /\ Len(s) \in Nat /\ Len(t) \in Nat
    OBVIOUS
  <1>2. /\ n >= 3 /\ u[n - 2] = Start(e) /\ u[n - 1] = Rest(e) /\ u[n] = NL
        /\ \A i \in Len(s) + 1 .. n - 3 : i <= 2 /\ u[i] \in {Hash, NL}
    BY DEF EndsLineOf
  <1> HIDE DEF u, n
  <1> SUFFICES ASSUME NEW i \in 1 .. n, NEW d \in Event, KeptAt(u, i, d)
               PROVE  d = e \/ \E j \in 1 .. Len(s) : KeptAt(s, j, d)
    BY <1>1 DEF Kept, u
  <1>3. i + 2 <= n /\ u[i] = Start(d) /\ u[i + 1] = Rest(d) /\ u[i + 2] = NL /\ StartsLine(u, i)
    BY DEF KeptAt, n
  <1>4. CASE i + 2 <= Len(s)
    <2>1. /\ i \in 1 .. Len(s) /\ i + 1 \in 1 .. Len(s) /\ i + 2 \in 1 .. Len(s)
          /\ i = 1 \/ i - 1 \in 1 .. Len(s)
      BY <1>1, <1>4
    <2>2. KeptAt(s, i, d)
      BY <1>1, <1>3, <1>4, <2>1 DEF KeptAt, StartsLine
    <2> QED
      BY <2>1, <2>2
  <1>5. CASE i + 2 > Len(s)
    <2>1. n \in Nat
      BY <1>1
    <2>2. CASE i + 2 = n
      <3>1. i = n - 2
        BY <2>1, <2>2
      <3> QED
        BY <1>2, <1>3, <3>1, Tokens
    <2>3. CASE i + 2 = n - 1
      <3>1. i + 2 = n - 1 /\ u[n - 1] = NL
        BY <1>3, <2>3
      <3> QED
        BY <1>2, <3>1, Tokens
    <2>4. CASE i + 2 = n - 2
      <3>1. i + 2 = n - 2 /\ u[n - 2] = NL
        BY <1>3, <2>4
      <3> QED
        BY <1>2, <3>1, Tokens
    <2>5. CASE i + 2 <= n - 3
      <3>1. i + 2 \in Len(s) + 1 .. n - 3
        BY <1>1, <1>5, <2>1, <2>5
      <3>2. i + 2 <= 2
        BY <1>2, <3>1
      <3> QED
        BY <3>2
    <2> QED
      BY <1>3, <2>1, <2>2, <2>3, <2>4, <2>5
  <1> QED
    BY <1>1, <1>4, <1>5

(* The line of an event that begins a line, or the file, is kept. *)
LEMMA LineKept ==
  ASSUME NEW s \in Seq(Token), NEW e \in Event, Torn(s) = 0
  PROVE  e \in Kept(s \o LineOf(e))
  <1> DEFINE u == s \o LineOf(e)
             n == Len(s)
  <1>1. /\ Len(u) = n + 3 /\ n \in Nat /\ DOMAIN u = 1 .. n + 3
        /\ \A i \in 1 .. n : u[i] = s[i]
        /\ u[n + 1] = Start(e) /\ u[n + 2] = Rest(e) /\ u[n + 3] = NL
    BY LineTypes, Tokens DEF LineOf
  <1>2. n = 0 \/ s[n] = NL
    BY DEF Torn
  <1> HIDE DEF u, n
  <1>3. n + 1 = 1 \/ u[(n + 1) - 1] = NL
    BY <1>1, <1>2
  <1>4. KeptAt(u, n + 1, e)
    BY <1>1, <1>3 DEF KeptAt, StartsLine
  <1>5. n + 1 \in DOMAIN u
    BY <1>1
  <1> QED
    BY <1>4, <1>5 DEF Kept, u

(* So is that of the first event, behind the magic line. *)
LEMMA FirstLineKept ==
  ASSUME NEW e \in Event
  PROVE  e \in Kept(<<>> \o (<<Hash, NL>> \o LineOf(e)))
  <1>1. <<>> \o (<<Hash, NL>> \o LineOf(e)) = <<Hash, NL>> \o LineOf(e)
    BY LineTypes, Tokens
  <1>2. <<Hash, NL>> \in Seq(Token) /\ Torn(<<Hash, NL>>) = 0
    BY Tokens DEF Torn
  <1> QED
    BY <1>1, <1>2, LineKept

(* A token that is written makes no event readable but the one that it     *)
(* completes.                                                              *)
LEMMA ReadableOwn ==
  ASSUME NEW s \in Seq(Token), NEW x \in Token, NEW e,
         \A d \in Event : x = Rest(d) => d = e
  PROVE  ToSet(Decode(s \o <<x>>)) \subseteq ToSet(Decode(s)) \cup {e}
  <1> DEFINE u == s \o <<x>>
  <1>1. /\ u \in Seq(Token) /\ Len(u) = Len(s) + 1 /\ u[Len(s) + 1] = x
        /\ \A i \in 1 .. Len(s) : u[i] = s[i]
        /\ DOMAIN s = 1 .. Len(s) /\ DOMAIN u = 1 .. Len(s) + 1
        /\ Len(s) \in Nat
    OBVIOUS
  <1> HIDE DEF u
  <1> SUFFICES ASSUME NEW i \in 1 .. Len(s) + 1, NEW d \in Event, LineAt(u, i, d), d # e
               PROVE  \E j \in 1 .. Len(s) : LineAt(s, j, d)
    BY <1>1, DecodeReads DEF u
  <1>2. /\ i < Len(s) + 1 /\ u[i] = Start(d) /\ u[i + 1] = Rest(d)
        /\ i = 1 \/ u[i - 1] = NL
        /\ i + 1 = Len(s) + 1 \/ u[(i + 1) + 1] = NL
    BY <1>1 DEF LineAt, StartsLine, EndsLine
  <1>3. i + 1 # Len(s) + 1 /\ i < Len(s) + 1 /\ Len(s) \in Nat
    BY <1>1, <1>2
  <1>4. /\ i \in 1 .. Len(s) /\ i + 1 \in 1 .. Len(s) /\ i < Len(s)
        /\ i = 1 \/ i - 1 \in 1 .. Len(s)
        /\ i + 1 = Len(s) \/ (i + 1) + 1 \in 1 .. Len(s)
    BY <1>3
  <1>5. LineAt(s, i, d)
    BY <1>1, <1>2, <1>3, <1>4 DEF LineAt, StartsLine, EndsLine
  <1> QED
    BY <1>4, <1>5

-----------------------------------------------------------------------------
(* The steps. *)

(* What a step does to the readers. *)
LEMMA NextReadStep ==
  ASSUME [Next]_vars
  PROVE  \/ UNCHANGED readerVars
         \/ /\ UNCHANGED <<writerVars, clock>>
            /\ \E r \in Reader : BeginRead(r) \/ EndRead(r) \/ ReadFails(r)
  BY DEF Next, Write, Read, Tick, vars

LEMMA ReaderTypeStep ==
  ASSUME TypeOK, LogTypeOK', [Next]_vars
  PROVE  TypeOK'
  <1> USE DEF TypeOK
  <1>1. CASE UNCHANGED readerVars
    BY <1>1 DEF readerVars
  <1>2. ASSUME NEW r \in Reader, BeginRead(r) PROVE TypeOK'
    BY <1>2 DEF BeginRead, LogTypeOK
  <1>3. ASSUME NEW r \in Reader, EndRead(r) PROVE TypeOK'
    <2>1. Decode(log) \in Seq(Event)
      BY DecodeReads DEF LogTypeOK
    <2> QED
      BY <1>3, <2>1 DEF EndRead
  <1>4. ASSUME NEW r \in Reader, ReadFails(r) PROVE TypeOK'
    BY <1>4 DEF ReadFails
  <1> QED
    BY <1>1, <1>2, <1>3, <1>4, NextReadStep

(* What the steps do to the events that have been acknowledged. *)
LEMMA AckStep ==
  ASSUME LogTypeOK, LogStep
  PROVE  \/ ackTime' = ackTime
         \/ \E w \in Writer : EndAppend(w) /\ Acked' = Acked \cup {doing[w]}
  <1>1. ASSUME NEW w \in Writer, EndAppend(w) PROVE Acked' = Acked \cup {doing[w]}
    <2>1. doing[w] \in Event /\ clock # None
      BY <1>1, LogAssumption DEF EndAppend, LogTypeOK, Time
    <2>2. ackTime' = [ackTime EXCEPT ![doing[w]] = clock] /\ ackTime \in [Event -> Time \cup {None}]
      BY <1>1 DEF EndAppend, LogTypeOK
    <2> QED
      BY <2>1, <2>2 DEF Acked
  <1> QED
    BY <1>1 DEF LogStep, Writing, BeginAppend, Contended, AcquireTag, OpenLog, OpenFails,
       WriteToken, ShortWrite, Crash, writerVars

LEMMA OneCallStep ==
  ASSUME LogTypeOK, OneCallEach, LogStep
  PROVE  OneCallEach'
  <1> USE DEF OneCallEach, LogTypeOK
  <1>0. None \notin Event /\ Acked \subseteq Event
    BY LogAssumption DEF Acked
  <1>1. ASSUME NEW w \in Writer, NEW e \in Event, BeginAppend(w, e) PROVE OneCallEach'
    BY <1>0, <1>1 DEF BeginAppend, Acked
  <1>2. ASSUME NEW w \in Writer, Contended(w) \/ OpenFails(w) PROVE OneCallEach'
    <2>1. /\ todo' = todo \cup {doing[w]} /\ doing' = [doing EXCEPT ![w] = None]
          /\ ackTime' = ackTime /\ doing[w] # None /\ doing[w] \in Event
      BY <1>2 DEF Contended, OpenFails
    <2>2. Acked' = Acked
      BY <2>1 DEF Acked
    <2> HIDE DEF Acked
    <2> QED
      BY <1>0, <2>1, <2>2
  <1>3. ASSUME NEW w \in Writer, EndAppend(w) PROVE OneCallEach'
    <2>1. /\ todo' = todo /\ doing' = [doing EXCEPT ![w] = None]
          /\ doing[w] # None /\ doing[w] \in Event
      BY <1>3 DEF EndAppend
    <2>2. Acked' = Acked \cup {doing[w]}
      <3>1. clock # None
        BY LogAssumption DEF Time
      <3> QED
        BY <1>3, <2>1, <3>1 DEF EndAppend, Acked
    <2> QED
      BY <1>0, <2>1, <2>2
  <1>4. ASSUME NEW w \in Writer, Crash(w) PROVE OneCallEach'
    <2>1. todo' = todo /\ doing' = [doing EXCEPT ![w] = None] /\ ackTime' = ackTime
      BY <1>4 DEF Crash
    <2>2. Acked' = Acked
      BY <2>1 DEF Acked
    <2> QED
      BY <1>0, <2>1, <2>2
  <1>5. ASSUME UNCHANGED <<todo, doing, ackTime>> PROVE OneCallEach'
    <2>1. Acked' = Acked
      BY <1>5 DEF Acked
    <2> QED
      BY <1>5, <2>1
  <1> HIDE DEF OneCallEach, LogTypeOK
  <1> QED
    BY <1>1, <1>2, <1>3, <1>4, <1>5 DEF LogStep, Writing, AcquireTag, OpenLog, WriteToken,
       ShortWrite, writerVars

(* Of the tokens left to write only the last but one ends an event. *)
LEMMA RestToken ==
  ASSUME NEW s \in Seq(Token), NEW t \in Seq(Token), t # <<>>, NEW e \in Event,
         EndsLineOf(s, t, e)
  PROVE  /\ \A i \in 1 .. Len(t), d \in Event : t[i] = Rest(d) => d = e /\ i = Len(t) - 1
         /\ Len(t) >= 2 => t[Len(t) - 1] = Rest(e)
  <1> DEFINE u == s \o t
             n == Len(u)
  <1>1. /\ n = Len(s) + Len(t) /\ Len(s) \in Nat /\ Len(t) \in Nat
        /\ \A i \in 1 .. Len(t) : u[Len(s) + i] = t[i]
    BY ConcatProperties
  <1>2. /\ n >= 3 /\ u[n - 2] = Start(e) /\ u[n - 1] = Rest(e) /\ u[n] = NL
        /\ \A i \in Len(s) + 1 .. n - 3 : i <= 2 /\ u[i] \in {Hash, NL}
    BY DEF EndsLineOf
  <1> HIDE DEF u, n
  <1>3. ASSUME NEW i \in 1 .. Len(t), NEW d \in Event, t[i] = Rest(d)
        PROVE  d = e /\ i = Len(t) - 1
    <2>1. Rest(d) = Rest(e) => d = e
      BY DEF Rest
    <2>2. Rest(d) # Start(e) /\ Rest(d) \notin {Hash, NL}
      BY Tokens
    <2>3. u[Len(s) + i] = Rest(d)
      BY <1>1, <1>3
    <2>4. \/ Len(s) + i \in Len(s) + 1 .. n - 3
          \/ Len(s) + i = n - 2 \/ Len(s) + i = n - 1 \/ Len(s) + i = n
      <3>1. n = Len(s) + Len(t) /\ Len(s) \in Nat /\ Len(t) \in Nat /\ i \in 1 .. Len(t)
        BY <1>1
      <3> QED
        BY <3>1
    <2>5. Len(s) + i = n - 1
      BY <1>2, <2>2, <2>3, <2>4
    <2>6. i = Len(t) - 1
      BY <1>1, <2>5
    <2> QED
      BY <1>2, <2>1, <2>3, <2>5, <2>6
  <1>4. Len(t) >= 2 => t[Len(t) - 1] = Rest(e)
    <2>1. Len(t) >= 2 => Len(t) - 1 \in 1 .. Len(t) /\ Len(s) + (Len(t) - 1) = n - 1
      BY <1>1
    <2> QED
      BY <1>1, <1>2, <2>1
  <1> QED
    BY <1>3, <1>4

(* A whole line is left to write. *)
LEMMA LineEnds ==
  ASSUME NEW s \in Seq(Token), NEW e \in Event
  PROVE  EndsLineOf(s, LineOf(e), e)
  <1> DEFINE u == s \o LineOf(e)
             n == Len(s)
  <1>1. /\ Len(u) = n + 3 /\ n \in Nat
        /\ u[n + 1] = Start(e) /\ u[n + 2] = Rest(e) /\ u[n + 3] = NL
    BY LineTypes, Tokens DEF LineOf
  <1> HIDE DEF u, n
  <1>2. /\ (n + 3) - 2 = n + 1 /\ (n + 3) - 1 = n + 2 /\ n + 3 >= 3
        /\ n + 1 .. (n + 3) - 3 = {}
    BY <1>1
  <1>3. /\ Len(u) >= 3 /\ u[Len(u) - 2] = Start(e) /\ u[Len(u) - 1] = Rest(e) /\ u[Len(u)] = NL
        /\ n + 1 .. Len(u) - 3 = {}
    BY <1>1, <1>2
  <1> QED
    BY <1>3 DEF EndsLineOf, u, n

LEMMA FirstLineEnds ==
  ASSUME NEW e \in Event
  PROVE  EndsLineOf(<<>>, <<Hash, NL>> \o LineOf(e), e)
  <1> DEFINE u == <<>> \o (<<Hash, NL>> \o LineOf(e))
  <1>1. /\ Len(u) = 5 /\ u[1] = Hash /\ u[2] = NL
        /\ u[3] = Start(e) /\ u[4] = Rest(e) /\ u[5] = NL
    BY Tokens DEF LineOf
  <1> HIDE DEF u
  <1>2. \A i \in 0 + 1 .. 5 - 3 : i <= 2 /\ u[i] \in {Hash, NL}
    <2>1. \A i \in 0 + 1 .. 5 - 3 : i = 1 \/ i = 2
      OBVIOUS
    <2> QED
      BY <1>1, <2>1
  <1>3. Len(<<>>) = 0
    OBVIOUS
  <1> QED
    BY <1>1, <1>2, <1>3 DEF EndsLineOf, u

LEMMA BufferStep ==
  ASSUME LogTypeOK, LogTypeOK', WriterOwnsLock, BufferEndsLine, NoFileIsEmpty, LogStep
  PROVE  BufferEndsLine' /\ NoFileIsEmpty'
  <1> USE DEF BufferEndsLine, NoFileIsEmpty
  <1>1. ASSUME NEW w \in Writer, OpenLog(w) PROVE BufferEndsLine' /\ NoFileIsEmpty'
    <2>1. /\ doing[w] \in Event /\ log \in Seq(Token) /\ log' = log /\ doing' = doing
          /\ \A v \in Writer \ {w} : buffer'[v] = buffer[v] /\ wpc'[v] = wpc[v]
      BY <1>1 DEF OpenLog, LogTypeOK
    <2>2. mtime' # None
      BY <1>1, LogAssumption DEF OpenLog, LogTypeOK, Time
    <2>3. buffer'[w] = (IF NeedHeader THEN <<Hash, NL>> ELSE <<>>) \o LineOf(doing[w])
      BY <1>1 DEF OpenLog, LogTypeOK
    <2>4. EndsLineOf(log, buffer'[w], doing[w])
      <3>1. CASE NeedHeader
        BY <2>1, <2>3, <3>1, FirstLineEnds DEF NeedHeader
      <3>2. CASE ~NeedHeader
        <4>1. buffer'[w] = LineOf(doing[w])
          BY <2>1, <2>3, <3>2, LineTypes
        <4> QED
          BY <2>1, <4>1, LineEnds
      <3> QED
        BY <3>1, <3>2
    <2> QED
      BY <2>1, <2>2, <2>4
  <1>2. ASSUME NEW w \in Writer, WriteToken(w) PROVE BufferEndsLine' /\ NoFileIsEmpty'
    <2>1. /\ log \in Seq(Token) /\ buffer[w] \in Seq(Token) /\ buffer[w] # <<>> /\ wpc[w] = "write"
          /\ log' = log \o <<Head(buffer[w])>> /\ buffer'[w] = Tail(buffer[w])
          /\ wpc' = wpc /\ doing' = doing /\ mtime' # None
      BY <1>2, LogAssumption DEF WriteToken, LogTypeOK, Time
    <2>2. \A v \in Writer : v # w => wpc[v] # "write"
      BY <2>1 DEF WriterOwnsLock, InLock
    <2>3. log' \o buffer'[w] = log \o buffer[w]
      BY <2>1, NextToken
    <2>4. /\ Len(log') = Len(log) + 1 /\ Len(log) \in Nat /\ Len(log \o buffer[w]) \in Nat
      BY <2>1
    <2>5. EndsLineOf(log', buffer'[w], doing[w])
      <3>1. \A i \in Len(log') + 1 .. Len(log \o buffer[w]) - 3 :
              i \in Len(log) + 1 .. Len(log \o buffer[w]) - 3
        BY <2>4
      <3>2. EndsLineOf(log, buffer[w], doing[w])
        BY <2>1
      <3> QED
        BY <2>3, <3>1, <3>2 DEF EndsLineOf
    <2> QED
      BY <2>1, <2>2, <2>5
  <1>3. ASSUME NEW w \in Writer, ShortWrite(w) PROVE BufferEndsLine' /\ NoFileIsEmpty'
    <2>1. /\ doing[w] \in Event /\ log \in Seq(Token)
          /\ UNCHANGED <<log, mtime, doing, wpc>>
          /\ buffer'[w] \in {<<>>, LineOf(doing[w])}
          /\ \A v \in Writer \ {w} : buffer'[v] = buffer[v]
      BY <1>3 DEF ShortWrite, LogTypeOK
    <2> QED
      BY <2>1, LineEnds
  <1>4. ASSUME NEW w \in Writer, NEW e \in Event, BeginAppend(w, e)
        PROVE BufferEndsLine' /\ NoFileIsEmpty'
    BY <1>4 DEF BeginAppend, LogTypeOK
  <1>5. ASSUME NEW w \in Writer, Contended(w) \/ AcquireTag(w) \/ OpenFails(w)
                                   \/ EndAppend(w) \/ Crash(w)
        PROVE BufferEndsLine' /\ NoFileIsEmpty'
    <2>1. /\ UNCHANGED <<log, mtime>> /\ wpc'[w] # "write"
          /\ \A v \in Writer \ {w} : /\ wpc'[v] = wpc[v] /\ doing'[v] = doing[v]
                                     /\ buffer'[v] = buffer[v]
      BY <1>5 DEF Contended, AcquireTag, OpenFails, EndAppend, Crash, LogTypeOK
    <2> QED
      BY <2>1
  <1>6. CASE UNCHANGED writerVars
    BY <1>6 DEF writerVars
  <1> QED
    BY <1>1, <1>2, <1>3, <1>4, <1>5, <1>6 DEF LogStep, Writing

LEMMA WrittenStep ==
  ASSUME LogTypeOK, WriterOwnsLock, BufferInWrite, OneCallEach, WrittenOnce, BufferEndsLine,
         LogStep
  PROVE  WrittenOnce'
  <1> USE DEF WrittenOnce
  <1>0. /\ None \notin Event /\ \A w \in Writer : wpc[w] # "idle" => doing[w] \in Event
        /\ \A w \in Writer : wpc[w] # "write" => DOMAIN buffer[w] = {}
    BY LogAssumption DEF LogTypeOK, BufferInWrite
  <1>1. ASSUME NEW w \in Writer, WriteToken(w) PROVE WrittenOnce'
    <2>1. /\ log \in Seq(Token) /\ buffer[w] \in Seq(Token) /\ buffer[w] # <<>> /\ wpc[w] = "write"
          /\ log' = log \o <<Head(buffer[w])>> /\ buffer'[w] = Tail(buffer[w])
          /\ \A v \in Writer \ {w} : buffer'[v] = buffer[v]
          /\ UNCHANGED <<wpc, doing, todo>>
      BY <1>1 DEF WriteToken, LogTypeOK
    <2> DEFINE b == buffer[w]
               e == doing[w]
    <2>2. e \in Event /\ EndsLineOf(log, b, e)
      BY <1>0, <2>1 DEF BufferEndsLine
    <2>3. \A i \in 1 .. Len(b), d \in Event : b[i] = Rest(d) => d = e /\ i = Len(b) - 1
      <3> HIDE DEF b, e
      <3> QED
        BY <2>1, <2>2, RestToken DEF b
    <2>4. /\ \A d : Written(d)' => Written(d) \/ b[1] = Rest(d)
          /\ 1 \in 1 .. Len(b)
      BY <2>1 DEF Written
    <2>5. ASSUME NEW d \in Event, d # e, ~Written(d) PROVE ~Written(d)'
      BY <2>3, <2>4, <2>5
    <2>6. \A d \in todo : d \in Event /\ d # e
      BY DEF OneCallEach, LogTypeOK
    <2>7. ASSUME NEW v \in Writer, v # w, \/ wpc[v] \in {"wait", "open"}
                                          \/ \E i \in DOMAIN buffer[v] : buffer[v][i] = Rest(doing[v])
          PROVE  ~Written(doing[v])'
      <3>1. wpc[v] # "write" /\ wpc[v] \in {"wait", "open"}
        BY <1>0, <2>1, <2>7 DEF WriterOwnsLock, InLock
      <3>2. doing[v] \in Event /\ doing[v] # e
        BY <1>0, <2>2, <2>7, <3>1 DEF OneCallEach
      <3> QED
        BY <2>1, <2>5, <2>7, <3>2
    <2>8. ASSUME NEW i \in DOMAIN Tail(b), Tail(b)[i] = Rest(e) PROVE ~Written(e)'
      <3>1. /\ i + 1 \in 1 .. Len(b) /\ b[i + 1] = Rest(e) /\ i \in Nat /\ i > 0
            /\ DOMAIN b = 1 .. Len(b) /\ Len(b) \in Nat
        BY <2>1, <2>8
      <3>2. i + 1 = Len(b) - 1
        BY <2>2, <2>3, <3>1
      <3>3. b[1] # Rest(e)
        <4>1. 1 # Len(b) - 1
          <5>1. i \in Nat /\ i > 0 /\ i + 1 = Len(b) - 1
            BY <3>1, <3>2
          <5>2. \A k, m \in Nat : k > 0 /\ k + 1 = m - 1 => 1 # m - 1
            OBVIOUS
          <5> HIDE DEF b
          <5> QED
            BY <3>1, <5>1, <5>2
        <4> HIDE DEF b, e
        <4> QED
          BY <2>2, <2>3, <2>4, <4>1
      <3>4. ~Written(e)
        BY <3>1
      <3> QED
        BY <2>1, <2>4, <3>3, <3>4
    <2> QED
      BY <2>1, <2>5, <2>6, <2>7, <2>8
  <1>2. ASSUME NEW w \in Writer, ShortWrite(w) PROVE WrittenOnce'
    <2>1. /\ doing[w] \in Event /\ log \in Seq(Token) /\ buffer[w] \in Seq(Token)
          /\ UNCHANGED <<log, doing, wpc, todo>> /\ wpc[w] = "write" /\ buffer[w] # <<>>
          /\ \/ buffer'[w] = <<>>
             \/ buffer'[w] = LineOf(doing[w]) /\ Len(LineOf(doing[w])) < Len(buffer[w])
          /\ \A v \in Writer \ {w} : buffer'[v] = buffer[v]
      <3>1. PICK left \in {<<>>, LineOf(doing[w])} : /\ Len(left) < Len(buffer[w])
                                                    /\ buffer' = [buffer EXCEPT ![w] = left]
        BY <1>2 DEF ShortWrite
      <3>2. /\ UNCHANGED <<log, doing, wpc, todo>> /\ wpc[w] = "write" /\ buffer[w] # <<>>
            /\ doing[w] \in Event /\ log \in Seq(Token) /\ buffer[w] \in Seq(Token)
        BY <1>0, <1>2 DEF ShortWrite, LogTypeOK
      <3>3. buffer \in [Writer -> Seq(Token)]
        BY DEF LogTypeOK
      <3> HIDE DEF WrittenOnce
      <3> QED
        BY <3>1, <3>2, <3>3
    <2>2. Written(doing[w])' = Written(doing[w])
      BY <2>1 DEF Written
    <2>3. CASE buffer'[w] = <<>>
      BY <2>1, <2>3 DEF Written
    <2>4. CASE Len(LineOf(doing[w])) < Len(buffer[w])
      <3>1. Len(buffer[w]) >= 2 /\ Len(buffer[w]) - 1 \in DOMAIN buffer[w]
        BY <2>1, <2>4 DEF LineOf
      <3>2. buffer[w][Len(buffer[w]) - 1] = Rest(doing[w])
        BY <2>1, <3>1, RestToken DEF BufferEndsLine
      <3>3. ~Written(doing[w])
        BY <3>1, <3>2
      <3> QED
        BY <2>1, <3>3 DEF Written
    <2> QED
      BY <2>1, <2>3, <2>4
  <1>3. ASSUME NEW w \in Writer, NEW e \in Event, BeginAppend(w, e) PROVE WrittenOnce'
    <2>1. /\ e \in todo /\ todo' = todo \ {e} /\ doing'[w] = e
          /\ \A v \in Writer \ {w} : wpc'[v] = wpc[v] /\ doing'[v] = doing[v]
          /\ UNCHANGED <<log, buffer>>
      BY <1>3 DEF BeginAppend, LogTypeOK
    <2> QED
      BY <2>1 DEF Written
  <1>4. ASSUME NEW w \in Writer, Contended(w) \/ OpenFails(w) PROVE WrittenOnce'
    <2>1. /\ wpc[w] \in {"wait", "open"} /\ wpc'[w] = "idle" /\ todo' = todo \cup {doing[w]}
          /\ \A v \in Writer \ {w} : wpc'[v] = wpc[v] /\ doing'[v] = doing[v]
          /\ UNCHANGED <<log, buffer>>
      BY <1>4 DEF Contended, OpenFails, LogTypeOK
    <2>2. DOMAIN buffer[w] = {}
      BY <1>0, <2>1
    <2> QED
      BY <2>1, <2>2 DEF Written
  <1>5. ASSUME NEW w \in Writer, AcquireTag(w) \/ OpenLog(w) PROVE WrittenOnce'
    <2>1. /\ wpc[w] \in {"wait", "open"}
          /\ \A v \in Writer \ {w} : wpc'[v] = wpc[v] /\ buffer'[v] = buffer[v]
          /\ UNCHANGED <<log, todo, doing>>
      BY <1>5 DEF AcquireTag, OpenLog, LogTypeOK
    <2> QED
      BY <2>1 DEF Written
  <1>6. ASSUME NEW w \in Writer, EndAppend(w) \/ Crash(w) PROVE WrittenOnce'
    <2>1. /\ wpc'[w] = "idle" /\ DOMAIN buffer'[w] = {}
          /\ \A v \in Writer \ {w} : /\ wpc'[v] = wpc[v] /\ doing'[v] = doing[v]
                                     /\ buffer'[v] = buffer[v]
          /\ UNCHANGED <<log, todo>>
      BY <1>6 DEF EndAppend, Crash, LogTypeOK
    <2> QED
      BY <2>1 DEF Written
  <1>7. CASE UNCHANGED writerVars
    BY <1>7 DEF writerVars, Written
  <1> QED
    BY <1>1, <1>2, <1>3, <1>4, <1>5, <1>6, <1>7 DEF LogStep, Writing

LEMMA TimesStep ==
  ASSUME TypeOK, TimesPast, [Next]_vars
  PROVE  TimesPast'
  <1> USE DEF TypeOK, LogTypeOK, TimesPast, Time
  <1>0. /\ clock \in Nat /\ None \notin Nat /\ clock <= clock' /\ clock' \in Nat
        /\ mtime' = mtime \/ mtime' = clock
    <2>1. clock' = clock \/ clock' = clock + 1
      BY NextLogStep
    <2>2. clock \in Nat /\ None \notin Nat
      BY LogAssumption
    <2>3. mtime' = mtime \/ mtime' = clock
      BY NextLogStep DEF LogStep, Writing, BeginAppend, Contended, AcquireTag, OpenLog,
         OpenFails, WriteToken, ShortWrite, EndAppend, Crash, writerVars
    <2> QED
      BY <2>1, <2>2, <2>3
  <1>1. /\ mtime # None => mtime \in Nat
        /\ \A r \in Reader : /\ parsing[r] # None => parsing[r] \in Nat
                             /\ cacheTime[r] # None => cacheTime[r] \in Nat
    BY LogAssumption
  <1>2. mtime' # None => mtime' <= clock'
    BY <1>0, <1>1
  <1>3. ASSUME NEW r \in Reader
        PROVE  /\ \/ parsing'[r] \in {parsing[r], None}
                  \/ parsing'[r] = mtime
               /\ cacheTime'[r] \in {cacheTime[r], parsing[r]}
    <2>1. CASE UNCHANGED readerVars
      BY <2>1 DEF readerVars
    <2>2. ASSUME NEW q \in Reader, BeginRead(q) \/ EndRead(q) \/ ReadFails(q)
          PROVE  /\ \/ parsing'[r] \in {parsing[r], None}
                    \/ parsing'[r] = mtime
                 /\ cacheTime'[r] \in {cacheTime[r], parsing[r]}
      BY <2>2 DEF BeginRead, EndRead, ReadFails
    <2> QED
      BY <2>1, <2>2, NextReadStep
  <1>4. ASSUME NEW r \in Reader
        PROVE  /\ parsing'[r] # None => parsing'[r] <= clock'
               /\ cacheTime'[r] # None => cacheTime'[r] <= clock'
    <2>1. /\ parsing[r] # None => parsing[r] <= clock'
          /\ cacheTime[r] # None => cacheTime[r] <= clock'
          /\ mtime # None => mtime <= clock'
      BY <1>0, <1>1
    <2> HIDE DEF TypeOK, LogTypeOK, TimesPast, Time
    <2> QED
      BY <1>3, <2>1
  <1> QED
    BY <1>2, <1>4

(* Counting events. *)
LEMMA CardinalityBounds ==
  ASSUME NEW A, IsFiniteSet(A), NEW B, NEW e
  PROVE  /\ Cardinality(A) \in Nat
         /\ B \subseteq A => Cardinality(B) \in Nat /\ Cardinality(B) <= Cardinality(A)
         /\ B \subseteq A \cup {e} => Cardinality(B) \in Nat /\ Cardinality(B) <= Cardinality(A) + 1
  <1>1. Cardinality(A) \in Nat
    BY FS_CardinalityType
  <1>2. ASSUME NEW C, IsFiniteSet(C), B \subseteq C
        PROVE  Cardinality(B) \in Nat /\ Cardinality(B) <= Cardinality(C)
    BY <1>2, FS_Subset, FS_CardinalityType
  <1>3. IsFiniteSet(A \cup {e}) /\ Cardinality(A \cup {e}) <= Cardinality(A) + 1
    BY <1>1, FS_AddElement
  <1>4. Cardinality(A \cup {e}) \in Nat
    BY <1>3, FS_CardinalityType
  <1> QED
    BY <1>1, <1>2, <1>3, <1>4

LEMMA TornType == \A s : Torn(s) \in {0, 1}
  BY DEF Torn

(* t is what OpenLog puts in the buffer to append e to s. *)
IsLine(s, t, e) ==
  \/ t = LineOf(e)
  \/ s = <<>> /\ t = <<Hash, NL>> \o LineOf(e)

LEMMA LineType ==
  ASSUME NEW s, NEW t, NEW e \in Event, IsLine(s, t, e)
  PROVE  t \in Seq(Token)
  <1>1. <<Hash, NL>> \o LineOf(e) \in Seq(Token)
    BY LineTypes, Tokens
  <1> QED
    BY <1>1, LineTypes DEF IsLine

(* A line that was begun on a complete log adds nothing to the debt; on a  *)
(* torn log it pays with its own event for the torn line.                  *)
LEMMA DebtOfLine ==
  ASSUME NEW s \in Seq(Token), NEW A, IsFiniteSet(A), NEW e \in Event,
         NEW t \in Seq(Token), IsLine(s, t, e)
  PROVE  Debt(s \o t, A \cup {e}) <= Debt(s, A)
  <1>1. Torn(s \o t) = 0
    <2>1. t # <<>> /\ t[Len(t)] = NL
      <3>1. CASE t = LineOf(e)
        BY <3>1 DEF LineOf
      <3>2. CASE t = <<Hash, NL>> \o LineOf(e)
        <4>1. Len(t) = 5 /\ t[5] = NL
          BY <3>2, Tokens DEF LineOf
        <4>2. t[Len(t)] = NL
          BY <4>1
        <4>3. t # <<>>
          BY <4>1, EmptySeq
        <4> QED
          BY <4>2, <4>3
      <3> QED
        BY <3>1, <3>2 DEF IsLine
    <2>2. (s \o t)[Len(s \o t)] = t[Len(t)]
      BY <2>1
    <2> QED
      BY <2>1, <2>2 DEF Torn
  <1>2. Kept(s) \subseteq Kept(s \o t)
    BY KeptGrows
  <1> DEFINE D == A \ Kept(s)
             B == (A \cup {e}) \ Kept(s \o t)
  <1>3. IsFiniteSet(D)
    BY FS_Difference
  <1>4. Cardinality(B) \in Nat /\ Cardinality(B) <= Cardinality(D) + Torn(s)
    <2>1. CASE Torn(s) = 0
      <3>1. e \in Kept(s \o t)
        BY <2>1, LineKept, FirstLineKept DEF IsLine
      <3>2. B \subseteq D
        BY <1>2, <3>1
      <3> HIDE DEF B, D
      <3>3. /\ Cardinality(D) \in Nat
            /\ Cardinality(B) \in Nat /\ Cardinality(B) <= Cardinality(D)
        BY <1>3, <3>2, CardinalityBounds
      <3> QED
        BY <2>1, <3>3
    <2>2. CASE Torn(s) = 1
      <3>1. B \subseteq D \cup {e}
        BY <1>2
      <3> HIDE DEF B, D
      <3> QED
        BY <1>3, <2>2, <3>1, CardinalityBounds
    <2> QED
      BY <2>1, <2>2, TornType
  <1> HIDE DEF B, D
  <1>5. Cardinality(B) + Torn(s \o t) <= Cardinality(D) + Torn(s)
    BY <1>1, <1>4
  <1> QED
    BY <1>5 DEF Debt, B, D

(* A write that is cut short costs two events, a crash one: e was not yet  *)
(* acknowledged.                                                           *)
LEMMA DebtOfFault ==
  ASSUME NEW s \in Seq(Token), NEW t \in Seq(Token), NEW A, IsFiniteSet(A), NEW e \in Event,
         t # <<>> => EndsLineOf(s, t, e), NEW left \in Seq(Token), NEW k \in Nat,
         Debt(s \o t, A \cup {e}) <= k
  PROVE  /\ Debt(s \o left, A \cup {e}) <= k + 2
         /\ e \notin A => Debt(s, A) <= k + 1
  <1>1. Kept(s \o t) \subseteq Kept(s) \cup {e}
    <2>1. CASE t = <<>>
      BY <2>1
    <2>2. CASE t # <<>>
      BY <2>2, KeptOwn
    <2> QED
      BY <2>1, <2>2
  <1>2. Kept(s) \subseteq Kept(s \o left)
    BY KeptGrows
  <1> DEFINE D == (A \cup {e}) \ Kept(s \o t)
  <1>3. IsFiniteSet(D)
    BY FS_AddElement, FS_Difference
  <1>4. Cardinality(D) \in Nat /\ Cardinality(D) <= k
    BY <1>3, CardinalityBounds, TornType DEF Debt
  <1>5. Debt(s \o left, A \cup {e}) <= k + 2
    <2> DEFINE B == (A \cup {e}) \ Kept(s \o left)
    <2>1. B \subseteq D \cup {e}
      BY <1>1, <1>2
    <2>2. Cardinality(B) \in Nat /\ Cardinality(B) <= Cardinality(D) + 1
      BY <1>3, <2>1, CardinalityBounds
    <2>3. Torn(s \o left) \in {0, 1}
      BY TornType
    <2> HIDE DEF D, B
    <2>4. Cardinality(B) + Torn(s \o left) <= k + 2
      BY <1>4, <2>2, <2>3
    <2> QED
      BY <2>4 DEF Debt, B
  <1>6. ASSUME e \notin A PROVE Debt(s, A) <= k + 1
    <2> DEFINE B == A \ Kept(s)
    <2>1. B \subseteq D
      BY <1>1, <1>6
    <2>2. Cardinality(B) \in Nat /\ Cardinality(B) <= Cardinality(D)
      BY <1>3, <2>1, CardinalityBounds
    <2>3. Torn(s) \in {0, 1}
      BY TornType
    <2> HIDE DEF D, B
    <2>4. Cardinality(B) + Torn(s) <= k + 1
      BY <1>4, <2>2, <2>3
    <2> QED
      BY <2>4 DEF Debt, B
  <1> QED
    BY <1>5, <1>6

LEMMA DebtStep ==
  ASSUME LogTypeOK, WriterOwnsLock, BufferInWrite, OneCallEach, BufferEndsLine, NoFileIsEmpty,
         IsFiniteSet(Acked), DebtBounded, LogStep
  PROVE  DebtBounded'
  <1> DEFINE k == crashes + 2 * shorts
  <1>0. /\ \A w \in Writer : /\ wpc[w] # "idle" => doing[w] \in Event
                             /\ buffer[w] \in Seq(Token)
                             /\ wpc[w] # "write" => buffer[w] = <<>>
                             /\ wpc[w] = "write" => \A v \in Writer : v # w => wpc[v] # "write"
        /\ log \in Seq(Token) /\ k \in Nat /\ crashes \in Nat /\ shorts \in Nat
    <2>1. log \in Seq(Token) /\ k \in Nat /\ crashes \in Nat /\ shorts \in Nat
      BY DEF LogTypeOK
    <2> SUFFICES ASSUME NEW w \in Writer
                 PROVE  /\ wpc[w] # "idle" => doing[w] \in Event
                        /\ buffer[w] \in Seq(Token)
                        /\ wpc[w] # "write" => buffer[w] = <<>>
                        /\ wpc[w] = "write" => \A v \in Writer : v # w => wpc[v] # "write"
      BY <2>1
    <2>2. wpc[w] # "idle" => doing[w] \in Event
      BY DEF LogTypeOK
    <2>3. wpc[w] = "write" => \A v \in Writer : v # w => wpc[v] # "write"
      BY DEF WriterOwnsLock, InLock
    <2> QED
      BY <2>2, <2>3 DEF LogTypeOK, BufferInWrite
  <1>1. ASSUME NEW w \in Writer, OpenLog(w) PROVE DebtBounded'
    <2>1. /\ log' = log /\ doing' = doing /\ k' = k /\ ackTime' = ackTime /\ doing[w] \in Event
          /\ wpc'[w] = "write" /\ \A v \in Writer : v # w => wpc'[v] # "write"
          /\ \A v \in Writer : wpc[v] # "write"
      BY <1>0, <1>1 DEF OpenLog, LogTypeOK, WriterOwnsLock, InLock
    <2>2. buffer'[w] = (IF NeedHeader THEN <<Hash, NL>> ELSE <<>>) \o LineOf(doing[w])
      BY <1>1 DEF OpenLog, LogTypeOK
    <2>3. IsLine(log, buffer'[w], doing[w])
      BY <2>1, <2>2, LineTypes DEF NeedHeader, NoFileIsEmpty, IsLine
    <2>4. buffer'[w] \in Seq(Token)
      BY <2>1, <2>3, LineType
    <2>5. Debt(log \o buffer'[w], Acked \cup {doing[w]}) <= Debt(log, Acked)
      BY <1>0, <2>1, <2>3, <2>4, DebtOfLine
    <2>6. Debt(log, Acked) <= k
      BY <2>1 DEF DebtBounded
    <2>7. /\ Debt(log, Acked) \in Nat
          /\ Debt(log \o buffer'[w], Acked \cup {doing[w]}) \in Nat
      <3>1. /\ Cardinality(Acked \ Kept(log)) \in Nat
            /\ Cardinality((Acked \cup {doing[w]}) \ Kept(log \o buffer'[w])) \in Nat
        BY FS_AddElement, FS_Difference, FS_CardinalityType
      <3> QED
        BY <3>1, TornType DEF Debt
    <2>8. Debt(log \o buffer'[w], Acked \cup {doing[w]}) <= k
      <3> HIDE DEF k
      <3> QED
        BY <1>0, <2>5, <2>6, <2>7
    <2>9. Acked' = Acked
      BY <2>1 DEF Acked
    <2> QED
      BY <2>1, <2>8, <2>9 DEF DebtBounded
  <1>2. ASSUME NEW w \in Writer, WriteToken(w) PROVE DebtBounded'
    <2>1. /\ log' = log \o <<Head(buffer[w])>> /\ buffer'[w] = Tail(buffer[w]) /\ buffer[w] # <<>>
          /\ wpc[w] = "write" /\ UNCHANGED <<wpc, doing, ackTime, crashes, shorts>>
      BY <1>2 DEF WriteToken, LogTypeOK
    <2>2. log' \o buffer'[w] = log \o buffer[w]
      BY <1>0, <2>1, NextToken
    <2>3. Acked' = Acked
      BY <2>1 DEF Acked
    <2> QED
      BY <1>0, <2>1, <2>2, <2>3 DEF DebtBounded
  <1>3. ASSUME NEW w \in Writer, ShortWrite(w) PROVE DebtBounded'
    <2>1. /\ wpc[w] = "write" /\ UNCHANGED <<log, wpc, doing, ackTime, crashes>>
          /\ shorts' = shorts + 1 /\ buffer'[w] \in {<<>>, LineOf(doing[w])}
      BY <1>3 DEF ShortWrite, LogTypeOK
    <2>2. doing[w] \in Event /\ buffer'[w] \in Seq(Token)
      <3>1. doing[w] \in Event
        BY <1>0, <2>1
      <3>2. LineOf(doing[w]) \in Seq(Token) /\ <<>> \in Seq(Token)
        BY <3>1, LineTypes
      <3> QED
        BY <2>1, <3>1, <3>2
    <2>3. Debt(log \o buffer'[w], Acked \cup {doing[w]}) <= k + 2
      <3>1. Debt(log \o buffer[w], Acked \cup {doing[w]}) <= k
        BY <2>1 DEF DebtBounded
      <3>2. buffer[w] # <<>> => EndsLineOf(log, buffer[w], doing[w])
        BY <2>1 DEF BufferEndsLine
      <3> HIDE DEF k
      <3> QED
        BY <1>0, <2>2, <3>1, <3>2, DebtOfFault
    <2>4. Acked' = Acked /\ k' = k + 2
      BY <1>0, <2>1 DEF Acked
    <2> QED
      BY <1>0, <2>1, <2>3, <2>4 DEF DebtBounded
  <1>4. ASSUME NEW w \in Writer, EndAppend(w) PROVE DebtBounded'
    <2>1. /\ wpc[w] = "write" /\ wpc'[w] = "idle" /\ \A v \in Writer : v # w => wpc'[v] = wpc[v]
          /\ UNCHANGED <<log, crashes, shorts>> /\ buffer[w] = <<>>
      BY <1>4 DEF EndAppend, LogTypeOK
    <2>2. Acked' = Acked \cup {doing[w]}
      <3>1. clock # None /\ doing[w] \in Event
        BY <1>0, <2>1, LogAssumption DEF Time, LogTypeOK
      <3> QED
        BY <1>4, <3>1 DEF EndAppend, Acked, LogTypeOK
    <2>3. log \o buffer[w] = log
      BY <1>0, <2>1
    <2>4. Debt(log, Acked \cup {doing[w]}) <= k
      BY <2>1, <2>3 DEF DebtBounded
    <2> QED
      BY <1>0, <2>1, <2>2, <2>4 DEF DebtBounded
  <1>5. ASSUME NEW w \in Writer, Crash(w) PROVE DebtBounded'
    <2>1. /\ wpc[w] # "idle" /\ wpc'[w] = "idle" /\ UNCHANGED <<log, ackTime, shorts>>
          /\ \A v \in Writer : v # w => /\ wpc'[v] = wpc[v] /\ buffer'[v] = buffer[v]
                                        /\ doing'[v] = doing[v]
          /\ crashes' = crashes + 1
      BY <1>5 DEF Crash, LogTypeOK
    <2>2. Acked' = Acked /\ k' = k + 1
      BY <1>0, <2>1 DEF Acked
    <2>3. CASE wpc[w] = "write"
      <3>1. Debt(log \o buffer[w], Acked \cup {doing[w]}) <= k
        BY <2>3 DEF DebtBounded
      <3>2. buffer[w] # <<>> => EndsLineOf(log, buffer[w], doing[w])
        BY <2>3 DEF BufferEndsLine
      <3>3. doing[w] \notin Acked /\ doing[w] \in Event
        BY <1>0, <2>1 DEF OneCallEach
      <3>4. Debt(log, Acked) <= k + 1
        <4> HIDE DEF k
        <4> QED
          BY <1>0, <3>1, <3>2, <3>3, DebtOfFault
      <3> QED
        BY <1>0, <2>1, <2>2, <2>3, <3>4 DEF DebtBounded
    <2>4. CASE wpc[w] # "write"
      <3>1. ASSUME NEW d, d <= k, d \in Nat PROVE d <= k + 1
        BY <1>0, <3>1
      <3>2. \A v \in Writer : Debt(log \o buffer[v], Acked \cup {doing[v]}) \in Nat
        <4>1. \A v \in Writer : Cardinality((Acked \cup {doing[v]}) \ Kept(log \o buffer[v])) \in Nat
          BY FS_AddElement, FS_Difference, FS_CardinalityType
        <4> QED
          BY <4>1, TornType DEF Debt
      <3>3. Debt(log, Acked) \in Nat
        <4>1. Cardinality(Acked \ Kept(log)) \in Nat
          BY FS_Difference, FS_CardinalityType
        <4> QED
          BY <4>1, TornType DEF Debt
      <3>4. ASSUME NEW v \in Writer, wpc'[v] = "write"
            PROVE  Debt(log \o buffer[v], Acked \cup {doing[v]}) <= k + 1
        <4>1. v # w /\ wpc[v] = "write"
          BY <2>1, <3>4
        <4> QED
          BY <3>1, <3>2, <4>1 DEF DebtBounded
      <3>5. (\A v \in Writer : wpc'[v] # "write") => Debt(log, Acked) <= k + 1
        <4>1. (\A v \in Writer : wpc'[v] # "write") => \A v \in Writer : wpc[v] # "write"
          BY <2>1, <2>4
        <4> QED
          BY <3>1, <3>3, <4>1 DEF DebtBounded
      <3>6. \A v \in Writer : wpc'[v] = "write" => v # w
        BY <2>1
      <3> HIDE DEF k
      <3> QED
        BY <2>1, <2>2, <3>4, <3>5, <3>6 DEF DebtBounded, k
    <2> QED
      BY <2>3, <2>4
  <1>6. ASSUME NEW w \in Writer, \/ Contended(w) \/ AcquireTag(w) \/ OpenFails(w)
                                 \/ \E e \in Event : BeginAppend(w, e)
        PROVE  DebtBounded'
    <2>1. /\ wpc[w] # "write" /\ wpc'[w] # "write" /\ UNCHANGED <<log, ackTime, crashes, shorts>>
          /\ \A v \in Writer : v # w => /\ wpc'[v] = wpc[v] /\ buffer'[v] = buffer[v]
                                        /\ doing'[v] = doing[v]
      BY <1>6 DEF Contended, AcquireTag, OpenFails, BeginAppend, LogTypeOK
    <2>2. Acked' = Acked
      BY <2>1 DEF Acked
    <2> QED
      BY <2>1, <2>2 DEF DebtBounded
  <1>7. CASE UNCHANGED writerVars
    BY <1>7 DEF writerVars, DebtBounded, Acked
  <1> QED
    BY <1>1, <1>2, <1>3, <1>4, <1>5, <1>6, <1>7 DEF LogStep, Writing

(* What is readable grows by the event that is being written alone. *)
LEMMA ReadableStep ==
  ASSUME LogTypeOK, BufferEndsLine, LogStep
  PROVE  \/ log' = log
         \/ \E w \in Writer : /\ WriteToken(w) /\ doing[w] \in Event
                              /\ Readable' \subseteq Readable \cup {doing[w]}
  <1>1. ASSUME NEW w \in Writer, WriteToken(w)
        PROVE  doing[w] \in Event /\ Readable' \subseteq Readable \cup {doing[w]}
    <2>1. /\ log \in Seq(Token) /\ buffer[w] \in Seq(Token) /\ buffer[w] # <<>>
          /\ wpc[w] = "write" /\ doing[w] \in Event /\ log' = log \o <<Head(buffer[w])>>
      BY <1>1 DEF WriteToken, LogTypeOK
    <2>2. Head(buffer[w]) = buffer[w][1] /\ 1 \in 1 .. Len(buffer[w]) /\ Head(buffer[w]) \in Token
      BY <2>1
    <2>3. EndsLineOf(log, buffer[w], doing[w])
      BY <2>1 DEF BufferEndsLine
    <2>4. \A d \in Event : Head(buffer[w]) = Rest(d) => d = doing[w]
      <3>1. \A i \in 1 .. Len(buffer[w]) : \A d \in Event :
              buffer[w][i] = Rest(d) => d = doing[w]
        BY <2>1, <2>3, RestToken
      <3> QED
        BY <2>2, <3>1
    <2> QED
      BY <2>1, <2>2, <2>4, ReadableOwn DEF Readable
  <1> QED
    BY <1>1 DEF LogStep, Writing, BeginAppend, Contended, AcquireTag, OpenLog, OpenFails,
       ShortWrite, EndAppend, Crash, writerVars

LEMMA CacheStep ==
  ASSUME TypeOK, BufferEndsLine, OneCallEach, TimesPast, CacheComplete, [Next]_vars
  PROVE  CacheComplete'
  <1> SUFFICES ASSUME NEW r \in Reader, NEW e \in Acked' \cap Readable',
                      cacheTime'[r] # None, ackTime'[e] < cacheTime'[r]
               PROVE  e \in ToSet(cache'[r])
    BY DEF CacheComplete
  <1>1. CASE UNCHANGED readerVars
    <2>1. cacheTime' = cacheTime /\ cache' = cache
      BY <1>1 DEF readerVars
    <2>2. LogTypeOK /\ LogStep /\ clock \in Nat /\ cacheTime[r] \in Nat
      BY <2>1, NextLogStep DEF TypeOK, LogTypeOK, Time
    <2>3. cacheTime[r] <= clock
      BY <2>1 DEF TimesPast
    <2>4. ASSUME NEW w \in Writer, EndAppend(w), e = doing[w] PROVE FALSE
      <3>1. doing[w] \in Event /\ ackTime'[e] = clock
        BY <2>2, <2>4 DEF EndAppend, LogTypeOK
      <3> QED
        BY <2>1, <2>2, <2>3, <3>1
    <2>5. e \in Acked /\ ackTime'[e] = ackTime[e]
      <3>1. CASE ackTime' = ackTime
        BY <3>1 DEF Acked
      <3>2. ASSUME NEW w \in Writer, EndAppend(w), Acked' = Acked \cup {doing[w]}
            PROVE  e \in Acked /\ ackTime'[e] = ackTime[e]
        <4>1. e \in Acked /\ e # doing[w]
          BY <2>4, <3>2
        <4> QED
          BY <2>2, <3>2, <4>1 DEF EndAppend, LogTypeOK, Acked
      <3> QED
        BY <2>2, <3>1, <3>2, AckStep
    <2>6. e \in Readable
      <3>1. \A w \in Writer : e # doing[w]
        BY <2>5 DEF OneCallEach
      <3> QED
        BY <2>2, <3>1, ReadableStep DEF Readable
    <2> QED
      BY <2>1, <2>5, <2>6 DEF CacheComplete
  <1>2. ASSUME UNCHANGED <<writerVars, clock>>, NEW q \in Reader,
               BeginRead(q) \/ EndRead(q) \/ ReadFails(q)
        PROVE  e \in ToSet(cache'[r])
    <2>1. log' = log /\ ackTime' = ackTime
      BY <1>2 DEF writerVars
    <2>2. e \in Acked /\ e \in Readable
      BY <2>1 DEF Acked, Readable
    <2>3. CASE EndRead(q) /\ q = r
      <3>1. cache'[r] = Decode(log)
        BY <2>3 DEF EndRead, TypeOK
      <3> QED
        BY <2>2, <3>1 DEF Readable
    <2>4. CASE ~(EndRead(q) /\ q = r)
      <3>1. cache'[r] = cache[r] /\ cacheTime'[r] = cacheTime[r]
        BY <1>2, <2>4 DEF BeginRead, EndRead, ReadFails, TypeOK
      <3> QED
        BY <2>1, <2>2, <3>1 DEF CacheComplete
    <2> QED
      BY <2>3, <2>4
  <1> QED
    BY <1>1, <1>2, NextReadStep

LEMMA InitLogInv == Init => LogInv
  <1> SUFFICES ASSUME Init PROVE LogInv
    OBVIOUS
  <1> USE DEF Init
  <1>1. TypeOK
    BY InitIInv DEF TypeOK, IInv
  <1>2. Acked = {} /\ IsFiniteSet({}) /\ Cardinality({}) = 0
    BY FS_EmptySet DEF Acked
  <1>3. OneCallEach
    BY <1>2, LogAssumption DEF OneCallEach
  <1>4. WrittenOnce /\ BufferEndsLine /\ NoFileIsEmpty
    BY DEF WrittenOnce, BufferEndsLine, NoFileIsEmpty, Written
  <1>5. DebtBounded
    <2>1. Acked \ Kept(log) = {} /\ Torn(log) = 0
      BY <1>2 DEF Torn
    <2>2. Debt(log, Acked) = 0
      BY <1>2, <2>1 DEF Debt
    <2>3. crashes + 2 * shorts = 0
      OBVIOUS
    <2> QED
      BY <2>2, <2>3 DEF DebtBounded
  <1>6. TimesPast
    BY DEF TimesPast
  <1>7. CacheComplete
    BY <1>2 DEF CacheComplete
  <1> QED
    BY <1>1, <1>2, <1>3, <1>4, <1>5, <1>6, <1>7 DEF LogInv

(* No step of a writer, a reader or the clock leads out of the invariant   *)
(* that bounds what is lost and what a cache may lack.                     *)
THEOREM EventLogPromises == Spec => []LogInv
  <1>1. IInv /\ IInv' /\ LogInv /\ [Next]_vars => LogInv'
    <2> SUFFICES ASSUME IInv, IInv', LogInv, [Next]_vars PROVE LogInv'
      OBVIOUS
    <2> USE DEF IInv, LogInv
    <2>1. LogStep
      BY NextLogStep
    <2>2. TypeOK' /\ OneCallEach' /\ TimesPast' /\ CacheComplete'
      BY <2>1, ReaderTypeStep, OneCallStep, TimesStep, CacheStep
    <2>3. WrittenOnce' /\ BufferEndsLine' /\ NoFileIsEmpty' /\ DebtBounded'
      BY <2>1, WrittenStep, BufferStep, DebtStep
    <2>4. IsFiniteSet(Acked')
      <3>1. ackTime' = ackTime => Acked' = Acked
        BY DEF Acked
      <3> QED
        BY <2>1, <3>1, AckStep, FS_AddElement
    <2> QED
      BY <2>2, <2>3, <2>4
  <1> QED
    BY <1>1, InitLogInv, EventLogInvariant, PTL DEF Spec

-----------------------------------------------------------------------------
(* Type correctness: what a reader parses and caches is always a sequence  *)
(* of events.                                                              *)
THEOREM EventLogReaderTypes == Spec => []TypeOK
  <1>1. LogInv => TypeOK
    BY DEF LogInv
  <1> QED
    BY <1>1, EventLogPromises, PTL

(* Every event for which append has returned true can be read, except one  *)
(* for each crash and two for each write that was cut short.               *)
THEOREM EventLogKeepsPromises == Spec => []AckedReadable
  <1>1. LogInv /\ IInv => AckedReadable
    <2> SUFFICES ASSUME LogInv, IInv PROVE AckedReadable
      OBVIOUS
    <2> USE DEF LogInv, IInv
    <2> DEFINE k == crashes + 2 * shorts
    <2>1. log \in Seq(Token) /\ k \in Nat
      BY DEF LogTypeOK
    <2>2. PICK s, A : /\ IsFiniteSet(A) /\ Acked \subseteq A /\ Debt(s, A) <= k
                      /\ Acked \ Readable \subseteq A \ Kept(s)
      <3>1. CASE \A w \in Writer : wpc[w] # "write"
        <4>1. Kept(log) \subseteq Readable
          BY <2>1, KeptReadable DEF Readable
        <4> QED
          BY <2>1, <3>1, <4>1 DEF DebtBounded
      <3>2. ASSUME NEW w \in Writer, wpc[w] = "write"
            PROVE  \E s, A : /\ IsFiniteSet(A) /\ Acked \subseteq A /\ Debt(s, A) <= k
                             /\ Acked \ Readable \subseteq A \ Kept(s)
        <4>1. /\ buffer[w] \in Seq(Token) /\ doing[w] \in Event /\ doing[w] \notin Acked
              /\ log \o buffer[w] \in Seq(Token)
          BY <2>1, <3>2 DEF LogTypeOK, OneCallEach
        <4>2. Kept(log \o buffer[w]) \subseteq Kept(log) \cup {doing[w]}
          <5>1. buffer[w] # <<>> => EndsLineOf(log, buffer[w], doing[w])
            BY <3>2 DEF BufferEndsLine
          <5>2. buffer[w] = <<>> => log \o buffer[w] = log
            BY <2>1
          <5> QED
            BY <2>1, <4>1, <5>1, <5>2, KeptOwn
        <4>3. Kept(log) \subseteq Readable
          BY <2>1, KeptReadable DEF Readable
        <4>4. IsFiniteSet(Acked \cup {doing[w]})
          BY FS_AddElement
        <4>5. Debt(log \o buffer[w], Acked \cup {doing[w]}) <= k
          BY <3>2 DEF DebtBounded
        <4>6. Acked \ Readable \subseteq (Acked \cup {doing[w]}) \ Kept(log \o buffer[w])
          BY <4>1, <4>2, <4>3
        <4> HIDE DEF k
        <4> QED
          BY <4>1, <4>4, <4>5, <4>6
      <3> QED
        BY <3>1, <3>2
    <2> DEFINE D == A \ Kept(s)
               B == Acked \ Readable
    <2>3. IsFiniteSet(D) /\ B \subseteq D
      BY <2>2, FS_Difference
    <2>4. Cardinality(D) \in Nat /\ Cardinality(B) \in Nat /\ Cardinality(B) <= Cardinality(D)
      <3> HIDE DEF B, D
      <3> QED
        BY <2>3, CardinalityBounds
    <2>5. Cardinality(D) + Torn(s) <= k
      BY <2>2 DEF Debt
    <2>6. Torn(s) \in {0, 1}
      BY TornType
    <2>7. Cardinality(B) <= k
      <3> HIDE DEF B, D, k
      <3> QED
        BY <2>1, <2>4, <2>5, <2>6
    <2> QED
      BY <2>7 DEF AckedReadable
  <1> QED
    BY <1>1, EventLogPromises, EventLogInvariant, PTL

(* A reader that has statted the file has cached every event that was      *)
(* acknowledged in an earlier granule and can still be read.               *)
THEOREM EventLogCachesAll == Spec => []CacheComplete
  <1>1. LogInv => CacheComplete
    BY DEF LogInv
  <1> QED
    BY <1>1, EventLogPromises, PTL

-----------------------------------------------------------------------------
(* dedupById_ keeps one event of every key, the first. *)
Distinct(s) == \A i, j \in DOMAIN s : Key[s[i]] = Key[s[j]] => i = j

FirstOfKey(s) == {i \in DOMAIN s : \A j \in 1 .. i - 1 : Key[s[j]] # Key[s[i]]}

LEMMA FirstOfKeyExists ==
  ASSUME NEW s \in Seq(Event), NEW i \in DOMAIN s
  PROVE  \E j \in FirstOfKey(s) : Key[s[j]] = Key[s[i]]
  <1> DEFINE U == {n \in 0 .. Len(s) :
                     \A k \in 1 .. n : \E j \in FirstOfKey(s) : Key[s[j]] = Key[s[k]]}
  <1>1. Len(s) \in Nat /\ 0 \in U
    OBVIOUS
  <1>2. ASSUME NEW n \in 1 .. Len(s), n - 1 \in U PROVE n \in U
    <2>1. \A k \in 1 .. n - 1 : \E j \in FirstOfKey(s) : Key[s[j]] = Key[s[k]]
      BY <1>2
    <2>2. \E j \in FirstOfKey(s) : Key[s[j]] = Key[s[n]]
      <3>1. CASE n \in FirstOfKey(s)
        BY <3>1
      <3>2. CASE n \notin FirstOfKey(s)
        <4>1. PICK k \in 1 .. n - 1 : Key[s[k]] = Key[s[n]]
          BY <3>2 DEF FirstOfKey
        <4> QED
          BY <2>1, <4>1
      <3> QED
        BY <3>1, <3>2
    <2>3. \A k \in 1 .. n : k \in 1 .. n - 1 \/ k = n
      OBVIOUS
    <2> QED
      BY <2>1, <2>2, <2>3
  <1>3. 0 .. Len(s) \subseteq U
    <2> HIDE DEF U
    <2> QED
      BY <1>1, <1>2, UpToInduction
  <1> QED
    BY <1>1, <1>3

LEMMA DedupKeeps ==
  ASSUME NEW s \in Seq(Event)
  PROVE  /\ DedupById(s) \in Seq(Event)
         /\ Distinct(DedupById(s))
         /\ ToSet(DedupById(s)) \subseteq ToSet(s)
         /\ Keys(DedupById(s)) = Keys(s)
  <1> DEFINE d == DedupById(s)
             first == FirstOfKey(s)
  <1>1. d = Masked(s, first) /\ first \in SUBSET (1 .. Len(s))
    BY DEF DedupById, FirstOfKey
  <1>2. d \in Seq(Event)
    BY <1>1, MaskedSelects
  <1>3. PICK pos : /\ Lists(pos, Len(d), first)
                   /\ \A k \in 1 .. Len(d) : d[k] = s[pos[k]]
    BY <1>1, MaskedSelects
  <1> HIDE DEF d
  <1>4. Len(d) \in Nat /\ DOMAIN d = 1 .. Len(d) /\ DOMAIN s = 1 .. Len(s)
    BY <1>2
  <1>5. \A k \in 1 .. Len(d) : pos[k] \in first /\ pos[k] \in 1 .. Len(s)
    BY <1>1, <1>3 DEF Lists
  <1>6. Distinct(d)
    <2>1. ASSUME NEW j \in 1 .. Len(d), NEW k \in 1 .. Len(d), j < k
          PROVE  Key[d[j]] # Key[d[k]]
      <3>1. pos[j] < pos[k] /\ pos[j] \in 1 .. Len(s) /\ pos[k] \in 1 .. Len(s)
        BY <1>3, <1>5, <2>1 DEF Lists
      <3>2. pos[j] \in 1 .. pos[k] - 1
        BY <3>1
      <3>3. Key[s[pos[j]]] # Key[s[pos[k]]]
        BY <1>5, <3>2 DEF FirstOfKey
      <3> QED
        BY <1>3, <3>3
    <2> QED
      BY <1>4, <2>1 DEF Distinct
  <1>7. ToSet(d) \subseteq ToSet(s)
    BY <1>3, <1>4, <1>5 DEF ToSet
  <1>8. Keys(s) \subseteq Keys(d)
    <2> SUFFICES ASSUME NEW i \in DOMAIN s PROVE \E k \in DOMAIN d : Key[d[k]] = Key[s[i]]
      BY DEF Keys, ToSet
    <2>1. PICK j \in first : Key[s[j]] = Key[s[i]]
      BY FirstOfKeyExists
    <2>2. PICK k \in 1 .. Len(d) : pos[k] = j
      BY <1>3, <2>1 DEF Lists
    <2> QED
      BY <1>3, <1>4, <2>1, <2>2
  <1> QED
    BY <1>2, <1>6, <1>7, <1>8 DEF d, Keys

(* Behind a snapshot without repetitions it drops nothing of the snapshot. *)
LEMMA DedupExtends ==
  ASSUME NEW s \in Seq(Event), NEW t \in Seq(Event), Distinct(s)
  PROVE  IsPrefix(s, DedupById(s \o t))
  <1> DEFINE u == s \o t
             d == DedupById(u)
             n == Len(s)
  <1>1. /\ u \in Seq(Event) /\ n \in 0 .. Len(u) /\ n \in Nat
        /\ DOMAIN s = 1 .. n /\ DOMAIN u = 1 .. Len(u)
        /\ \A i \in 1 .. n : u[i] = s[i]
    OBVIOUS
  <1> HIDE DEF u, n
  <1>2. 1 .. n \subseteq FirstOfKey(u)
    <2> SUFFICES ASSUME NEW i \in 1 .. n, NEW j \in 1 .. i - 1, Key[u[j]] = Key[u[i]]
                 PROVE  FALSE
      BY <1>1 DEF FirstOfKey
    <2>1. j \in 1 .. n /\ j # i
      BY <1>1
    <2> QED
      BY <1>1, <2>1 DEF Distinct
  <1>3. d = Masked(u, FirstOfKey(u)) /\ FirstOfKey(u) \in SUBSET (1 .. Len(u))
    BY <1>1 DEF DedupById, FirstOfKey
  <1>4. n <= Len(d) /\ \A k \in 1 .. n : d[k] = u[k]
    BY <1>1, <1>2, <1>3, MaskedKeeps
  <1>5. d \in Seq(Event)
    BY <1>1, DedupKeeps
  <1> HIDE DEF d
  <1>6. IsPrefix(s, d)
    BY <1>1, <1>4, <1>5 DEF n, IsPrefix
  <1> QED
    BY <1>6 DEF d, u

-----------------------------------------------------------------------------
(* Consolidation leaves the logs alone, so what holds of them holds beside *)
(* it.                                                                     *)
THEOREM ConsolidatorKeepsLogs == PassSpec => Spec
  <1>1. PassInit => Init
    BY DEF PassInit
  <1>2. [PassNext]_allVars => [Next]_vars
    BY DEF PassNext, Consolidate, allVars
  <1> QED
    BY <1>1, <1>2, PTL DEF PassSpec, Spec

-----------------------------------------------------------------------------
(* An event whose line is in the log, whole or torn, can be read only if   *)
(* it could be read before.                                                *)
LEMMA ReadableWritten ==
  ASSUME log \in Seq(Token)
  PROVE  Readable \subseteq Event /\ \A e \in Readable : Written(e)
  <1> SUFFICES ASSUME NEW e \in Readable PROVE e \in Event /\ Written(e)
    OBVIOUS
  <1>1. e \in Event
    BY DecodeReads DEF Readable
  <1>2. PICK i \in DOMAIN log : LineAt(log, i, e)
    BY DecodeReads DEF Readable
  <1>3. i + 1 \in DOMAIN log /\ log[i + 1] = Rest(e)
    BY <1>2 DEF LineAt
  <1> QED
    BY <1>1, <1>3 DEF Written

LEMMA WrittenStays ==
  ASSUME LogTypeOK, LogStep, NEW e, Written(e)
  PROVE  Written(e)'
  <1>1. ASSUME NEW w \in Writer, WriteToken(w) PROVE Written(e)'
    <2>1. log \in Seq(Token) /\ log' = log \o <<Head(buffer[w])>>
      BY <1>1 DEF WriteToken, LogTypeOK
    <2>2. PICK i \in DOMAIN log : log[i] = Rest(e)
      BY DEF Written
    <2>3. i \in DOMAIN log' /\ log'[i] = log[i]
      BY <2>1
    <2> QED
      BY <2>2, <2>3 DEF Written
  <1>2. CASE log' = log
    BY <1>2 DEF Written
  <1> QED
    BY <1>1, <1>2 DEF LogStep, Writing, BeginAppend, Contended, AcquireTag, OpenLog, OpenFails,
       ShortWrite, EndAppend, Crash, writerVars

LEMMA NotReadableAnew ==
  ASSUME LogTypeOK, LogTypeOK', BufferEndsLine, WrittenOnce, LogStep, NEW e, Written(e),
         e \in Readable'
  PROVE  e \in Readable
  <1>1. ASSUME NEW w \in Writer, WriteToken(w) PROVE e \in Readable
    <2> DEFINE b == buffer[w]
               x == b[1]
    <2>1. /\ log \in Seq(Token) /\ log' \in Seq(Token) /\ b \in Seq(Token) /\ b # <<>>
          /\ doing[w] \in Event /\ log' = log \o <<x>> /\ EndsLineOf(log, b, doing[w])
      BY <1>1 DEF WriteToken, LogTypeOK, BufferEndsLine
    <2>2. 1 \in 1 .. Len(b) /\ DOMAIN b = 1 .. Len(b) /\ x \in Token
      BY <2>1
    <2>3. \A i \in 1 .. Len(b) : \A d \in Event : b[i] = Rest(d) => d = doing[w]
      <3> HIDE DEF b
      <3> QED
        BY <2>1, RestToken
    <2> HIDE DEF x
    <2>4. CASE x = Rest(doing[w])
      <3>1. ~Written(doing[w])
        BY <2>2, <2>4 DEF x, WrittenOnce
      <3>2. \A d \in Event : x = Rest(d) => d = doing[w]
        BY <2>2, <2>3 DEF x
      <3>3. Readable' \subseteq Readable \cup {doing[w]}
        <4> HIDE DEF b
        <4> QED
          BY <2>1, <2>2, <3>2, ReadableOwn DEF Readable
      <3> QED
        BY <3>1, <3>3
    <2>5. CASE x # Rest(doing[w])
      <3>1. \A d \in Event : x = Rest(d) => d = None
        BY <2>2, <2>3, <2>5 DEF x
      <3>2. Readable' \subseteq Readable \cup {None}
        <4> HIDE DEF b
        <4> QED
          BY <2>1, <2>2, <3>1, ReadableOwn DEF Readable
      <3>3. Readable' \subseteq Event
        BY <2>1, DecodeReads DEF Readable
      <3> QED
        BY <3>2, <3>3, LogAssumption
    <2> QED
      BY <2>4, <2>5
  <1>2. CASE log' = log
    BY <1>2 DEF Readable
  <1> QED
    BY <1>1, <1>2 DEF LogStep, Writing, BeginAppend, Contended, AcquireTag, OpenLog, OpenFails,
       ShortWrite, EndAppend, Crash, writerVars

-----------------------------------------------------------------------------
(* The inductive invariant.  Who is in a pass is the only one, so the      *)
(* snapshot it has loaded is still the snapshot when it writes.            *)
InPass == {"logs", "prior", "write", "leave"}

LeaderAlone == \A c \in Consolidator : cpc[c] \in InPass => leader = {c}

(* Outside the pass nothing is gathered.                                   *)
GatheredInPass ==
  \A c \in Consolidator : cpc[c] \in {"idle", "logs", "erase", "destroy"} => gathered[c] = <<>>

(* What is about to be written repeats no key ...                          *)
GatheredDistinct == \A c \in Consolidator : cpc[c] = "write" => Distinct(gathered[c])

(* ... and begins with the snapshot, unless that could not be loaded.      *)
GatheredExtends ==
  misreads = 0 => \A c \in Consolidator : cpc[c] = "write" => IsPrefix(snapshot, gathered[c])

(* Events in the snapshot or on their way into it have been in the log.    *)
SeenWritten ==
  /\ \A e \in ToSet(snapshot) : Written(e)
  /\ \A c \in Consolidator : \A e \in ToSet(gathered[c]) : Written(e)

(* Whatever can be read of the snapshot's events was read from the logs    *)
(* too, so the snapshot could be lost now ...                              *)
PriorCovered ==
  misreads = 0 => \A c \in Consolidator : cpc[c] = "prior" =>
    ToSet(snapshot) \cap Readable \subseteq ToSet(gathered[c])

(* ... and what is about to be written has them after at most one mishap.  *)
WriteCovered ==
  misreads + failures < 2 => \A c \in Consolidator : cpc[c] = "write" =>
    \A e \in ToSet(snapshot) \cap Readable : Key[e] \in Keys(gathered[c])

PassInv == /\ PassTypeOK /\ LeaderAlone /\ SnapshotDistinct
           /\ GatheredInPass /\ GatheredDistinct /\ GatheredExtends
           /\ SeenWritten /\ PriorCovered /\ WriteCovered

LEMMA InitPassInv == PassInit => PassInv
  <1> SUFFICES ASSUME PassInit PROVE PassInv
    OBVIOUS
  <1>1. ToSet(<<>>) = {} /\ DOMAIN <<>> = {} /\ <<>> \in Seq(Event)
    BY DEF ToSet
  <1> QED
    BY <1>1 DEF PassInit, Leader!Init, Leader!TypeOK, PassInv, PassTypeOK, Places, LeaderAlone,
       InPass, SnapshotDistinct, GatheredInPass, GatheredDistinct, GatheredExtends, SeenWritten,
       PriorCovered, WriteCovered

(* A step of the writers or the readers. *)
LEMMA LogPassStep ==
  ASSUME LogTypeOK, LogTypeOK', BufferEndsLine, WrittenOnce, LogStep, PassInv,
         UNCHANGED passVars
  PROVE  PassInv'
  <1>1. /\ UNCHANGED <<snapshot, leader, body, cpc, gathered, misreads, failures>>
        /\ \A e : Written(e) => Written(e)'
        /\ \A e : Written(e) /\ e \in Readable' => e \in Readable
    BY WrittenStays, NotReadableAnew DEF passVars
  <1>2. SeenWritten'
    BY <1>1 DEF PassInv, SeenWritten
  <1>3. \A e \in ToSet(snapshot) \cap Readable' : e \in Readable
    BY <1>1 DEF PassInv, SeenWritten
  <1>4. PriorCovered' /\ WriteCovered'
    BY <1>1, <1>3 DEF PassInv, PriorCovered, WriteCovered
  <1> QED
    BY <1>1, <1>2, <1>4 DEF PassInv, PassTypeOK, Leader!TypeOK, LeaderAlone, SnapshotDistinct,
       GatheredInPass, GatheredDistinct, GatheredExtends

(* The steps of consolidate that touch neither the snapshot nor what has   *)
(* been gathered, and put nobody where it matters.                         *)
LEMMA ElectStep ==
  ASSUME PassInv, UNCHANGED vars, NEW c \in Consolidator, Elect(c) \/ Refused(c)
  PROVE  PassInv'
  <1> USE DEF PassInv
  <1>1. /\ UNCHANGED <<log, snapshot, gathered, misreads, failures>>
        /\ cpc' = cpc \/ (leader = {} /\ leader' = {c} /\ cpc' = [cpc EXCEPT ![c] = "logs"])
    BY DEF Elect, Refused, Move, Leader!Acquire, vars, writerVars
  <1>2. PassTypeOK'
    BY DEF PassTypeOK, Places, Elect, Refused, Move, Leader!TypeOK, Leader!Acquire
  <1>3. LeaderAlone'
    <2>1. CASE Elect(c)
      <3>1. \A d \in Consolidator : d # c => cpc'[d] = cpc[d] /\ cpc[d] \notin InPass
        BY <2>1 DEF Elect, Move, Leader!Acquire, LeaderAlone, PassTypeOK
      <3> QED
        BY <2>1, <3>1 DEF Elect, Leader!Acquire, LeaderAlone
    <2>2. CASE Refused(c)
      BY <2>2 DEF Refused, LeaderAlone
    <2> QED
      BY <2>1, <2>2
  <1>4. \A d \in Consolidator : cpc'[d] \in {"prior", "write"} => cpc'[d] = cpc[d]
    BY <1>1 DEF PassTypeOK
  <1>5. Readable' = Readable /\ \A e : Written(e)' <=> Written(e)
    BY <1>1 DEF Readable, Written
  <1>6. GatheredInPass'
    BY <1>1 DEF GatheredInPass, Elect, Refused, Move, PassTypeOK
  <1> QED
    BY <1>1, <1>2, <1>3, <1>4, <1>5, <1>6 DEF SnapshotDistinct, GatheredDistinct, GatheredExtends,
       SeenWritten, PriorCovered, WriteCovered

(* A step of a pass moves one process, and changes what that one gathered. *)
LEMMA PassFrame ==
  ASSUME PassInv, UNCHANGED vars, NEW c \in Consolidator, Pass(c) \/ Die(c)
  PROVE  /\ Readable' = Readable /\ \A e : Written(e)' <=> Written(e)
         /\ cpc' \in [Consolidator -> Places] /\ cpc[c] # "idle"
         /\ \E x : gathered' = [gathered EXCEPT ![c] = x]
         /\ \A d \in Consolidator : d # c => cpc'[d] = cpc[d] /\ gathered'[d] = gathered[d]
         /\ \A d \in Consolidator : cpc[c] \in InPass /\ d # c => cpc[d] \notin InPass
         /\ LeaderAlone'
         /\ Leader!TypeOK'
  <1> USE DEF PassInv, PassTypeOK
  <1>1. Readable' = Readable /\ \A e : Written(e)' <=> Written(e)
    BY DEF vars, writerVars, Readable, Written
  <1>2. /\ cpc[c] # "idle"
        /\ \E p \in Places : cpc' = [cpc EXCEPT ![c] = p]
    BY DEF Pass, Die, ReadLogs, LogUnreadable, MergePrior, PriorUnreadable, WriteSnapshot, Abort,
       WriteFails, Resign, Erase, Move, Places
  <1>3. \E x : gathered' = [gathered EXCEPT ![c] = x]
    <2>1. gathered = [gathered EXCEPT ![c] = gathered[c]]
      OBVIOUS
    <2>2. CASE gathered' = gathered
      BY <2>1, <2>2
    <2>3. CASE ReadLogs(c) \/ MergePrior(c) \/ PriorUnreadable(c) \/ Resign(c) \/ Die(c)
      BY <2>3 DEF ReadLogs, MergePrior, PriorUnreadable, Resign, Die
    <2> QED
      BY <2>2, <2>3 DEF Pass, LogUnreadable, WriteSnapshot, Abort, WriteFails, Erase
  <1>4. \A d \in Consolidator : cpc[c] \in InPass /\ d # c => cpc[d] \notin InPass
    BY DEF LeaderAlone
  <1>5. /\ cpc' \in [Consolidator -> Places]
        /\ \A d \in Consolidator : d # c => cpc'[d] = cpc[d]
    BY <1>2
  <1>6. LeaderAlone'
    <2>1. CASE Die(c)
      <3>1. cpc'[c] = "idle" /\ leader' = leader \ {c}
        BY <2>1 DEF Die
      <3> QED
        BY <1>5, <3>1 DEF LeaderAlone, InPass
    <2>2. CASE Resign(c)
      <3>1. cpc'[c] = "erase" /\ leader' = {} /\ cpc[c] \in InPass
        BY <2>2 DEF Resign, Move, Leader!Leave, InPass
      <3> QED
        BY <1>4, <1>5, <3>1 DEF LeaderAlone, InPass
    <2>3. CASE leader' = leader /\ (cpc'[c] \in InPass => cpc[c] \in InPass)
      BY <1>5, <2>3 DEF LeaderAlone
    <2>4. Pass(c) => \/ Resign(c)
                     \/ leader' = leader /\ (cpc'[c] \in InPass => cpc[c] \in InPass)
      BY DEF Pass, ReadLogs, LogUnreadable, MergePrior, PriorUnreadable, WriteSnapshot, Abort,
         WriteFails, Erase, Move, InPass
    <2> QED
      BY <2>1, <2>2, <2>3, <2>4
  <1>7. Leader!TypeOK'
    BY DEF Pass, Die, ReadLogs, LogUnreadable, MergePrior, PriorUnreadable, WriteSnapshot, Abort,
       WriteFails, Resign, Erase, Leader!Leave, Leader!TypeOK
  <1>8. \A d \in Consolidator : d # c => gathered'[d] = gathered[d]
    BY <1>3
  <1> QED
    BY <1>1, <1>2, <1>3, <1>4, <1>5, <1>6, <1>7, <1>8

LEMMA ReadLogsStep ==
  ASSUME LogTypeOK, PassInv, UNCHANGED vars, NEW c \in Consolidator,
         ReadLogs(c) \/ LogUnreadable(c)
  PROVE  PassInv'
  <1> USE DEF PassInv
  <1>1. Pass(c)
    BY DEF Pass
  <1>2. cpc[c] = "logs" /\ cpc' = [cpc EXCEPT ![c] = "prior"] /\ UNCHANGED <<snapshot, leader, body, failures>>
    BY DEF ReadLogs, LogUnreadable, Move
  <1>3. /\ misreads \in Nat /\ failures \in Nat /\ misreads' \in Nat /\ misreads' >= misreads
        /\ misreads' = 0 => ReadLogs(c)
    BY DEF ReadLogs, LogUnreadable, PassTypeOK
  <1>4. /\ gathered'[c] \in Seq(Event)
        /\ \A e \in ToSet(gathered'[c]) : Written(e)
        /\ ReadLogs(c) => ToSet(gathered'[c]) = Readable
    <2>1. CASE ReadLogs(c)
      <3>1. gathered'[c] = Decode(log) /\ log \in Seq(Token)
        BY <2>1 DEF ReadLogs, PassTypeOK, LogTypeOK
      <3> QED
        BY <3>1, DecodeReads, ReadableWritten DEF Readable
    <2>2. CASE LogUnreadable(c)
      <3>1. gathered'[c] = <<>> /\ ~ReadLogs(c)
        BY <1>2, <2>2 DEF LogUnreadable, ReadLogs, PassTypeOK
      <3> QED
        BY <3>1 DEF ToSet
    <2> QED
      BY <2>1, <2>2
  <1>5. /\ Readable' = Readable /\ \A e : Written(e)' <=> Written(e)
        /\ cpc' \in [Consolidator -> Places]
        /\ \A d \in Consolidator : d # c => cpc'[d] = cpc[d] /\ gathered'[d] = gathered[d]
        /\ \A d \in Consolidator : d # c => cpc[d] \notin InPass
        /\ LeaderAlone' /\ Leader!TypeOK'
    BY <1>1, <1>2, PassFrame DEF InPass
  <1>6. PassTypeOK'
    <2>1. gathered' \in [Consolidator -> Seq(Event)]
      BY <1>1, <1>4, PassFrame DEF PassTypeOK
    <2> QED
      BY <1>2, <1>3, <1>5, <2>1 DEF PassTypeOK
  <1>7. SeenWritten'
    BY <1>2, <1>4, <1>5 DEF SeenWritten
  <1>9. GatheredInPass'
    BY <1>2, <1>5 DEF GatheredInPass
  <1>8. GatheredDistinct' /\ GatheredExtends' /\ PriorCovered' /\ WriteCovered'
    <2>1. \A d \in Consolidator : cpc'[d] # "write" /\ (cpc'[d] = "prior" => d = c)
      BY <1>2, <1>5 DEF InPass, PassTypeOK
    <2> QED
      BY <1>2, <1>3, <1>4, <1>5, <2>1 DEF GatheredDistinct, GatheredExtends, PriorCovered,
         WriteCovered
  <1> QED
    BY <1>2, <1>5, <1>6, <1>7, <1>8, <1>9 DEF SnapshotDistinct

LEMMA MergeStep ==
  ASSUME PassInv, UNCHANGED vars, NEW c \in Consolidator, MergePrior(c) \/ PriorUnreadable(c)
  PROVE  PassInv'
  <1> USE DEF PassInv
  <1>1. Pass(c)
    BY DEF Pass
  <1>2. /\ cpc[c] = "prior" /\ cpc' = [cpc EXCEPT ![c] = "write"]
        /\ UNCHANGED <<snapshot, leader, body, failures>>
    BY DEF MergePrior, PriorUnreadable, Move
  <1>3. /\ misreads \in Nat /\ failures \in Nat /\ misreads' \in Nat /\ misreads' >= misreads
        /\ ~MergePrior(c) => PriorUnreadable(c) /\ misreads' = misreads + 1
    BY DEF MergePrior, PriorUnreadable, PassTypeOK
  <1>4. /\ Readable' = Readable /\ \A e : Written(e)' <=> Written(e)
        /\ cpc' \in [Consolidator -> Places]
        /\ \A d \in Consolidator : d # c => cpc'[d] = cpc[d] /\ gathered'[d] = gathered[d]
        /\ \A d \in Consolidator : d # c => cpc[d] \notin InPass
        /\ LeaderAlone' /\ Leader!TypeOK'
    BY <1>1, <1>2, PassFrame DEF InPass
  <1>5. snapshot \in Seq(Event) /\ gathered[c] \in Seq(Event)
    BY DEF PassTypeOK
  <1>6. PICK s \in Seq(Event) : /\ gathered'[c] = DedupById(s)
                                /\ ToSet(s) \subseteq ToSet(snapshot) \cup ToSet(gathered[c])
                                /\ MergePrior(c) => s = snapshot \o gathered[c]
                                /\ ~MergePrior(c) => s = gathered[c]
    <2>1. CASE MergePrior(c)
      <3>1. gathered'[c] = DedupById(snapshot \o gathered[c])
        BY <2>1 DEF MergePrior, PassTypeOK
      <3>2. /\ snapshot \o gathered[c] \in Seq(Event)
            /\ ToSet(snapshot \o gathered[c]) \subseteq ToSet(snapshot) \cup ToSet(gathered[c])
        BY <1>5 DEF ToSet
      <3> QED
        BY <2>1, <3>1, <3>2
    <2>2. CASE ~MergePrior(c)
      <3>1. gathered'[c] = DedupById(gathered[c])
        BY <1>3, <2>2 DEF PriorUnreadable, PassTypeOK
      <3> QED
        BY <1>5, <2>2, <3>1
    <2> QED
      BY <2>1, <2>2
  <1>7. /\ gathered'[c] \in Seq(Event) /\ Distinct(gathered'[c])
        /\ ToSet(gathered'[c]) \subseteq ToSet(snapshot) \cup ToSet(gathered[c])
        /\ Keys(gathered'[c]) = Keys(s)
    BY <1>6, DedupKeeps
  <1>8. PassTypeOK'
    <2>1. gathered' \in [Consolidator -> Seq(Event)]
      BY <1>1, <1>7, PassFrame DEF PassTypeOK
    <2> QED
      BY <1>2, <1>3, <1>4, <2>1 DEF PassTypeOK
  <1>9. SeenWritten'
    BY <1>2, <1>4, <1>7 DEF SeenWritten
  <1>10. \A d \in Consolidator : cpc'[d] # "prior" /\ (cpc'[d] = "write" => d = c)
    BY <1>2, <1>4 DEF InPass, PassTypeOK
  <1>11. GatheredDistinct' /\ PriorCovered'
    BY <1>7, <1>10 DEF GatheredDistinct, PriorCovered
  <1>12. GatheredExtends'
    <2> SUFFICES ASSUME misreads' = 0 PROVE IsPrefix(snapshot, gathered'[c])
      BY <1>2, <1>10 DEF GatheredExtends
    <2>1. MergePrior(c)
      BY <1>3
    <2>2. Distinct(snapshot)
      BY DEF SnapshotDistinct, Distinct
    <2> QED
      BY <1>5, <1>6, <2>1, <2>2, DedupExtends
  <1>13. WriteCovered'
    <2> SUFFICES ASSUME misreads' + failures < 2, NEW e \in ToSet(snapshot) \cap Readable
                 PROVE  Key[e] \in Keys(s)
      BY <1>2, <1>4, <1>7, <1>10 DEF WriteCovered
    <2>1. CASE MergePrior(c)
      <3>1. ToSet(snapshot) \subseteq ToSet(snapshot \o gathered[c])
        <4> DEFINE g == gathered[c]
        <4>1. \A i \in DOMAIN snapshot : /\ i \in DOMAIN (snapshot \o g)
                                        /\ (snapshot \o g)[i] = snapshot[i]
          <5> HIDE DEF g
          <5> QED
            BY <1>5 DEF g
        <4> QED
          BY <4>1 DEF ToSet
      <3>2. s = snapshot \o gathered[c]
        BY <1>6, <2>1
      <3> QED
        BY <3>1, <3>2 DEF Keys
    <2>2. CASE ~MergePrior(c)
      <3>1. misreads = 0
        BY <1>3, <2>2
      <3>2. e \in ToSet(gathered[c])
        BY <1>2, <3>1 DEF PriorCovered
      <3> QED
        BY <1>6, <2>2, <3>2 DEF Keys
    <2> QED
      BY <2>1, <2>2
  <1>14. SnapshotDistinct' /\ GatheredInPass'
    BY <1>2, <1>4 DEF SnapshotDistinct, GatheredInPass
  <1> QED
    BY <1>4, <1>8, <1>9, <1>11, <1>12, <1>13, <1>14

(* AtomicWriter.write, whether or not it replaces the snapshot. *)
LEMMA WriteStep ==
  ASSUME PassInv, UNCHANGED vars, NEW c \in Consolidator,
         WriteSnapshot(c) \/ Abort(c) \/ WriteFails(c)
  PROVE  PassInv'
  <1> USE DEF PassInv
  <1>1. Pass(c)
    BY DEF Pass
  <1>2. /\ cpc[c] = "write" /\ cpc' = [cpc EXCEPT ![c] = "leave"]
        /\ UNCHANGED <<leader, body, gathered, misreads>>
        /\ snapshot' \in {snapshot, gathered[c]}
    BY DEF WriteSnapshot, Abort, WriteFails, Move
  <1>3. failures' \in Nat
    BY DEF WriteSnapshot, Abort, WriteFails, PassTypeOK
  <1>4. /\ Readable' = Readable /\ \A e : Written(e)' <=> Written(e)
        /\ cpc' \in [Consolidator -> Places]
        /\ \A d \in Consolidator : d # c => cpc'[d] = cpc[d]
        /\ \A d \in Consolidator : d # c => cpc[d] \notin InPass
        /\ LeaderAlone' /\ Leader!TypeOK'
    BY <1>1, <1>2, PassFrame DEF InPass
  <1>5. snapshot' \in Seq(Event)
    BY <1>2 DEF PassTypeOK
  <1>6. PassTypeOK'
    BY <1>2, <1>3, <1>4, <1>5 DEF PassTypeOK
  <1>7. SnapshotDistinct'
    BY <1>2 DEF SnapshotDistinct, GatheredDistinct, Distinct
  <1>8. SeenWritten'
    BY <1>2, <1>4 DEF SeenWritten
  <1>9. \A d \in Consolidator : cpc'[d] \notin {"prior", "write"}
    BY <1>2, <1>4 DEF InPass, PassTypeOK
  <1>10. GatheredDistinct' /\ GatheredExtends' /\ PriorCovered' /\ WriteCovered'
    BY <1>9 DEF GatheredDistinct, GatheredExtends, PriorCovered, WriteCovered
  <1>11. GatheredInPass'
    BY <1>2, <1>4 DEF GatheredInPass
  <1> QED
    BY <1>4, <1>6, <1>7, <1>8, <1>10, <1>11

(* The end of a pass: the cleaner, or a death. *)
LEMMA EndOfPassStep ==
  ASSUME PassInv, UNCHANGED vars, NEW c \in Consolidator, Resign(c) \/ Erase(c) \/ Die(c)
  PROVE  PassInv'
  <1> USE DEF PassInv
  <1>1. Pass(c) \/ Die(c)
    BY DEF Pass
  <1>2. /\ cpc'[c] \notin InPass /\ body' \in BOOLEAN
        /\ snapshot' = snapshot /\ misreads' = misreads
    BY <1>1, PassFrame DEF Resign, Erase, Die, Move, InPass, PassTypeOK
  <1>3. /\ misreads \in Nat /\ failures \in Nat /\ failures' \in Nat
        /\ failures' = failures \/ failures' = failures + 1
    BY DEF Resign, Erase, Die, PassTypeOK
  <1>4. /\ Readable' = Readable /\ \A e : Written(e)' <=> Written(e)
        /\ cpc' \in [Consolidator -> Places]
        /\ \A d \in Consolidator : d # c => cpc'[d] = cpc[d] /\ gathered'[d] = gathered[d]
        /\ LeaderAlone' /\ Leader!TypeOK'
    BY <1>1, PassFrame
  <1>5. gathered'[c] = <<>>
    <2>1. Erase(c) => gathered'[c] = gathered[c] /\ cpc[c] \in {"erase", "destroy"}
      BY DEF Erase, Move
    <2> QED
      BY <2>1 DEF Resign, Die, PassTypeOK, GatheredInPass
  <1>6. PassTypeOK'
    <2>1. <<>> \in Seq(Event)
      OBVIOUS
    <2>2. gathered' \in [Consolidator -> Seq(Event)]
      BY <1>1, <1>5, <2>1, PassFrame DEF PassTypeOK
    <2> QED
      BY <1>2, <1>3, <1>4, <1>5, <2>2 DEF PassTypeOK
  <1>7. SeenWritten' /\ GatheredInPass'
    <2>1. ToSet(<<>>) = {}
      BY DEF ToSet
    <2> QED
      BY <1>2, <1>4, <1>5, <2>1 DEF SeenWritten, GatheredInPass
  <1>8. \A d \in Consolidator : cpc'[d] \in {"prior", "write"} =>
                                  d # c /\ cpc'[d] = cpc[d] /\ gathered'[d] = gathered[d]
    BY <1>2, <1>4 DEF InPass
  <1>9. GatheredDistinct' /\ GatheredExtends'
    BY <1>2, <1>8 DEF GatheredDistinct, GatheredExtends
  <1>10. PriorCovered'
    BY <1>2, <1>4, <1>8 DEF PriorCovered
  <1>11. WriteCovered'
    <2>1. misreads + failures' < 2 => misreads + failures < 2
      <3>1. \A m, f, g \in Nat : g \in {f, f + 1} /\ m + g < 2 => m + f < 2
        OBVIOUS
      <3> QED
        BY <1>3, <3>1
    <2> QED
      BY <1>2, <1>4, <1>8, <2>1 DEF WriteCovered
  <1>12. SnapshotDistinct'
    BY <1>2 DEF SnapshotDistinct
  <1> QED
    BY <1>4, <1>6, <1>7, <1>9, <1>10, <1>11, <1>12

-----------------------------------------------------------------------------
(* The invariant holds in every state of every behaviour.                  *)
THEOREM ConsolidatorInvariant == PassSpec => []PassInv
  <1>1. IInv /\ IInv' /\ LogInv /\ PassInv /\ [PassNext]_allVars => PassInv'
    <2> SUFFICES ASSUME IInv, IInv', LogInv, PassInv, [PassNext]_allVars PROVE PassInv'
      OBVIOUS
    <2> USE DEF IInv, LogInv
    <2>1. CASE Consolidate
      <3>1. PICK c \in Consolidator : Elect(c) \/ Refused(c) \/ Pass(c) \/ Die(c)
        BY <2>1 DEF Consolidate
      <3> QED
        BY <2>1, <3>1, ElectStep, ReadLogsStep, MergeStep, WriteStep, EndOfPassStep
        DEF Consolidate, Pass
    <2>2. CASE Next /\ UNCHANGED passVars
      BY <2>2, NextLogStep, LogPassStep
    <2>3. CASE UNCHANGED allVars
      <3>1. UNCHANGED vars /\ UNCHANGED passVars
        BY <2>3 DEF allVars
      <3> QED
        BY <3>1, NextLogStep, LogPassStep
    <2> QED
      BY <2>1, <2>2, <2>3 DEF PassNext
  <1> QED
    BY <1>1, InitPassInv, ConsolidatorKeepsLogs, EventLogInvariant, EventLogPromises, PTL
    DEF PassSpec

(* Type correctness: the snapshot and what a pass gathers are sequences of *)
(* events, and nothing is left over for the next pass.                     *)
THEOREM ConsolidatorTypes == PassSpec => []PassTypeOK
  BY ConsolidatorInvariant, PTL DEF PassInv

(* However often logs and snapshot are consolidated, by however many       *)
(* processes, no event stands in the snapshot twice.                       *)
THEOREM ConsolidatorIdempotent == PassSpec => []SnapshotDistinct
  BY ConsolidatorInvariant, PTL DEF PassInv

(* Only AtomicWriter.write changes the snapshot, and puts there what the   *)
(* pass has gathered.                                                      *)
LEMMA SnapshotStep ==
  ASSUME PassInv, [PassNext]_allVars, snapshot' # snapshot
  PROVE  \E c \in Consolidator : cpc[c] = "write" /\ snapshot' = gathered[c]
  <1>1. PICK c \in Consolidator : WriteSnapshot(c)
    BY DEF PassNext, Consolidate, Elect, Refused, Pass, Die, ReadLogs, LogUnreadable, MergePrior,
       PriorUnreadable, Abort, WriteFails, Resign, Erase, passVars, allVars
  <1> QED
    BY <1>1 DEF WriteSnapshot, Move

(* A pass only adds events behind those the snapshot has, as long as no    *)
(* log or snapshot was unreadable.                                         *)
THEOREM ConsolidatorKeepsHistory == PassSpec => SnapshotExtends
  <1>1. PassInv /\ [PassNext]_allVars =>
          [misreads = 0 => IsPrefix(snapshot, snapshot')]_snapshot
    BY SnapshotStep DEF PassInv, GatheredExtends
  <1> QED
    BY <1>1, ConsolidatorInvariant, PTL DEF PassSpec, SnapshotExtends

(* One unreadable log or snapshot, one failed write or one death never     *)
(* takes an acknowledged event that can still be read out of the snapshot. *)
THEOREM ConsolidatorSurvivesOneMishap == PassSpec => OneMishapLosesNothing
  <1>1. PassInv /\ [PassNext]_allVars =>
          [misreads + failures < 2 => \A e \in ToSet(snapshot) \cap Acked \cap Readable :
             Key[e] \in Keys(snapshot')]_snapshot
    <2> SUFFICES ASSUME PassInv, [PassNext]_allVars, snapshot' # snapshot,
                        misreads + failures < 2,
                        NEW e \in ToSet(snapshot) \cap Acked \cap Readable
                 PROVE  Key[e] \in Keys(snapshot')
      OBVIOUS
    <2>1. PICK c \in Consolidator : cpc[c] = "write" /\ snapshot' = gathered[c]
      BY SnapshotStep
    <2>2. Key[e] \in Keys(gathered[c])
      BY <2>1 DEF PassInv, WriteCovered
    <2> QED
      BY <2>1, <2>2
  <1> QED
    BY <1>1, ConsolidatorInvariant, PTL DEF PassSpec, OneMishapLosesNothing
=============================================================================
