-------------------------- MODULE SeccLog_proofs ---------------------------
(***************************************************************************)
(* Proofs about the structured log, for any number of threads and any size *)
(* of the ring, on the condition that main closes the log only while no    *)
(* call is under way (QuietClose): without it the run log_race shows two   *)
(* threads in the section at once.                                         *)
(*                                                                         *)
(* The mutex invariant says that exactly the holder is in the section; so  *)
(* one thread at a time works on the ring, whose indices then stay in step *)
(* (RingInv), and the ring with its mutex is the queue of LogQueue.        *)
(***************************************************************************)
EXTENDS SeccLog, TLAPS, SequenceTheorems

S == SECC_LOG_BUFFER_SIZE

(* A thread between storing its entry and counting it. *)
Counting == \E t \in Threads : pc[t] = "count"

(* Entries the ring holds, that one included. *)
Held == IF Counting THEN count + 1 ELSE count

LogTypes ==
  /\ g_log_initialized \in BOOLEAN
  /\ lock \in {"none", "free", "destroyed", "main"} \cup Threads
  /\ entries \in [Slots -> Entry \cup {None}]
  /\ head \in Slots /\ tail \in Slots
  /\ count \in 0..S
  /\ first \in BOOLEAN
  /\ clock \in 0..MaxCalls /\ opened \in Nat
  /\ mainPc \in {"down", "up", "close", "destroy", "clear"}
  /\ pc \in [Threads -> {"idle", "log", "store", "count", "file", "read", "copy",
                          "unlock"}]
  /\ entry \in [Threads -> Entry \cup {None}]

Tokens == [mark : {"[", ",", "]", "entry"}, item : Entry \cup {None}]

(* The mutex is held by the one in the section; main closes only while all *)
(* threads are idle.                                                       *)
LockInv ==
  /\ mainPc # "up" => \A t \in Threads : pc[t] = "idle"
  /\ mainPc = "up" => lock \in {"free"} \cup Threads
  /\ mainPc = "close" => lock = "main"
  /\ mainPc \in {"down", "destroy", "clear"} => lock \in {"none", "free", "destroyed"}
  /\ g_log_initialized <=> mainPc # "down"
  /\ \A t \in Threads : InSection(t) <=> lock = t

(* The indices are in step, and what the ring holds has been written.      *)
RingInv ==
  /\ head = IF Counting THEN Following((tail + count) % S) ELSE (tail + count) % S
  /\ \A i \in 0..(Held - 1) : entries[(tail + i) % S] \in Entry
  /\ \A t \in Threads : pc[t] \in {"log", "store", "count", "file"} => entry[t] \in Entry

LogInv == LogTypes /\ LockInv /\ RingInv

----------------------------------------------------------------------------
(* Counting around the ring.                                               *)

LEMMA SizeFacts == S \in Nat /\ S > 0 /\ Slots = 0..(S - 1)
BY LogConstants DEF S, Slots

LEMMA Wrap ==
  ASSUME NEW k \in 0..(2 * S - 1)
  PROVE  k % S = IF k < S THEN k ELSE k - S
<1>1. PICK s \in Nat : s = S /\ s > 0
  BY SizeFacts
<1>2. k \in Nat /\ k < 2 * s
  BY <1>1
<1>3. k % s = IF k < s THEN k ELSE k - s
  BY <1>1, <1>2
<1> QED BY <1>1, <1>3

LEMMA FollowingFacts ==
  ASSUME NEW i \in Slots
  PROVE  /\ Following(i) = IF i + 1 < S THEN i + 1 ELSE 0
         /\ Following(i) \in Slots
<1>1. i \in Nat /\ i < S /\ i + 1 \in 0..(2 * S - 1) /\ S \in Nat
  BY SizeFacts
<1>2. (i + 1) % S = IF i + 1 < S THEN i + 1 ELSE (i + 1) - S
  BY <1>1, Wrap
<1> QED BY <1>1, <1>2, SizeFacts DEF Following, S

(* Slots a ring's length apart are different. *)
LEMMA SlotsApart ==
  ASSUME NEW a \in Slots, NEW i \in 0..S, NEW j \in 0..S, i < j, j - i < S
  PROVE  /\ (a + i) % S \in Slots /\ (a + j) % S \in Slots
         /\ (a + i) % S # (a + j) % S
<1>1. S \in Nat /\ S > 0 /\ a \in Nat /\ a < S /\ i \in Nat /\ j \in Nat
      /\ i <= S /\ j <= S
  BY SizeFacts
<1>2. a + i \in 0..(2 * S - 1) /\ a + j \in 0..(2 * S - 1)
  BY <1>1
<1>3. /\ (a + i) % S = IF a + i < S THEN a + i ELSE (a + i) - S
      /\ (a + j) % S = IF a + j < S THEN a + j ELSE (a + j) - S
  BY <1>2, Wrap
<1> QED BY <1>1, <1>3, SizeFacts

----------------------------------------------------------------------------
(* Types.                                                                  *)

(* A thread moves on in its call; nobody else does. *)
LEMMA GoesFacts ==
  ASSUME LogTypes, NEW t \in Threads, NEW from, NEW to, Goes(t, from, to)
  PROVE  /\ pc[t] = from /\ pc'[t] = to
         /\ \A u \in Threads : u # t => pc'[u] = pc[u]
BY DEF LogTypes, Goes

LEMMA InitTypes == LogInit => LogTypes
<1> SUFFICES ASSUME LogInit PROVE LogTypes
  OBVIOUS
<1>1. 0 \in Slots /\ 0 \in 0..S /\ 0 \in 0..MaxCalls
  BY SizeFacts, LogConstants
<1>2. entries \in [Slots -> Entry \cup {None}]
  BY DEF LogInit
<1>3. pc \in [Threads -> {"idle", "log", "store", "count", "file", "read", "copy",
                          "unlock"}]
      /\ entry \in [Threads -> Entry \cup {None}]
  BY DEF LogInit
<1> QED BY <1>1, <1>2, <1>3 DEF LogInit, LogTypes

LEMMA OpenTypes ==
  ASSUME LogTypes, OpenLog PROVE LogTypes'
<1>1. 0 \in Slots /\ 0 \in 0..S
  BY SizeFacts
<1>2. /\ lock' = "free" /\ head' = 0 /\ tail' = 0 /\ count' = 0
      /\ opened' = opened + 1
      /\ UNCHANGED <<entries, first, clock, pc, entry>>
  BY DEF OpenLog, locals
<1>3. g_log_initialized' \in BOOLEAN /\ mainPc' \in {"down", "up", "close", "destroy", "clear"}
  BY DEF LogTypes, OpenLog
<1> QED BY <1>1, <1>2, <1>3 DEF LogTypes

LEMMA CloseTypes ==
  ASSUME LogTypes, CloseLock \/ CloseFile \/ CloseDestroy \/ CloseClear PROVE LogTypes'
BY DEF LogTypes, CloseLock, CloseFile, CloseDestroy, CloseClear, Acquire, Release,
       locals, ring

LEMMA BeginTypes ==
  ASSUME LogTypes, NEW t \in Threads, BeginLog(t) \/ BeginRead(t) PROVE LogTypes'
<1>1. CASE BeginLog(t)
  <2>1. clock \in 0..(MaxCalls - 1) /\ clock + 1 \in 0..MaxCalls
    BY <1>1, LogConstants DEF BeginLog, LogTypes
  <2>2. [by |-> t, timestamp_ms |-> clock] \in Entry
    BY <2>1 DEF Entry
  <2> QED BY <1>1, <2>1, <2>2 DEF LogTypes, BeginLog, Goes, ring
<1>2. CASE BeginRead(t)
  BY <1>2 DEF LogTypes, BeginRead, Goes, ring
<1> QED BY <1>1, <1>2

LEMMA LockTypes ==
  ASSUME LogTypes, NEW t \in Threads, LockForLog(t) \/ LockForRead(t) \/ Unlock(t)
  PROVE  LogTypes'
BY DEF LogTypes, LockForLog, LockForRead, Unlock, Goes, Acquire, Release, ring

LEMMA StoreTypes ==
  ASSUME LogTypes, NEW t \in Threads, Store(t) PROVE LogTypes'
<1>1. head' \in Slots
  BY FollowingFacts DEF LogTypes, Store
<1>2. entries' \in [Slots -> Entry \cup {None}]
  BY DEF LogTypes, Store
<1> QED BY <1>1, <1>2 DEF LogTypes, Store, Goes

LEMMA CountTypes ==
  ASSUME LogTypes, NEW t \in Threads, Count(t) PROVE LogTypes'
<1>1. tail' \in Slots
  BY FollowingFacts DEF LogTypes, Count
<1>2. count' \in 0..S
  BY SizeFacts DEF LogTypes, Count, S
<1> QED BY <1>1, <1>2 DEF LogTypes, Count, Goes

LEMMA OtherTypes ==
  ASSUME LogTypes, NEW t \in Threads,
         WriteFile(t) \/ \E n \in MaxEntries : Copy(t, n)
  PROVE  LogTypes'
BY DEF LogTypes, WriteFile, Copy, Goes, ring

LEMMA TypesNext ==
  ASSUME LogTypes, [LogNext]_logVars PROVE LogTypes'
<1>1. CASE UNCHANGED logVars
  BY <1>1 DEF LogTypes, logVars, locals, ring
<1>2. ASSUME NEW t \in Threads, Log(t) \/ Read(t) PROVE LogTypes'
  BY <1>2, BeginTypes, LockTypes, StoreTypes, CountTypes, OtherTypes DEF Log, Read
<1> QED BY <1>1, <1>2, OpenTypes, CloseTypes DEF LogNext

----------------------------------------------------------------------------
(* The mutex.                                                              *)

LEMMA InitLock == LogInit => LockInv
BY LogConstants DEF LogInit, LockInv, InSection

(* A step in which the thread t stays in the section, or out of it, and    *)
(* main and the mutex stay as they are.                                    *)
LEMMA LockKept ==
  ASSUME LogTypes, LockInv, NEW t \in Threads,
         mainPc = "up", UNCHANGED <<lock, mainPc, g_log_initialized>>,
         \A u \in Threads : u # t => pc'[u] = pc[u],
         InSection(t)' <=> InSection(t)
  PROVE  LockInv'
<1>1. \A u \in Threads : InSection(u)' <=> InSection(u)
  BY DEF InSection
<1> QED BY <1>1 DEF LockInv

(* Whoever is in a call finds main up. *)
LEMMA BusyMeansUp ==
  ASSUME LockInv, NEW t \in Threads, pc[t] # "idle"
  PROVE  mainPc = "up" /\ lock \in {"free"} \cup Threads
BY DEF LockInv

LEMMA MainLock ==
  ASSUME QuietClose, LogTypes, LockInv,
         OpenLog \/ CloseLock \/ CloseFile \/ CloseDestroy \/ CloseClear
  PROVE  LockInv'
<1>0. /\ UNCHANGED pc
      /\ \A t \in Threads : pc[t] = "idle"
  BY DEF LockInv, OpenLog, CloseLock, CloseFile, CloseDestroy, CloseClear, locals
<1>1. \A t \in Threads : ~InSection(t) /\ ~InSection(t)'
  BY <1>0 DEF InSection
<1>2. "main" \notin Threads /\ "free" \notin Threads /\ "destroyed" \notin Threads
      /\ "none" \notin Threads
  BY LogConstants
<1>3. CASE OpenLog
  BY <1>0, <1>1, <1>2, <1>3 DEF OpenLog, LockInv
<1>4. CASE CloseLock
  <2>1. lock = "free"
    BY <1>1, <1>4 DEF CloseLock, LockInv
  <2> QED BY <2>1, <1>0, <1>1, <1>2, <1>4 DEF CloseLock, LockInv, Acquire
<1>5. CASE CloseFile
  BY <1>0, <1>1, <1>2, <1>5 DEF CloseFile, LockInv, Release
<1>6. CASE CloseDestroy
  BY <1>0, <1>1, <1>2, <1>6 DEF CloseDestroy, LockInv
<1>7. CASE CloseClear
  BY <1>0, <1>1, <1>2, <1>7 DEF CloseClear, LockInv
<1> QED BY <1>3, <1>4, <1>5, <1>6, <1>7

LEMMA BeginLock ==
  ASSUME QuietClose, LogTypes, LockInv, NEW t \in Threads, BeginLog(t) \/ BeginRead(t)
  PROVE  LockInv'
<1>1. /\ mainPc = "up" /\ UNCHANGED <<lock, mainPc, g_log_initialized>>
      /\ Goes(t, "idle", "log") \/ Goes(t, "idle", "read")
  BY DEF BeginLog, BeginRead
<1> QED BY <1>1, GoesFacts, LockKept DEF InSection

LEMMA AcquireLock ==
  ASSUME LogTypes, LockInv, NEW t \in Threads, LockForLog(t) \/ LockForRead(t)
  PROVE  LockInv'
<1>1. /\ Acquire(t) /\ UNCHANGED <<mainPc, g_log_initialized>>
      /\ Goes(t, "log", "store") \/ Goes(t, "read", "copy")
  BY DEF LockForLog, LockForRead
<1>2. /\ pc[t] \in {"log", "read"} /\ pc'[t] \in {"store", "copy"}
      /\ \A u \in Threads : u # t => pc'[u] = pc[u]
  BY <1>1, GoesFacts
<1>3. mainPc = "up" /\ lock \in {"free"} \cup Threads
  BY <1>2, BusyMeansUp
<1>4. lock = "free" /\ lock' = t
  BY <1>1, <1>3, LogConstants DEF Acquire
<1>5. \A u \in Threads : ~InSection(u)
  BY <1>4, LogConstants DEF LockInv
<1>6. \A u \in Threads : InSection(u)' <=> u = t
  BY <1>2, <1>5 DEF InSection
<1> QED BY <1>1, <1>3, <1>4, <1>6 DEF LockInv

LEMMA ReleaseLock ==
  ASSUME LogTypes, LockInv, NEW t \in Threads, Unlock(t)
  PROVE  LockInv'
<1>1. /\ Release /\ UNCHANGED <<mainPc, g_log_initialized>>
      /\ pc[t] = "unlock" /\ pc'[t] = "idle"
      /\ \A u \in Threads : u # t => pc'[u] = pc[u]
  BY GoesFacts DEF Unlock
<1>2. mainPc = "up" /\ lock \in {"free"} \cup Threads
  BY <1>1, BusyMeansUp
<1>3. lock = t /\ lock' = "free"
  BY <1>1, <1>2, LogConstants DEF LockInv, InSection, Release
<1>4. \A u \in Threads : ~InSection(u)'
  BY <1>1, <1>3 DEF LockInv, InSection
<1> QED BY <1>1, <1>2, <1>3, <1>4, LogConstants DEF LockInv

LEMMA InsideLock ==
  ASSUME LogTypes, LockInv, NEW t \in Threads,
         Store(t) \/ Count(t) \/ WriteFile(t) \/ \E n \in MaxEntries : Copy(t, n)
  PROVE  LockInv'
<1>1. /\ UNCHANGED <<lock, mainPc, g_log_initialized>>
      /\ \/ Goes(t, "store", "count") \/ Goes(t, "count", "file")
         \/ Goes(t, "file", "unlock") \/ Goes(t, "copy", "unlock")
  BY DEF Store, Count, WriteFile, Copy
<1>2. /\ InSection(t) /\ InSection(t)' /\ pc[t] # "idle"
      /\ \A u \in Threads : u # t => pc'[u] = pc[u]
  BY <1>1, GoesFacts DEF InSection
<1> QED BY <1>1, <1>2, BusyMeansUp, LockKept

LEMMA LockNext ==
  ASSUME QuietClose, LogTypes, LockInv, [LogNext]_logVars PROVE LockInv'
<1>1. CASE UNCHANGED logVars
  BY <1>1 DEF LockInv, InSection, logVars, locals
<1>2. ASSUME NEW t \in Threads, Log(t) \/ Read(t) PROVE LockInv'
  BY <1>2, BeginLock, AcquireLock, ReleaseLock, InsideLock DEF Log, Read
<1> QED BY <1>1, <1>2, MainLock DEF LogNext

----------------------------------------------------------------------------
(* The ring.                                                               *)

(* Steps around the ring, one at a time. *)
LEMMA Around ==
  ASSUME NEW a \in Slots, NEW i \in 0..S
  PROVE  /\ (a + i) % S \in Slots
         /\ (a + 0) % S = a /\ (a + S) % S = a
         /\ i < S => Following((a + i) % S) = (a + (i + 1)) % S
         /\ i < S => (Following(a) + i) % S = (a + (i + 1)) % S
<1>1. S \in Nat /\ S > 0 /\ a \in Nat /\ a < S /\ i \in Nat /\ i <= S
  BY SizeFacts
<1>2. a + i \in 0..(2 * S - 1) /\ a + 0 \in 0..(2 * S - 1) /\ a + S \in 0..(2 * S - 1)
  BY <1>1
<1>3. /\ (a + i) % S = IF a + i < S THEN a + i ELSE (a + i) - S
      /\ (a + 0) % S = a /\ (a + S) % S = a
  <2>1. (a + i) % S = IF a + i < S THEN a + i ELSE (a + i) - S
    BY <1>2, Wrap
  <2>2. (a + 0) % S = IF a + 0 < S THEN a + 0 ELSE (a + 0) - S
    BY <1>2, Wrap
  <2>3. (a + S) % S = IF a + S < S THEN a + S ELSE (a + S) - S
    BY <1>2, Wrap
  <2> QED BY <2>1, <2>2, <2>3, <1>1
<1>4. (a + i) % S \in Slots
  BY <1>1, <1>3, SizeFacts
<1>5. ASSUME i < S PROVE Following((a + i) % S) = (a + (i + 1)) % S
  <2>1. a + (i + 1) \in 0..(2 * S - 1)
    BY <1>1, <1>5
  <2>2. (a + (i + 1)) % S = IF a + (i + 1) < S THEN a + (i + 1) ELSE (a + (i + 1)) - S
    BY <2>1, Wrap
  <2>3. PICK k \in Slots : k = (a + i) % S
    BY <1>4
  <2>4. Following(k) = IF k + 1 < S THEN k + 1 ELSE 0
    BY FollowingFacts
  <2>5. k = IF a + i < S THEN a + i ELSE (a + i) - S
    BY <2>3, <1>3
  <2>6. Following(k) = (a + (i + 1)) % S
    BY <2>2, <2>4, <2>5, <1>1, <1>5
  <2> QED BY <2>3, <2>6
<1>6. ASSUME i < S PROVE (Following(a) + i) % S = (a + (i + 1)) % S
  <2>1. a + (i + 1) \in 0..(2 * S - 1)
    BY <1>1, <1>6
  <2>2. (a + (i + 1)) % S = IF a + (i + 1) < S THEN a + (i + 1) ELSE (a + (i + 1)) - S
    BY <2>1, Wrap
  <2>3. PICK k \in Slots : k = Following(a) /\ k = IF a + 1 < S THEN a + 1 ELSE 0
    BY FollowingFacts
  <2>4. k \in Nat /\ k < S /\ k + i \in 0..(2 * S - 1)
    BY <2>3, <1>1, <1>6, SizeFacts
  <2>5. (k + i) % S = IF k + i < S THEN k + i ELSE (k + i) - S
    BY <2>4, Wrap
  <2>6. (k + i) % S = (a + (i + 1)) % S
    BY <2>2, <2>3, <2>4, <2>5, <1>1, <1>6
  <2> QED BY <2>3, <2>6
<1> QED BY <1>3, <1>4, <1>5, <1>6

LEMMA OnceAround == \A a \in Slots : (a + S) % S = a
<1>1. 0 \in 0..S
  BY SizeFacts
<1> QED BY <1>1, Around

LEMMA RingFacts ==
  ASSUME LogTypes
  PROVE  /\ S \in Nat /\ count \in Nat /\ count <= S /\ tail \in Slots /\ head \in Slots
         /\ entries \in [Slots -> Entry \cup {None}]
         /\ Held \in Nat
BY SizeFacts DEF LogTypes, Held

(* Only the holder of the mutex can be counting. *)
LEMMA AloneInSection ==
  ASSUME LockInv, NEW t \in Threads, InSection(t)
  PROVE  Counting <=> pc[t] = "count"
BY DEF LockInv, Counting, InSection

(* A step that leaves the ring alone, and no thread starting or finishing  *)
(* to count.                                                               *)
LEMMA RingKept ==
  ASSUME RingInv, UNCHANGED <<entries, head, tail, count>>, Counting' <=> Counting,
         \A t \in Threads : pc'[t] \in {"log", "store", "count", "file"}
                              => entry'[t] \in Entry
  PROVE  RingInv'
<1>1. Held' = Held
  BY DEF Held
<1> QED BY <1>1 DEF RingInv

LEMMA RingInit == LogInit => RingInv
<1> SUFFICES ASSUME LogInit PROVE RingInv
  OBVIOUS
<1>1. ~Counting /\ Held = 0 /\ tail = 0 /\ count = 0 /\ head = 0
  BY DEF LogInit, Counting, Held
<1>2. 0 \in Slots
  BY SizeFacts
<1>3. (0 + 0) % S = 0
  BY <1>2, Around, SizeFacts
<1>4. \A t \in Threads : pc[t] = "idle"
  BY DEF LogInit
<1> QED BY <1>1, <1>3, <1>4 DEF RingInv

LEMMA RingOpen ==
  ASSUME LogTypes, LockInv, RingInv, OpenLog PROVE RingInv'
<1>1. /\ UNCHANGED <<pc, entry>> /\ head' = 0 /\ tail' = 0 /\ count' = 0
      /\ \A t \in Threads : pc'[t] = "idle"
  BY DEF OpenLog, LockInv, locals
<1>2. ~Counting' /\ Held' = 0
  BY <1>1 DEF Counting, Held
<1>3. 0 \in Slots
  BY SizeFacts
<1>4. (0 + 0) % S = 0
  BY <1>3, Around, SizeFacts
<1> QED BY <1>1, <1>2, <1>4 DEF RingInv

LEMMA RingStore ==
  ASSUME LogTypes, LockInv, LockInv', RingInv, NEW t \in Threads, Store(t)
  PROVE  RingInv'
<1>1. /\ pc[t] = "store" /\ pc'[t] = "count"
      /\ \A u \in Threads : u # t => pc'[u] = pc[u]
      /\ entries' = [entries EXCEPT ![head] = entry[t]]
      /\ head' = Following(head) /\ UNCHANGED <<tail, count, entry>>
  BY GoesFacts DEF Store
<1>2. ~Counting /\ Counting' /\ Held = count /\ Held' = count + 1
  <2>1. ~Counting
    BY <1>1, AloneInSection DEF InSection
  <2>2. Counting'
    BY <1>1 DEF Counting
  <2> QED BY <2>1, <2>2, <1>1 DEF Held
<1>3. head = (tail + count) % S
  BY <1>2 DEF RingInv
<1>4. head' = Following((tail' + count') % S)
  BY <1>1, <1>3
<1>5. entry[t] \in Entry
  BY <1>1 DEF RingInv
<1>6. ASSUME NEW i \in 0..(Held' - 1)
      PROVE  entries'[(tail' + i) % S] \in Entry
  <2>1. i \in 0..count /\ i \in 0..S /\ (i = count \/ i \in 0..(Held - 1))
    BY <1>2, RingFacts
  <2>2. (tail + i) % S \in Slots
    BY <2>1, RingFacts, Around
  <2>3. CASE (tail + i) % S = head
    BY <2>2, <2>3, <1>1, <1>5, RingFacts
  <2>4. CASE (tail + i) % S # head
    <3>1. entries[(tail + i) % S] \in Entry
      BY <2>1, <2>4, <1>3 DEF RingInv
    <3> QED BY <2>2, <2>4, <3>1, <1>1, RingFacts
  <2> QED BY <2>3, <2>4
<1>7. \A u \in Threads : pc'[u] \in {"log", "store", "count", "file"}
                           => entry'[u] \in Entry
  BY <1>1 DEF RingInv
<1> QED BY <1>2, <1>4, <1>6, <1>7 DEF RingInv

LEMMA RingCount ==
  ASSUME LogTypes, LockInv, LockInv', RingInv, NEW t \in Threads, Count(t)
  PROVE  RingInv'
<1>1. /\ pc[t] = "count" /\ pc'[t] = "file"
      /\ \A u \in Threads : u # t => pc'[u] = pc[u]
      /\ UNCHANGED <<entries, head, entry>>
      /\ IF count < S THEN count' = count + 1 /\ tail' = tail
                      ELSE tail' = Following(tail) /\ count' = count
  BY GoesFacts DEF Count, S
<1>2. Counting /\ ~Counting' /\ Held = count + 1 /\ Held' = count'
  <2>1. Counting
    BY <1>1 DEF Counting
  <2>2. ~Counting'
    BY <1>1, <2>1 DEF LockInv, InSection, Counting
  <2> QED BY <2>1, <2>2 DEF Held
<1>3. head = Following((tail + count) % S)
  BY <1>2 DEF RingInv
<1>4. \A u \in Threads : pc'[u] \in {"log", "store", "count", "file"}
                           => entry'[u] \in Entry
  BY <1>1 DEF RingInv
<1>5. CASE count < S
  <2>1. count' = count + 1 /\ tail' = tail /\ count \in 0..S
    BY <1>1, <1>5, RingFacts
  <2>2. head' = (tail' + count') % S
    BY <2>1, <1>1, <1>3, <1>5, RingFacts, Around
  <2>3. \A i \in 0..(Held' - 1) : entries'[(tail' + i) % S] \in Entry
    BY <2>1, <1>1, <1>2 DEF RingInv
  <2> QED BY <2>2, <2>3, <1>2, <1>4 DEF RingInv
<1>6. CASE ~(count < S)
  <2>1. count' = S /\ count = S /\ tail' = Following(tail) /\ tail' \in Slots
    BY <1>1, <1>6, RingFacts, FollowingFacts
  <2>2. head' = (tail' + count') % S
    <3>1. (tail + S) % S = tail /\ (tail' + S) % S = tail'
      BY <2>1, RingFacts, OnceAround
    <3> QED BY <3>1, <2>1, <1>1, <1>3
  <2>3. ASSUME NEW i \in 0..(Held' - 1)
        PROVE  entries'[(tail' + i) % S] \in Entry
    <3>1. i \in 0..S /\ i < S /\ i + 1 \in 0..(Held - 1)
      BY <2>1, <1>2, RingFacts
    <3>2. (tail' + i) % S = (tail + (i + 1)) % S
      BY <3>1, <2>1, RingFacts, Around
    <3> QED BY <3>1, <3>2, <1>1 DEF RingInv
  <2> QED BY <2>2, <2>3, <1>2, <1>4 DEF RingInv
<1> QED BY <1>5, <1>6

(* A step of t that neither stores nor counts. *)
LEMMA RingAside ==
  ASSUME LogTypes, LockInv, RingInv, NEW t \in Threads,
         \/ BeginLog(t) \/ BeginRead(t) \/ LockForLog(t) \/ LockForRead(t)
         \/ WriteFile(t) \/ Unlock(t) \/ \E n \in MaxEntries : Copy(t, n)
  PROVE  RingInv'
<1>0. UNCHANGED <<entries, head, tail, count>>
  BY DEF BeginLog, BeginRead, LockForLog, LockForRead, WriteFile, Unlock, Copy, ring
<1>a. \/ Goes(t, "idle", "log") \/ Goes(t, "idle", "read") \/ Goes(t, "log", "store")
      \/ Goes(t, "read", "copy") \/ Goes(t, "file", "unlock") \/ Goes(t, "copy", "unlock")
      \/ Goes(t, "unlock", "idle")
  BY DEF BeginLog, BeginRead, LockForLog, LockForRead, WriteFile, Unlock, Copy
<1>1. /\ pc[t] # "count" /\ pc'[t] # "count"
      /\ \A u \in Threads : u # t => pc'[u] = pc[u]
  BY <1>a, GoesFacts
<1>2. Counting' <=> Counting
  BY <1>1 DEF Counting
<1>3. ASSUME NEW u \in Threads, pc'[u] \in {"log", "store", "count", "file"}
      PROVE  entry'[u] \in Entry
  <2>1. CASE u # t
    <3>1. entry'[u] = entry[u]
      BY <2>1 DEF BeginLog, BeginRead, LockForLog, LockForRead, WriteFile, Unlock,
                  Copy, LogTypes
    <3> QED BY <2>1, <3>1, <1>1, <1>3 DEF RingInv
  <2>2. CASE u = t /\ BeginLog(t)
    <3>1. clock \in 0..(MaxCalls - 1)
      BY <2>2, LogConstants DEF BeginLog, LogTypes
    <3>2. entry'[t] = [by |-> t, timestamp_ms |-> clock]
      BY <2>2 DEF BeginLog, LogTypes
    <3> QED BY <3>1, <3>2, <2>2 DEF Entry
  <2>3. CASE u = t /\ LockForLog(t)
    <3>1. pc[t] = "log" /\ entry' = entry
      BY <2>3 DEF LockForLog, Goes
    <3> QED BY <2>3, <3>1 DEF RingInv
  <2>4. ASSUME u = t, ~BeginLog(t), ~LockForLog(t)
        PROVE  pc'[t] \in {"read", "copy", "unlock", "idle"}
    BY <2>4, GoesFacts DEF BeginRead, LockForRead, WriteFile, Unlock, Copy
  <2> QED BY <2>1, <2>2, <2>3, <2>4, <1>3
<1> QED BY <1>0, <1>2, <1>3, RingKept

LEMMA RingNext ==
  ASSUME LogTypes, LockInv, LockInv', RingInv, [LogNext]_logVars PROVE RingInv'
<1>1. CASE UNCHANGED <<pc, entry, entries, head, tail, count>>
  <2>1. Counting' <=> Counting
    BY <1>1 DEF Counting
  <2> QED BY <2>1, <1>1, RingKept DEF RingInv
<1>2. UNCHANGED logVars \/ CloseLock \/ CloseFile \/ CloseDestroy \/ CloseClear
        => UNCHANGED <<pc, entry, entries, head, tail, count>>
  BY DEF logVars, CloseLock, CloseFile, CloseDestroy, CloseClear, locals, ring
<1>3. ASSUME NEW t \in Threads, Log(t) \/ Read(t) PROVE RingInv'
  BY <1>3, RingStore, RingCount, RingAside DEF Log, Read
<1> QED BY <1>1, <1>2, <1>3, RingOpen DEF LogNext

LEMMA LogInvariant ==
  ASSUME QuietClose PROVE LogSpec => []LogInv
<1>1. LogInit => LogInv
  BY InitTypes, InitLock, RingInit DEF LogInv
<1>2. LogInv /\ [LogNext]_logVars => LogInv'
  BY TypesNext, LockNext, RingNext DEF LogInv
<1> QED BY <1>1, <1>2, PTL DEF LogSpec

(* secc_log.c:15 "Thread-safe ring buffer": with a quiet close one thread  *)
(* at a time works on the ring and the file, whatever the number of them.  *)
THEOREM MutualExclusionCorrect ==
  ASSUME QuietClose PROVE LogSpec => []MutualExclusion
<1>1. LogInv => MutualExclusion
  BY LogConstants DEF LogInv, LockInv, MutualExclusion
<1> QED BY <1>1, LogInvariant, PTL

----------------------------------------------------------------------------
(* What the ring keeps is a queue.                                         *)

LEMMA RingSeq ==
  ASSUME NEW from \in Nat, NEW n \in Nat,
         \A i \in 1..n : entries[(from + i - 1) % S] \in Entry
  PROVE  /\ Ring(from, n) \in Seq(Entry) /\ Len(Ring(from, n)) = n
         /\ \A i \in 1..n : Ring(from, n)[i] = entries[(from + i - 1) % S]
<1>1. Ring(from, n) = [i \in 1..n |-> entries[(from + i - 1) % S]]
  BY DEF Ring, S
<1>2. Ring(from, n) \in Seq(Entry)
  BY <1>1, IsASeq
<1>3. Len(Ring(from, n)) = n
  BY <1>1, <1>2, LenProperties
<1> QED BY <1>1, <1>2, <1>3

LEMMA KeptAtRest ==
  ASSUME LogInv, ~Counting
  PROVE  /\ Kept = Ring(tail, count)
         /\ Kept \in Seq(Entry) /\ Len(Kept) = count
         /\ \A i \in 1..count : Kept[i] = entries[(tail + (i - 1)) % S]
<1>1. /\ count \in Nat /\ tail \in Nat /\ Held = count
      /\ \A i \in 0..(Held - 1) : entries[(tail + i) % S] \in Entry
  BY RingFacts, SizeFacts DEF LogInv, RingInv, Held
<1>2. Kept = Ring(tail, count)
  BY DEF Kept, Counting
<1>3. ASSUME NEW i \in 1..count
      PROVE  /\ tail + i - 1 = tail + (i - 1)
             /\ entries[(tail + i - 1) % S] \in Entry
  <2>1. i - 1 \in 0..(Held - 1) /\ tail + i - 1 = tail + (i - 1)
    BY <1>1
  <2> QED BY <2>1, <1>1
<1>4. /\ Ring(tail, count) \in Seq(Entry) /\ Len(Ring(tail, count)) = count
      /\ \A i \in 1..count : Ring(tail, count)[i] = entries[(tail + i - 1) % S]
  BY <1>1, <1>3, RingSeq
<1> QED BY <1>2, <1>3, <1>4

CountingShape ==
  /\ Kept \in Seq(Entry)
  /\ count < S =>
       /\ Kept = Ring(tail, count + 1) /\ Len(Kept) = count + 1
       /\ \A i \in 1..(count + 1) : Kept[i] = entries[(tail + (i - 1)) % S]
  /\ count = S =>
       /\ Kept = Ring(Following(tail), count) /\ Len(Kept) = count
       /\ \A i \in 1..count : Kept[i] = entries[(tail + i) % S]

LEMMA KeptCounting == LogInv /\ Counting => CountingShape
<1> SUFFICES ASSUME LogInv, Counting PROVE CountingShape
  OBVIOUS
<1>1. /\ count \in Nat /\ tail \in Nat /\ Held = count + 1 /\ count <= S /\ S \in Nat
      /\ tail \in Slots
      /\ \A i \in 0..(Held - 1) : entries[(tail + i) % S] \in Entry
  BY RingFacts, SizeFacts DEF LogInv, RingInv, Held
<1>2. CASE count < S
  <2>1. Kept = Ring(tail, count + 1)
    BY <1>2 DEF Kept, Counting, S
  <2>2. ASSUME NEW i \in 1..(count + 1)
        PROVE  /\ tail + i - 1 = tail + (i - 1)
               /\ entries[(tail + i - 1) % S] \in Entry
    <3>1. i - 1 \in 0..(Held - 1) /\ tail + i - 1 = tail + (i - 1)
      BY <1>1
    <3> QED BY <3>1, <1>1
  <2>3. /\ Ring(tail, count + 1) \in Seq(Entry) /\ Len(Ring(tail, count + 1)) = count + 1
        /\ \A i \in 1..(count + 1) :
             Ring(tail, count + 1)[i] = entries[(tail + i - 1) % S]
    <3>1. count + 1 \in Nat
      BY <1>1
    <3> QED BY <3>1, <1>1, <2>2, RingSeq
  <2> QED BY <2>1, <2>2, <2>3, <1>1, <1>2 DEF CountingShape
<1>3. CASE count = S
  <2>1. Kept = Ring(Following(tail), count)
    BY <1>1, <1>3 DEF Kept, Counting, S
  <2>2. PICK f \in Slots : f = Following(tail)
    BY <1>1, FollowingFacts
  <2>3. f \in Nat
    BY <2>2, SizeFacts
  <2>4. ASSUME NEW i \in 1..count
        PROVE  /\ (f + i - 1) % S = (tail + i) % S
               /\ entries[(f + i - 1) % S] \in Entry
    <3>1. i \in 0..(Held - 1) /\ i - 1 \in 0..S /\ i - 1 < S
          /\ f + i - 1 = f + (i - 1) /\ (i - 1) + 1 = i
      BY <1>1, <1>3, <2>3
    <3>2. (f + (i - 1)) % S = (tail + ((i - 1) + 1)) % S
      BY <3>1, <1>1, <2>2, Around
    <3> QED BY <3>1, <3>2, <1>1
  <2>5. /\ Ring(f, count) \in Seq(Entry) /\ Len(Ring(f, count)) = count
        /\ \A i \in 1..count : Ring(f, count)[i] = entries[(f + i - 1) % S]
    BY <1>1, <2>3, <2>4, RingSeq
  <2> QED BY <2>1, <2>2, <2>4, <2>5, <1>1, <1>3 DEF CountingShape
<1> QED BY <1>1, <1>2, <1>3

LEMMA KeptFacts ==
  ASSUME LogInv
  PROVE  /\ Kept \in Seq(Entry) /\ Len(Kept) \in Nat /\ DOMAIN Kept = 1..Len(Kept)
         /\ \A i \in 1..Len(Kept) : Kept[i] \in Entry
<1>1. Kept \in Seq(Entry)
  BY KeptAtRest, KeptCounting DEF CountingShape
<1> QED BY <1>1, LenProperties, ElementOfSeq

(* The variables Kept is made of, and what a step does to them. *)
LEMMA KeptSame ==
  ASSUME UNCHANGED <<entries, tail, count>>, Counting' <=> Counting
  PROVE  Kept' = Kept
BY DEF Kept, Ring, Counting

LEMMA StoreAdds ==
  ASSUME LogInv, LogInv', NEW t \in Threads, Store(t)
  PROVE  /\ entry[t] \in Entry /\ got' = got
         /\ Kept' = IF Len(Kept) < S THEN Append(Kept, entry[t])
                                     ELSE Append(Tail(Kept), entry[t])
<1>0. LogTypes /\ LockInv /\ RingInv
  BY DEF LogInv
<1>1. /\ pc[t] = "store" /\ pc'[t] = "count"
      /\ entries' = [entries EXCEPT ![head] = entry[t]]
      /\ UNCHANGED <<tail, count, entry, got>>
  BY <1>0, GoesFacts DEF Store
<1>2. ~Counting /\ Counting'
  BY <1>0, <1>1, AloneInSection DEF InSection, Counting
<1>3. head = (tail + count) % S /\ entry[t] \in Entry
  BY <1>0, <1>1, <1>2 DEF RingInv
<1>4. /\ S \in Nat /\ S > 0 /\ count \in Nat /\ count <= S /\ tail \in Slots
      /\ head \in Slots /\ entries \in [Slots -> Entry \cup {None}]
  BY <1>0, RingFacts, SizeFacts
<1>5. /\ Kept \in Seq(Entry) /\ Len(Kept) = count
      /\ \A i \in 1..count : Kept[i] = entries[(tail + (i - 1)) % S]
  BY <1>2, KeptAtRest
(* Slots near the new entry keep what they hold. *)
<1>6. /\ \A i \in 0..S : /\ (tail + i) % S \in Slots
                         /\ (tail + i) % S # head =>
                              entries'[(tail + i) % S] = entries[(tail + i) % S]
      /\ entries'[head] = entry[t]
  BY <1>1, <1>4, Around
<1>k. /\ Kept' \in Seq(Entry)
      /\ count < S =>
           /\ Len(Kept') = count + 1
           /\ \A i \in 1..(count + 1) : Kept'[i] = entries'[(tail + (i - 1)) % S]
      /\ count = S =>
           /\ Len(Kept') = count
           /\ \A i \in 1..count : Kept'[i] = entries'[(tail + i) % S]
  <2>1. (LogInv /\ Counting => CountingShape)'
    BY KeptCounting, PTL
  <2>2. CountingShape'
    BY <2>1, <1>2
  <2> QED BY <2>2, <1>1 DEF CountingShape, S
<1>7. CASE count < S
  <2>1. /\ Append(Kept, entry[t]) \in Seq(Entry)
        /\ Len(Append(Kept, entry[t])) = count + 1
        /\ \A i \in 1..count : Append(Kept, entry[t])[i] = Kept[i]
        /\ Append(Kept, entry[t])[count + 1] = entry[t]
    BY <1>3, <1>5, AppendProperties
  <2>2. ASSUME NEW i \in 1..(count + 1)
        PROVE  Kept'[i] = Append(Kept, entry[t])[i]
    <3>1. Kept'[i] = entries'[(tail + (i - 1)) % S]
      BY <1>k, <1>7
    <3>2. CASE i = count + 1
      <4>1. i - 1 = count
        BY <3>2, <1>4
      <4> QED BY <4>1, <3>1, <3>2, <2>1, <1>3, <1>6
    <3>3. CASE i \in 1..count
      <4>1. i - 1 \in 0..S /\ count \in 0..S /\ i - 1 < count /\ count - (i - 1) < S
        BY <3>3, <1>4, <1>7
      <4>2. (tail + (i - 1)) % S # head
        BY <4>1, <1>3, <1>4, SlotsApart
      <4>3. Kept'[i] = entries[(tail + (i - 1)) % S]
        BY <4>1, <4>2, <3>1, <1>6
      <4> QED BY <4>3, <3>3, <2>1, <1>5
    <3>4. i = count + 1 \/ i \in 1..count
      BY <1>4
    <3> QED BY <3>2, <3>3, <3>4
  <2>3. Kept' = Append(Kept, entry[t])
    BY <2>1, <2>2, <1>k, <1>7, SeqEqual
  <2> QED BY <2>3, <1>1, <1>3, <1>5, <1>7
<1>8. CASE count = S
  <2>0. Kept # <<>>
    BY <1>4, <1>5, <1>8, EmptySeq
  <2>1. /\ Tail(Kept) \in Seq(Entry) /\ Len(Tail(Kept)) = count - 1
        /\ \A i \in 1..(count - 1) : Tail(Kept)[i] = Kept[i + 1]
    BY <2>0, <1>5, HeadTailProperties
  <2>2. /\ Append(Tail(Kept), entry[t]) \in Seq(Entry)
        /\ Len(Append(Tail(Kept), entry[t])) = (count - 1) + 1
        /\ \A i \in 1..(count - 1) : Append(Tail(Kept), entry[t])[i] = Tail(Kept)[i]
        /\ Append(Tail(Kept), entry[t])[(count - 1) + 1] = entry[t]
    BY <2>1, <1>3, AppendProperties
  <2>3. (count - 1) + 1 = count
    BY <1>4
  <2>4. ASSUME NEW i \in 1..count
        PROVE  Kept'[i] = Append(Tail(Kept), entry[t])[i]
    <3>1. Kept'[i] = entries'[(tail + i) % S]
      BY <1>k, <1>8
    <3>2. CASE i = count
      BY <3>1, <3>2, <2>2, <2>3, <1>3, <1>6
    <3>3. CASE i \in 1..(count - 1)
      <4>1. i \in 0..S /\ count \in 0..S /\ i < count /\ count - i < S
            /\ i + 1 \in 1..count /\ (i + 1) - 1 = i
        BY <3>3, <1>4, <1>8
      <4>2. (tail + i) % S # head
        BY <4>1, <1>3, <1>4, SlotsApart
      <4>3. Kept'[i] = entries[(tail + i) % S]
        BY <4>1, <4>2, <3>1, <1>6
      <4>4. Kept[i + 1] = entries[(tail + ((i + 1) - 1)) % S]
        BY <4>1, <1>5
      <4> QED BY <4>1, <4>3, <4>4, <3>3, <2>1, <2>2
    <3>4. i = count \/ i \in 1..(count - 1)
      BY <1>4
    <3> QED BY <3>2, <3>3, <3>4
  <2>5. Kept' = Append(Tail(Kept), entry[t])
    BY <2>2, <2>3, <2>4, <1>k, <1>8, SeqEqual
  <2>6. ~(Len(Kept) < S)
    BY <1>4, <1>5, <1>8
  <2> QED BY <2>5, <2>6, <1>1, <1>3
<1> QED BY <1>4, <1>7, <1>8

(* Moving count or tail afterwards changes nothing of it. *)
LEMMA CountKeeps ==
  ASSUME LogInv, LogInv', NEW t \in Threads, Count(t)
  PROVE  Kept' = Kept
<1>0. LogTypes /\ LockInv /\ LockInv'
  BY DEF LogInv
<1>1. /\ pc[t] = "count" /\ pc'[t] = "file"
      /\ \A u \in Threads : u # t => pc'[u] = pc[u]
      /\ UNCHANGED entries
      /\ IF count < S THEN count' = count + 1 /\ tail' = tail
                      ELSE tail' = Following(tail) /\ count' = count
  BY <1>0, GoesFacts DEF Count, S
<1>2. Counting /\ ~Counting'
  BY <1>0, <1>1 DEF LockInv, InSection, Counting
<1>3. /\ Kept = IF count < S THEN Ring(tail, count + 1) ELSE Ring(Following(tail), count)
      /\ Kept' = Ring(tail, count)'
  BY <1>2 DEF Kept, Counting, S
<1>4. Ring(tail, count)' = Ring(tail', count')
  BY <1>1 DEF Ring
<1> QED BY <1>1, <1>3, <1>4

LEMMA RestLength == LogInv /\ ~Counting => Kept \in Seq(Entry) /\ Len(Kept) = count
BY KeptAtRest

LEMMA OpenEmpties ==
  ASSUME LogInv, LogInv', OpenLog
  PROVE  Kept' = <<>> /\ got' = got
<1>1. /\ UNCHANGED <<pc, got>> /\ count' = 0
      /\ \A t \in Threads : pc[t] = "idle"
  BY DEF OpenLog, LogInv, LockInv, locals
<1>2. ~Counting'
  BY <1>1 DEF Counting
<1>3. (LogInv /\ ~Counting => Kept \in Seq(Entry) /\ Len(Kept) = count)'
  BY RestLength, PTL
<1> QED BY <1>1, <1>2, <1>3, EmptySeq

(* A reader copies what the queue holds, from its front. *)
LEMMA CopyGives ==
  ASSUME LogInv, NEW t \in Threads, NEW n \in MaxEntries, Copy(t, n)
  PROVE  /\ Kept' = Kept
         /\ \E k \in 0..Len(Kept) :
              got' = [got EXCEPT ![t] = [i \in 1..k |-> Kept[i]]]
<1>0. LogTypes /\ LockInv
  BY DEF LogInv
<1>1. /\ pc[t] = "copy" /\ pc'[t] = "unlock"
      /\ \A u \in Threads : u # t => pc'[u] = pc[u]
      /\ UNCHANGED <<entries, head, tail, count>>
      /\ got' = [got EXCEPT ![t] = Ring(tail, Fewer(count, n))]
  BY <1>0, GoesFacts DEF Copy, ring
<1>2. ~Counting /\ ~Counting'
  BY <1>0, <1>1, AloneInSection DEF InSection, Counting
<1>3. /\ Len(Kept) = count
      /\ \A i \in 1..count : Kept[i] = entries[(tail + (i - 1)) % S]
  BY <1>2, KeptAtRest
<1>4. count \in Nat /\ tail \in Nat /\ n \in Nat
  BY <1>0, RingFacts, SizeFacts, LogConstants
<1>5. PICK k \in 0..count : k = Fewer(count, n)
  BY <1>4 DEF Fewer
<1>6. Ring(tail, k) = [i \in 1..k |-> Kept[i]]
  <2>1. \A i \in 1..k : Kept[i] = entries[(tail + i - 1) % SECC_LOG_BUFFER_SIZE]
    <3>1. \A i \in 1..k : i \in 1..count /\ tail + i - 1 = tail + (i - 1)
      BY <1>4, <1>5
    <3> QED BY <3>1, <1>3 DEF S
  <2> QED BY <2>1 DEF Ring
<1>7. Kept' = Kept
  BY <1>1, <1>2, KeptSame
<1> QED BY <1>1, <1>3, <1>5, <1>6, <1>7

(* A step of t that neither stores nor counts nor copies. *)
LEMMA AsideKeeps ==
  ASSUME LogInv, NEW t \in Threads,
         \/ BeginLog(t) \/ BeginRead(t) \/ LockForLog(t) \/ LockForRead(t)
         \/ WriteFile(t) \/ Unlock(t)
  PROVE  /\ Kept' = Kept
         /\ got' = got \/ got' = [got EXCEPT ![t] = <<>>]
<1>0. LogTypes
  BY DEF LogInv
<1>1. UNCHANGED <<entries, tail, count>> /\ (got' = got \/ got' = [got EXCEPT ![t] = <<>>])
  BY DEF BeginLog, BeginRead, LockForLog, LockForRead, WriteFile, Unlock, ring
<1>2. \/ Goes(t, "idle", "log") \/ Goes(t, "idle", "read") \/ Goes(t, "log", "store")
      \/ Goes(t, "read", "copy") \/ Goes(t, "file", "unlock") \/ Goes(t, "unlock", "idle")
  BY DEF BeginLog, BeginRead, LockForLog, LockForRead, WriteFile, Unlock
<1>3. /\ pc[t] # "count" /\ pc'[t] # "count"
      /\ \A u \in Threads : u # t => pc'[u] = pc[u]
  BY <1>0, <1>2, GoesFacts
<1>4. Counting' <=> Counting
  BY <1>3 DEF Counting
<1> QED BY <1>1, <1>4, KeptSame

LEMMA MainKeeps ==
  ASSUME UNCHANGED logVars \/ CloseLock \/ CloseFile \/ CloseDestroy \/ CloseClear
  PROVE  Kept' = Kept /\ UNCHANGED <<got, pc, entry, clock>>
<1>1. UNCHANGED <<entries, tail, count, pc, entry, got, clock>>
  BY DEF logVars, CloseLock, CloseFile, CloseDestroy, CloseClear, locals, ring
<1>2. Counting' <=> Counting
  BY <1>1 DEF Counting
<1> QED BY <1>1, <1>2, KeptSame

LEMMA QueueStep ==
  ASSUME LogInv, LogInv', [LogNext]_logVars
  PROVE  [Queue!Next]_(Queue!vars)
<1>1. CASE UNCHANGED logVars \/ CloseLock \/ CloseFile \/ CloseDestroy \/ CloseClear
  BY <1>1, MainKeeps DEF Queue!vars
<1>2. CASE OpenLog
  BY <1>2, OpenEmpties DEF Queue!Next, Queue!Restart
<1>3. ASSUME NEW t \in Threads, Store(t) PROVE Queue!Next
  BY <1>3, StoreAdds DEF Queue!Next, Queue!Add, S
<1>4. ASSUME NEW t \in Threads, Count(t) PROVE UNCHANGED Queue!vars
  BY <1>4, CountKeeps DEF Queue!vars, Count
<1>5. ASSUME NEW t \in Threads, NEW n \in MaxEntries, Copy(t, n) PROVE Queue!Next
  BY <1>5, CopyGives DEF Queue!Next, Queue!Give
<1>6. ASSUME NEW t \in Threads,
             \/ BeginLog(t) \/ BeginRead(t) \/ LockForLog(t) \/ LockForRead(t)
             \/ WriteFile(t) \/ Unlock(t)
      PROVE  [Queue!Next]_(Queue!vars)
  BY <1>6, AsideKeeps DEF Queue!vars, Queue!Next, Queue!Taken
<1> QED BY <1>1, <1>2, <1>3, <1>4, <1>5, <1>6 DEF LogNext, Log, Read

(* The ring of secc_log.c with its mutex is the queue that drops its       *)
(* oldest entry, for any threads, any size and any interleaving of calls.  *)
THEOREM LogImplementsQueue ==
  ASSUME QuietClose PROVE LogSpec => ImplementsQueue
<1>1. LogInit => Queue!Init
  <2> SUFFICES ASSUME LogInit PROVE Queue!Init
    OBVIOUS
  <2>1. LogInv /\ ~Counting
    BY InitTypes, InitLock, RingInit DEF LogInv, LogInit, Counting
  <2>2. Kept \in Seq(Entry) /\ Len(Kept) = 0
    BY <2>1, KeptAtRest DEF LogInit
  <2>3. Kept = <<>>
    BY <2>2, EmptySeq
  <2> QED BY <2>3 DEF LogInit, Queue!Init
<1>2. LogInv /\ LogInv' /\ [LogNext]_logVars => [Queue!Next]_(Queue!vars)
  BY QueueStep
<1>3. LogSpec => Queue!Spec
  BY <1>1, <1>2, LogInvariant, PTL DEF LogSpec, Queue!Spec
<1> QED BY <1>3 DEF ImplementsQueue

----------------------------------------------------------------------------
(* The order of one thread's entries.                                      *)

(* An entry on its way to the ring is newer than those of its thread there. *)
OrderInv ==
  /\ ThreadOrderKept
  /\ \A i \in DOMAIN Kept : Kept[i].timestamp_ms < clock
  /\ \A t \in Threads : pc[t] \in {"log", "store"} =>
       /\ entry[t].by = t /\ entry[t].timestamp_ms < clock
       /\ \A i \in DOMAIN Kept :
            Kept[i].by = t => Kept[i].timestamp_ms < entry[t].timestamp_ms

(* What a store leaves of the ring, and where it puts the entry. *)
LEMMA StoreShape ==
  ASSUME LogInv, LogInv', NEW t \in Threads, Store(t)
  PROVE  \E n \in Nat, d \in {0, 1} :
           /\ DOMAIN Kept' = 1..(n + 1) /\ Kept'[n + 1] = entry[t]
           /\ \A i \in 1..n : i + d \in DOMAIN Kept /\ Kept'[i] = Kept[i + d]
<1>1. /\ Kept \in Seq(Entry) /\ Len(Kept) \in Nat /\ DOMAIN Kept = 1..Len(Kept)
  BY KeptFacts
<1>2. /\ entry[t] \in Entry
      /\ Kept' = IF Len(Kept) < S THEN Append(Kept, entry[t])
                                  ELSE Append(Tail(Kept), entry[t])
  BY StoreAdds
<1>3. CASE Len(Kept) < S
  <2>1. Kept' = Append(Kept, entry[t])
    BY <1>2, <1>3
  <2>2. /\ DOMAIN Kept' = 1..(Len(Kept) + 1) /\ Kept'[Len(Kept) + 1] = entry[t]
        /\ \A i \in 1..Len(Kept) : i + 0 \in DOMAIN Kept /\ Kept'[i] = Kept[i + 0]
    <3>1. /\ Append(Kept, entry[t]) \in Seq(Entry)
          /\ Len(Append(Kept, entry[t])) = Len(Kept) + 1
          /\ \A i \in 1..Len(Kept) : Append(Kept, entry[t])[i] = Kept[i]
          /\ Append(Kept, entry[t])[Len(Kept) + 1] = entry[t]
      BY <1>1, <1>2, AppendProperties
    <3>2. DOMAIN Append(Kept, entry[t]) = 1..(Len(Kept) + 1)
      BY <3>1, LenProperties
    <3>3. \A i \in 1..Len(Kept) : i + 0 = i
      BY <1>1
    <3> QED BY <2>1, <3>1, <3>2, <3>3, <1>1
  <2> QED BY <2>2, <1>1
<1>4. CASE ~(Len(Kept) < S)
  <2>1. Kept' = Append(Tail(Kept), entry[t])
    BY <1>2, <1>4
  <2>2. Len(Kept) - 1 \in Nat /\ Kept # <<>>
    BY <1>1, <1>4, SizeFacts, EmptySeq
  <2>3. /\ Tail(Kept) \in Seq(Entry) /\ Len(Tail(Kept)) = Len(Kept) - 1
        /\ \A i \in 1..(Len(Kept) - 1) : Tail(Kept)[i] = Kept[i + 1]
    BY <2>2, <1>1, HeadTailProperties
  <2>4. /\ DOMAIN Kept' = 1..((Len(Kept) - 1) + 1)
        /\ Kept'[(Len(Kept) - 1) + 1] = entry[t]
        /\ \A i \in 1..(Len(Kept) - 1) : Kept'[i] = Tail(Kept)[i]
    <3>1. PICK q \in Seq(Entry) : q = Tail(Kept)
      BY <2>3
    <3>2. /\ Append(q, entry[t]) \in Seq(Entry)
          /\ Len(Append(q, entry[t])) = Len(q) + 1
          /\ \A i \in 1..Len(q) : Append(q, entry[t])[i] = q[i]
          /\ Append(q, entry[t])[Len(q) + 1] = entry[t]
      BY <3>1, <1>2, AppendProperties
    <3>3. DOMAIN Append(q, entry[t]) = 1..(Len(q) + 1)
      BY <3>2, LenProperties
    <3>4. Len(q) = Len(Kept) - 1
      BY <3>1, <2>3
    <3> QED BY <2>1, <3>1, <3>2, <3>3, <3>4
  <2>5. \A i \in 1..(Len(Kept) - 1) : i + 1 \in DOMAIN Kept /\ Kept'[i] = Kept[i + 1]
    BY <2>3, <2>4, <1>1, <2>2
  <2> QED BY <2>2, <2>4, <2>5
<1> QED BY <1>3, <1>4

LEMMA OrderStore ==
  ASSUME LogInv, LogInv', OrderInv, NEW t \in Threads, Store(t) PROVE OrderInv'
<1>0. LogTypes
  BY DEF LogInv
<1>1. PICK n \in Nat, d \in {0, 1} :
        /\ DOMAIN Kept' = 1..(n + 1) /\ Kept'[n + 1] = entry[t]
        /\ \A i \in 1..n : i + d \in DOMAIN Kept /\ Kept'[i] = Kept[i + d]
  BY StoreShape
<1>2. /\ pc[t] = "store" /\ pc'[t] = "count"
      /\ \A u \in Threads : u # t => pc'[u] = pc[u]
      /\ entry' = entry /\ clock' = clock
  BY <1>0, GoesFacts DEF Store
<1>3. /\ entry[t].by = t /\ entry[t].timestamp_ms < clock
      /\ \A i \in DOMAIN Kept :
           Kept[i].by = t => Kept[i].timestamp_ms < entry[t].timestamp_ms
  BY <1>2 DEF OrderInv
<1>4. \A i \in DOMAIN Kept' : i = n + 1 \/ i \in 1..n
  BY <1>1
<1>5. ThreadOrderKept'
  <2> SUFFICES ASSUME NEW i \in DOMAIN Kept', NEW j \in DOMAIN Kept',
                      i < j, Kept'[i].by = Kept'[j].by
               PROVE  Kept'[i].timestamp_ms < Kept'[j].timestamp_ms
    BY DEF ThreadOrderKept
  <2>1. i \in 1..n /\ i + d \in DOMAIN Kept /\ Kept'[i] = Kept[i + d]
    <3>1. i \in 1..n
      BY <1>1
    <3> QED BY <3>1, <1>1
  <2>2. CASE j = n + 1
    BY <2>1, <2>2, <1>1, <1>3
  <2>3. CASE j \in 1..n
    <3>1. j + d \in DOMAIN Kept /\ Kept'[j] = Kept[j + d] /\ i + d < j + d
      BY <2>1, <2>3, <1>1
    <3> QED BY <3>1, <2>1 DEF OrderInv, ThreadOrderKept
  <2> QED BY <2>2, <2>3, <1>4
<1>6. \A i \in DOMAIN Kept' : Kept'[i].timestamp_ms < clock
  BY <1>1, <1>3, <1>4 DEF OrderInv
<1>7. ASSUME NEW u \in Threads, pc'[u] \in {"log", "store"}
      PROVE  /\ entry[u].by = u /\ entry[u].timestamp_ms < clock
             /\ \A i \in DOMAIN Kept' :
                  Kept'[i].by = u => Kept'[i].timestamp_ms < entry[u].timestamp_ms
  <2>1. u # t /\ pc[u] \in {"log", "store"}
    BY <1>2, <1>7
  <2>2. /\ entry[u].by = u /\ entry[u].timestamp_ms < clock
        /\ \A i \in DOMAIN Kept :
             Kept[i].by = u => Kept[i].timestamp_ms < entry[u].timestamp_ms
    BY <2>1 DEF OrderInv
  <2> QED BY <2>1, <2>2, <1>1, <1>3, <1>4
<1> QED BY <1>2, <1>5, <1>6, <1>7 DEF OrderInv

LEMMA OrderBegin ==
  ASSUME LogInv, OrderInv, NEW t \in Threads, BeginLog(t) PROVE OrderInv'
<1>0. LogTypes
  BY DEF LogInv
<1>1. Kept' = Kept
  BY AsideKeeps
<1>2. /\ clock' = clock + 1 /\ clock \in Nat
      /\ entry' = [entry EXCEPT ![t] = [by |-> t, timestamp_ms |-> clock]]
      /\ pc'[t] = "log" /\ \A u \in Threads : u # t => pc'[u] = pc[u]
  BY <1>0, GoesFacts, LogConstants DEF BeginLog, LogTypes
<1>3. /\ entry'[t].by = t /\ entry'[t].timestamp_ms = clock
      /\ \A u \in Threads : u # t => entry'[u] = entry[u]
  BY <1>0, <1>2 DEF LogTypes
<1>4. \A i \in DOMAIN Kept : Kept[i].timestamp_ms \in Nat
  BY KeptFacts, LogConstants DEF Entry
<1>5. \A i \in DOMAIN Kept : Kept[i].timestamp_ms < clock'
  BY <1>2, <1>4 DEF OrderInv
<1>6. ASSUME NEW u \in Threads, pc'[u] \in {"log", "store"}
      PROVE  /\ entry'[u].by = u /\ entry'[u].timestamp_ms < clock'
             /\ \A i \in DOMAIN Kept :
                  Kept[i].by = u => Kept[i].timestamp_ms < entry'[u].timestamp_ms
  <2>1. CASE u = t
    BY <2>1, <1>2, <1>3 DEF OrderInv
  <2>2. CASE u # t
    <3>1. entry'[u] = entry[u] /\ pc[u] \in {"log", "store"}
      BY <2>2, <1>2, <1>3, <1>6
    <3>2. entry[u] \in Entry
      BY <3>1 DEF LogInv, RingInv, OrderInv
    <3>3. entry[u].timestamp_ms \in Nat
      BY <3>2, LogConstants DEF Entry
    <3> QED BY <3>1, <3>3, <1>2 DEF OrderInv
  <2> QED BY <2>1, <2>2
<1> QED BY <1>1, <1>5, <1>6 DEF OrderInv, ThreadOrderKept

(* Steps that add nothing to the ring and stamp nothing. *)
LEMMA OrderAside ==
  ASSUME OrderInv, Kept' = Kept, clock' = clock,
         \A t \in Threads : pc'[t] \in {"log", "store"} =>
           pc[t] \in {"log", "store"} /\ entry'[t] = entry[t]
  PROVE  OrderInv'
BY DEF OrderInv, ThreadOrderKept

LEMMA OrderNext ==
  ASSUME LogInv, LogInv', OrderInv, [LogNext]_logVars PROVE OrderInv'
<1>0. LogTypes /\ LockInv
  BY DEF LogInv
<1>1. CASE UNCHANGED logVars \/ CloseLock \/ CloseFile \/ CloseDestroy \/ CloseClear
  BY <1>1, MainKeeps, OrderAside
<1>2. CASE OpenLog
  <2>1. Kept' = <<>> /\ pc' = pc /\ \A t \in Threads : pc[t] = "idle"
    BY <1>0, <1>2, OpenEmpties DEF OpenLog, LockInv, locals
  <2> QED BY <2>1, EmptySeq DEF OrderInv, ThreadOrderKept
<1>3. ASSUME NEW t \in Threads, Store(t) PROVE OrderInv'
  BY <1>3, OrderStore
<1>4. ASSUME NEW t \in Threads, BeginLog(t) PROVE OrderInv'
  BY <1>4, OrderBegin
<1>5. ASSUME NEW t \in Threads, Count(t) PROVE OrderInv'
  <2>1. /\ Kept' = Kept /\ clock' = clock /\ entry' = entry /\ pc'[t] = "file"
        /\ \A u \in Threads : u # t => pc'[u] = pc[u]
    BY <1>0, <1>5, CountKeeps, GoesFacts DEF Count
  <2> QED BY <2>1, OrderAside
<1>6. ASSUME NEW t \in Threads, NEW n \in MaxEntries, Copy(t, n) PROVE OrderInv'
  <2>1. /\ Kept' = Kept /\ clock' = clock /\ entry' = entry /\ pc'[t] = "unlock"
        /\ \A u \in Threads : u # t => pc'[u] = pc[u]
    BY <1>0, <1>6, CopyGives, GoesFacts DEF Copy
  <2> QED BY <2>1, OrderAside
<1>7. ASSUME NEW t \in Threads, LockForLog(t) PROVE OrderInv'
  <2>1. /\ Kept' = Kept /\ clock' = clock /\ entry' = entry /\ pc[t] = "log"
        /\ \A u \in Threads : u # t => pc'[u] = pc[u]
    BY <1>0, <1>7, AsideKeeps, GoesFacts DEF LockForLog
  <2> QED BY <2>1, OrderAside
<1>8. ASSUME NEW t \in Threads,
             BeginRead(t) \/ LockForRead(t) \/ WriteFile(t) \/ Unlock(t)
      PROVE  OrderInv'
  <2>1. Kept' = Kept
    BY <1>8, AsideKeeps
  <2>2. \/ Goes(t, "idle", "read") \/ Goes(t, "read", "copy")
        \/ Goes(t, "file", "unlock") \/ Goes(t, "unlock", "idle")
    BY <1>8 DEF BeginRead, LockForRead, WriteFile, Unlock
  <2>3. /\ pc'[t] \notin {"log", "store"}
        /\ \A u \in Threads : u # t => pc'[u] = pc[u]
    BY <1>0, <2>2, GoesFacts
  <2>4. clock' = clock /\ \A u \in Threads : u # t => entry'[u] = entry[u]
    BY <1>0, <1>8 DEF BeginRead, LockForRead, WriteFile, Unlock, LogTypes
  <2> QED BY <2>1, <2>3, <2>4, OrderAside
<1> QED BY <1>1, <1>2, <1>3, <1>4, <1>5, <1>6, <1>7, <1>8 DEF LogNext, Log, Read

(* One thread's entries are read back in the order of its calls, although  *)
(* their time stamps are taken before the mutex is.                        *)
THEOREM ThreadOrderCorrect ==
  ASSUME QuietClose PROVE LogSpec => []ThreadOrderKept
<1>1. LogInit => OrderInv
  <2> SUFFICES ASSUME LogInit PROVE OrderInv
    OBVIOUS
  <2>1. LogInv /\ ~Counting
    BY InitTypes, InitLock, RingInit DEF LogInv, LogInit, Counting
  <2>2. Kept \in Seq(Entry) /\ Len(Kept) = 0
    BY <2>1, KeptAtRest DEF LogInit
  <2>3. Kept = <<>>
    BY <2>2, EmptySeq
  <2> QED BY <2>3, EmptySeq DEF LogInit, OrderInv, ThreadOrderKept
<1>2. LogInv /\ LogInv' /\ OrderInv /\ [LogNext]_logVars => OrderInv'
  BY OrderNext
<1>3. OrderInv => ThreadOrderKept
  BY DEF OrderInv
<1> QED BY <1>1, <1>2, <1>3, LogInvariant, PTL DEF LogSpec

----------------------------------------------------------------------------
(* What the file and the readers hold.                                     *)

OutTypes == file \in Seq(Tokens) /\ got \in [Threads -> Seq(Entry)]

LEMMA MarkToken == \A m \in {"[", ",", "]"} : Mark(m) \in Tokens
BY DEF Mark, Tokens

LEMMA OneMore ==
  ASSUME NEW q \in Seq(Tokens), NEW e \in Tokens
  PROVE  /\ Append(q, e) \in Seq(Tokens) /\ q \o <<e>> \in Seq(Tokens)
         /\ <<e>> \in Seq(Tokens) /\ q \o <<>> = q
<1>1. <<>> \in Seq(Tokens) /\ Append(q, e) \in Seq(Tokens)
  BY EmptySeq, AppendProperties
<1>2. <<e>> \in Seq(Tokens)
  OBVIOUS
<1> QED BY <1>1, <1>2, ConcatProperties, ConcatEmptySeq

LEMMA FileNext ==
  ASSUME LogInv, OutTypes, [LogNext]_logVars PROVE file' \in Seq(Tokens)
<1>0. file \in Seq(Tokens)
  BY DEF OutTypes
<1>1. CASE OpenLog
  <2>1. Mark("[") \in Tokens /\ file' \in {file, <<Mark("[")>>}
    BY <1>1, MarkToken DEF OpenLog
  <2> QED BY <2>1, <1>0, OneMore
<1>2. CASE CloseFile
  <2>1. Mark("]") \in Tokens /\ file' = Append(file, Mark("]"))
    BY <1>2, MarkToken DEF CloseFile
  <2> QED BY <2>1, <1>0, OneMore
<1>3. ASSUME NEW t \in Threads, WriteFile(t) PROVE file' \in Seq(Tokens)
  <2>1. Item(entry[t]) \in Tokens
    BY <1>3 DEF WriteFile, Goes, LogInv, RingInv, Item, Tokens
  <2>2. file' \in {file, (file \o <<>>) \o <<Item(entry[t])>>,
                   (file \o <<Mark(",")>>) \o <<Item(entry[t])>>}
    BY <1>3 DEF WriteFile
  <2>3. file \o <<>> \in Seq(Tokens) /\ file \o <<Mark(",")>> \in Seq(Tokens)
    BY <1>0, MarkToken, OneMore
  <2> QED BY <2>1, <2>2, <2>3, <1>0, OneMore
<1>4. CASE UNCHANGED file
  BY <1>4 DEF OutTypes
<1> QED BY <1>1, <1>2, <1>3, <1>4
        DEF LogNext, Log, Read, CloseLock, CloseDestroy, CloseClear, BeginLog, LockForLog,
            Store,
            Count, Unlock, BeginRead, LockForRead, Copy, logVars

LEMMA GotNext ==
  ASSUME LogInv, LogInv', OutTypes, [LogNext]_logVars
  PROVE  got' \in [Threads -> Seq(Entry)]
<1>1. CASE UNCHANGED got
  BY <1>1 DEF OutTypes
<1>2. ASSUME NEW t \in Threads, NEW n \in MaxEntries, Copy(t, n)
      PROVE  got' \in [Threads -> Seq(Entry)]
  <2>1. PICK k \in 0..Len(Kept) : got' = [got EXCEPT ![t] = [i \in 1..k |-> Kept[i]]]
    BY <1>2, CopyGives
  <2>2. [i \in 1..k |-> Kept[i]] \in Seq(Entry)
    <3>1. k \in Nat /\ \A i \in 1..k : Kept[i] \in Entry
      BY <2>1, KeptFacts
    <3> QED BY <3>1, IsASeq
  <2> QED BY <2>1, <2>2 DEF OutTypes
<1>3. ASSUME NEW t \in Threads, Unlock(t) PROVE got' \in [Threads -> Seq(Entry)]
  <2>1. <<>> \in Seq(Entry)
    BY EmptySeq
  <2> QED BY <1>3, <2>1 DEF Unlock, OutTypes
<1> QED BY <1>1, <1>2, <1>3
        DEF LogNext, Log, Read, OpenLog, CloseLock, CloseFile, CloseDestroy, CloseClear,
            BeginLog, LockForLog, Store, Count, WriteFile, BeginRead, LockForRead, logVars, locals

LEMMA OutInvariant ==
  ASSUME QuietClose PROVE LogSpec => []OutTypes
<1>1. LogInit => OutTypes
  BY EmptySeq DEF LogInit, OutTypes
<1>2. LogInv /\ LogInv' /\ OutTypes /\ [LogNext]_logVars => OutTypes'
  BY FileNext, GotNext DEF OutTypes
<1> QED BY <1>1, <1>2, LogInvariant, PTL DEF LogSpec

(* Every variable keeps its type: no index leaves the ring's array and the *)
(* count never exceeds its length.                                         *)
THEOREM LogTypeCorrect ==
  ASSUME QuietClose PROVE LogSpec => []LogTypeOK
<1>1. LogInv /\ OutTypes => LogTypeOK
  <2> SUFFICES ASSUME LogInv, OutTypes PROVE LogTypeOK
    OBVIOUS
  <2>1. clock \in Nat
    BY LogConstants DEF LogInv, LogTypes
  <2>2. file \in Seq([mark : {"[", ",", "]", "entry"}, item : Entry \cup {None}])
        /\ got \in [Threads -> Seq(Entry)]
    BY Zenon DEF OutTypes, Tokens
  <2> QED BY Zenon, <2>1, <2>2 DEF LogInv, LogTypes, LogTypeOK, S
<1> QED BY <1>1, LogInvariant, OutInvariant, PTL

----------------------------------------------------------------------------
(* The ring holds the end of the file.                                     *)

Written == INSTANCE FoldTheorems WITH Op <- Collect

LEMMA EntriesIsFold ==
  ASSUME NEW f \in Seq(Tokens)
  PROVE  EntriesOf(f) = Written!Fold(<<>>, f)
<1>1. PICK n \in Nat : DOMAIN f = 1..n
  OBVIOUS
<1> QED BY <1>1 DEF EntriesOf, FoldLeft, MapThenFoldSet, Max, Written!Fold, Written!FoldLeft,
                    Written!MapThenFoldSet, Written!Max

(* Entries add to what a file holds of them, marks do not. *)
LEMMA EntriesFacts ==
  ASSUME NEW f \in Seq(Tokens)
  PROVE  /\ EntriesOf(<<>>) = <<>>
         /\ \A e : Item(e) \in Tokens => EntriesOf(Append(f, Item(e))) = Append(EntriesOf(f), e)
         /\ \A m \in {"[", ",", "]"} : EntriesOf(Append(f, Mark(m))) = EntriesOf(f)
<1>1. EntriesOf(<<>>) = <<>>
  <2>1. <<>> \in Seq(Tokens)
    BY EmptySeq
  <2> QED BY <2>1, EntriesIsFold, Written!FoldOfEmpty
<1>2. ASSUME NEW x \in Tokens PROVE EntriesOf(Append(f, x)) = Collect(EntriesOf(f), x)
  <2>1. Append(f, x) \in Seq(Tokens)
    BY AppendProperties
  <2>2. Written!Fold(<<>>, Append(f, x)) = Collect(Written!Fold(<<>>, f), x)
    BY Written!FoldOfAppend
  <2> QED BY <2>1, <2>2, EntriesIsFold
<1>3. ASSUME NEW e, Item(e) \in Tokens
      PROVE  EntriesOf(Append(f, Item(e))) = Append(EntriesOf(f), e)
  BY <1>2, <1>3 DEF Collect, IsItem, Item
<1>4. ASSUME NEW m \in {"[", ",", "]"} PROVE EntriesOf(Append(f, Mark(m))) = EntriesOf(f)
  <2>1. Mark(m) \in Tokens
    BY MarkToken
  <2> QED BY <1>2, <2>1 DEF Collect, IsItem, Mark
<1> QED BY <1>1, <1>3, <1>4

(* A call that writes finds the file open. *)
LEMMA WriteAppends ==
  ASSUME LogInv, OutTypes, NEW t \in Threads, WriteFile(t)
  PROVE  /\ Item(entry[t]) \in Tokens /\ entry[t] \in Entry /\ mainPc = "up"
         /\ first' = FALSE
         /\ file' = Append(IF first THEN file ELSE Append(file, Mark(",")), Item(entry[t]))
<1>1. pc[t] = "file" /\ mainPc = "up" /\ FileOpen
  BY BusyMeansUp DEF WriteFile, Goes, LogInv, FileOpen
<1>2. Item(entry[t]) \in Tokens /\ entry[t] \in Entry /\ Mark(",") \in Tokens
  BY <1>1, MarkToken DEF LogInv, RingInv, Item, Tokens
<1>3. file' = (file \o (IF first THEN <<>> ELSE <<Mark(",")>>)) \o <<Item(entry[t])>>
      /\ first' = FALSE
  BY <1>1 DEF WriteFile
<1>4. PICK f \in Seq(Tokens) :
        /\ f = file \o (IF first THEN <<>> ELSE <<Mark(",")>>)
        /\ f = IF first THEN file ELSE Append(file, Mark(","))
  <2>1. /\ file \in Seq(Tokens) /\ file \o <<>> = file
        /\ Append(file, Mark(",")) \in Seq(Tokens)
        /\ Append(file, Mark(",")) = file \o <<Mark(",")>>
    BY <1>2, OneMore, AppendIsConcat DEF OutTypes
  <2> QED BY <2>1
<1>5. f \o <<Item(entry[t])>> = Append(f, Item(entry[t]))
  BY <1>2, AppendIsConcat
<1> QED BY <1>1, <1>2, <1>3, <1>4, <1>5

(* q is the end of w, as much of it as the ring can hold. *)
Ends(q, w) ==
  /\ Len(q) = Fewer(Len(w), S)
  /\ \A i \in 1..Len(q) : q[i] = w[Len(w) - Len(q) + i]

LEMMA EndsAdd ==
  ASSUME NEW E, NEW q \in Seq(E), NEW w \in Seq(E), NEW e \in E, Ends(q, w)
  PROVE  Ends(IF Len(q) < S THEN Append(q, e) ELSE Append(Tail(q), e), Append(w, e))
<1>1. PICK s \in Nat, k \in Nat, n \in Nat :
        s = S /\ s > 0 /\ k = Len(q) /\ n = Len(w) /\ k <= n /\ k <= s
        /\ (k < s => k = n) /\ (~(k < s) => k = s)
  <2>1. PICK s \in Nat, k \in Nat, n \in Nat : s = S /\ s > 0 /\ k = Len(q) /\ n = Len(w)
    BY SizeFacts, LenProperties
  <2>2. k = IF n < s THEN n ELSE s
    BY <2>1 DEF Ends, Fewer
  <2>3. /\ k <= n /\ k <= s
        /\ (k < s => k = n) /\ (~(k < s) => k = s)
    BY <2>1, <2>2
  <2> QED BY <2>1, <2>3
<1>2. \A i \in 1..k : q[i] = w[n - k + i]
  BY <1>1 DEF Ends
<1>3. /\ Len(Append(w, e)) = n + 1
      /\ \A i \in 1..n : Append(w, e)[i] = w[i]
      /\ Append(w, e)[n + 1] = e
  BY <1>1, AppendProperties
<1>4. CASE k < s
  <2>1. /\ Len(Append(q, e)) = k + 1
        /\ \A i \in 1..k : Append(q, e)[i] = q[i]
        /\ Append(q, e)[k + 1] = e
    BY <1>1, AppendProperties
  <2>2. k + 1 = Fewer(n + 1, s) /\ k = n /\ (n + 1) - (k + 1) = 0
    BY <1>1, <1>4 DEF Fewer
  <2>3. ASSUME NEW i \in 1..(k + 1)
        PROVE  Append(q, e)[i] = Append(w, e)[(n + 1) - (k + 1) + i]
    <3>1. (n + 1) - (k + 1) + i = i /\ n - k + i = i /\ (i \in 1..k \/ i = k + 1)
      BY <2>2
    <3> QED BY <1>2, <1>3, <2>1, <2>2, <3>1
  <2> QED BY <1>1, <1>3, <1>4, <2>1, <2>2, <2>3 DEF Ends
<1>5. CASE ~(k < s)
  <2>1. k = s /\ q # <<>>
    BY <1>1, <1>5, EmptySeq
  <2>2. /\ Tail(q) \in Seq(E) /\ Len(Tail(q)) = k - 1
        /\ \A i \in 1..(k - 1) : Tail(q)[i] = q[i + 1]
    BY <1>1, <2>1, HeadTailProperties
  <2>3. /\ Len(Append(Tail(q), e)) = (k - 1) + 1
        /\ \A i \in 1..(k - 1) : Append(Tail(q), e)[i] = Tail(q)[i]
        /\ Append(Tail(q), e)[(k - 1) + 1] = e
    BY <2>2, AppendProperties
  <2>4. (k - 1) + 1 = k /\ k = Fewer(n + 1, s)
    BY <1>1, <2>1 DEF Fewer
  <2>5. ASSUME NEW i \in 1..k
        PROVE  Append(Tail(q), e)[i] = Append(w, e)[(n + 1) - k + i]
    <3>1. CASE i = k
      <4>1. (n + 1) - k + i = n + 1
        BY <1>1, <3>1
      <4> QED BY <1>3, <2>3, <2>4, <3>1, <4>1
    <3>2. CASE i \in 1..(k - 1)
      <4>1. i + 1 \in 1..k /\ (n + 1) - k + i = n - k + (i + 1) /\ n - k + (i + 1) \in 1..n
        BY <1>1, <3>2
      <4> QED BY <1>2, <1>3, <2>2, <2>3, <3>2, <4>1
    <3>3. i = k \/ i \in 1..(k - 1)
      OBVIOUS
    <3> QED BY <3>1, <3>2, <3>3
  <2> QED BY <1>1, <1>3, <1>5, <2>3, <2>4, <2>5 DEF Ends
<1> QED BY <1>4, <1>5

LEMMA EndsIsEnd ==
  ASSUME NEW E, NEW q \in Seq(E), NEW w \in Seq(E), Ends(q, w)
  PROVE  q = SubSeq(w, Len(w) - Len(q) + 1, Len(w))
<1>1. PICK k \in Nat, n \in Nat : k = Len(q) /\ n = Len(w) /\ k <= n
  BY SizeFacts, LenProperties DEF Ends, Fewer
<1>2. n - k + 1 \in Int /\ \A i \in (n - k + 1)..n : w[i] \in E
  BY <1>1, ElementOfSeq
<1>3. /\ SubSeq(w, n - k + 1, n) \in Seq(E)
      /\ Len(SubSeq(w, n - k + 1, n)) = k
      /\ \A i \in 1..k : SubSeq(w, n - k + 1, n)[i] = w[n - k + i]
  <2>1. /\ SubSeq(w, n - k + 1, n) \in Seq(E)
        /\ Len(SubSeq(w, n - k + 1, n)) =
              IF n - k + 1 <= n THEN n - (n - k + 1) + 1 ELSE 0
        /\ \A i \in 1..(n - (n - k + 1) + 1) :
              SubSeq(w, n - k + 1, n)[i] = w[(n - k + 1) + i - 1]
    BY <1>2, SubSeqProperties
  <2>2. n - (n - k + 1) + 1 = k /\ (IF n - k + 1 <= n THEN k ELSE 0) = k
    OBVIOUS
  <2>3. \A i \in 1..k : (n - k + 1) + i - 1 = n - k + i
    OBVIOUS
  <2> QED BY <2>1, <2>2, <2>3
<1>4. \A i \in 1..k : q[i] = w[n - k + i]
  BY <1>1 DEF Ends
<1>5. \A i \in 1..k : q[i] = SubSeq(w, n - k + 1, n)[i]
  BY <1>3, <1>4
<1> QED BY <1>1, <1>3, <1>5, SeqEqual

(* An entry that is in the ring and not yet in the file. *)
Storing(t) == pc[t] \in {"count", "file"}

EndInv ==
  /\ Logged \in Seq(Entry)
  /\ mainPc # "down" =>
       /\ (\A t \in Threads : ~Storing(t)) => Ends(Kept, Logged)
       /\ \A t \in Threads : Storing(t) => Ends(Kept, Append(Logged, entry[t]))

LEMMA EndKept ==
  ASSUME EndInv, Logged' = Logged, Kept' = Kept, mainPc' # "down" => mainPc # "down",
         \A t \in Threads : /\ Storing(t)' <=> Storing(t)
                            /\ Storing(t) => entry'[t] = entry[t]
  PROVE  EndInv'
BY DEF EndInv

(* The thread in the section is the only one that can be storing. *)
LEMMA StoringAlone ==
  ASSUME LockInv, NEW t \in Threads, InSection(t)
  PROVE  \A u \in Threads : Storing(u) => u = t
BY DEF LockInv, InSection, Storing

LEMMA EndOpen ==
  ASSUME LogInv, LogInv', OutTypes, EndInv, OpenLog PROVE EndInv'
<1>1. Kept' = <<>> /\ \A t \in Threads : ~Storing(t)'
  BY OpenEmpties DEF OpenLog, LogInv, LockInv, locals, Storing
<1>2. CASE file' = <<Mark("[")>>
  <2>1. <<>> \in Seq(Tokens) /\ <<Mark("[")>> = Append(<<>>, Mark("["))
    BY EmptySeq
  <2>2. Logged' = <<>>
    BY <1>2, <2>1, EntriesFacts DEF Logged
  <2>3. <<>> \in Seq(Entry) /\ Len(<<>>) = 0 /\ 1..0 = {}
    BY EmptySeq
  <2>4. Ends(<<>>, <<>>)
    BY <2>3, SizeFacts DEF Ends, Fewer
  <2> QED BY <1>1, <2>2, <2>3, <2>4 DEF EndInv
<1>3. CASE file' = file /\ mainPc' = "down"
  BY <1>3 DEF EndInv, Logged
<1> QED BY <1>2, <1>3 DEF OpenLog

LEMMA EndMain ==
  ASSUME OutTypes, EndInv,
         UNCHANGED logVars \/ CloseLock \/ CloseFile \/ CloseDestroy \/ CloseClear
  PROVE  EndInv'
<1>1. Kept' = Kept /\ UNCHANGED <<pc, entry>>
  BY MainKeeps
<1>2. Logged' = Logged
  <2>1. CASE CloseFile
    <3>1. file' = Append(file, Mark("]")) /\ file \in Seq(Tokens)
      BY <2>1 DEF CloseFile, OutTypes
    <3> QED BY <3>1, EntriesFacts DEF Logged
  <2>2. CASE file' = file
    BY <2>2 DEF Logged
  <2> QED BY <2>1, <2>2 DEF logVars, CloseLock, CloseDestroy, CloseClear
<1>3. mainPc' # "down" => mainPc # "down"
  BY DEF logVars, CloseLock, CloseFile, CloseDestroy, CloseClear
<1> QED BY <1>1, <1>2, <1>3, EndKept DEF Storing

LEMMA EndStore ==
  ASSUME LogInv, LogInv', EndInv, NEW t \in Threads, Store(t) PROVE EndInv'
<1>0. LogTypes /\ LockInv /\ LockInv'
  BY DEF LogInv
<1>1. /\ pc[t] = "store" /\ pc'[t] = "count" /\ file' = file /\ entry' = entry
      /\ UNCHANGED mainPc
  BY <1>0, GoesFacts DEF Store
<1>2. mainPc = "up" /\ InSection(t) /\ InSection(t)'
  BY <1>0, <1>1, BusyMeansUp DEF InSection
<1>3. /\ \A u \in Threads : ~Storing(u)
      /\ \A u \in Threads : Storing(u)' => u = t
      /\ Storing(t)'
  BY <1>0, <1>1, <1>2 DEF LockInv, InSection, Storing
<1>4. Ends(Kept, Logged) /\ Logged \in Seq(Entry) /\ Kept \in Seq(Entry)
  BY <1>2, <1>3, KeptFacts DEF EndInv
<1>5. Ends(Kept', Append(Logged, entry[t]))
  BY <1>4, StoreAdds, EndsAdd
<1>6. Logged' = Logged
  BY <1>1 DEF Logged
<1> QED BY <1>1, <1>3, <1>4, <1>5, <1>6 DEF EndInv

LEMMA EndWrite ==
  ASSUME LogInv, LogInv', OutTypes, EndInv, NEW t \in Threads, WriteFile(t)
  PROVE  EndInv'
<1>0. LogTypes /\ LockInv /\ LockInv'
  BY DEF LogInv
<1>1. /\ pc[t] = "file" /\ pc'[t] = "unlock" /\ entry' = entry /\ mainPc' = mainPc
  BY <1>0, GoesFacts DEF WriteFile
<1>2. InSection(t) /\ InSection(t)' /\ Storing(t)
  BY <1>1 DEF InSection, Storing
<1>3. \A u \in Threads : ~Storing(u)'
  BY <1>0, <1>1, <1>2 DEF LockInv, InSection, Storing
<1>4. Logged' = Append(Logged, entry[t])
  <2>1. /\ file \in Seq(Tokens) /\ Mark(",") \in Tokens /\ Item(entry[t]) \in Tokens
        /\ Append(file, Mark(",")) \in Seq(Tokens)
    BY MarkToken, WriteAppends, AppendProperties DEF OutTypes
  <2>2. PICK f \in Seq(Tokens) : /\ f = IF first THEN file ELSE Append(file, Mark(","))
                                 /\ file' = Append(f, Item(entry[t]))
    BY <2>1, WriteAppends
  <2>3. EntriesOf(f) = EntriesOf(file)
    BY <2>1, <2>2, EntriesFacts
  <2>4. EntriesOf(file') = Append(EntriesOf(f), entry[t])
    BY <2>1, <2>2, EntriesFacts
  <2> QED BY <2>3, <2>4 DEF Logged
<1>5. Kept' = Kept /\ mainPc = "up" /\ entry[t] \in Entry
  BY AsideKeeps, WriteAppends
<1>6. Ends(Kept, Append(Logged, entry[t])) /\ Append(Logged, entry[t]) \in Seq(Entry)
  BY <1>2, <1>5, AppendProperties DEF EndInv
<1> QED BY <1>3, <1>4, <1>5, <1>6 DEF EndInv

(* The steps that change neither the file nor what the ring keeps. *)
LEMMA EndAside ==
  ASSUME LogInv, LogInv', EndInv, NEW t \in Threads,
         \/ BeginLog(t) \/ BeginRead(t) \/ LockForLog(t) \/ LockForRead(t)
         \/ Count(t) \/ Unlock(t) \/ \E n \in MaxEntries : Copy(t, n)
  PROVE  EndInv'
<1>0. LogTypes
  BY DEF LogInv
<1>1. Kept' = Kept
  BY AsideKeeps, CountKeeps, CopyGives
<1>2. UNCHANGED <<file, mainPc>>
  BY DEF BeginLog, BeginRead, LockForLog, LockForRead, Count, Unlock, Copy
<1>3. \/ Goes(t, "idle", "log") \/ Goes(t, "idle", "read") \/ Goes(t, "log", "store")
      \/ Goes(t, "read", "copy") \/ Goes(t, "count", "file") \/ Goes(t, "copy", "unlock")
      \/ Goes(t, "unlock", "idle")
  BY DEF BeginLog, BeginRead, LockForLog, LockForRead, Count, Unlock, Copy
<1>4. /\ \A u \in Threads : u # t => pc'[u] = pc[u]
      /\ Storing(t)' <=> Storing(t)
  BY <1>0, <1>3, GoesFacts DEF Storing
<1>5. \A u \in Threads : Storing(u)' <=> Storing(u)
  BY <1>4 DEF Storing
<1>6. ASSUME NEW u \in Threads, Storing(u) PROVE entry'[u] = entry[u]
  <2>1. entry' = entry \/ (u # t /\ \E x : entry' = [entry EXCEPT ![t] = x])
    BY <1>6 DEF BeginLog, BeginRead, LockForLog, LockForRead, Count, Unlock, Copy, Storing,
                Goes
  <2> QED BY <2>1, <1>0 DEF LogTypes
<1>7. Logged' = Logged
  BY <1>2 DEF Logged
<1> QED BY <1>1, <1>2, <1>5, <1>6, <1>7, EndKept

(* What a reader has copied is still the front of what the ring keeps when *)
(* it unlocks, because nobody stores between its copy and its unlock.      *)
FrontOf(f, q) == \E k \in 0..Len(q) : f = [i \in 1..k |-> q[i]]

GotInv ==
  \A t \in Threads : got[t] # <<>> => pc[t] = "unlock" /\ FrontOf(got[t], Kept)

LEMMA GotKept ==
  ASSUME GotInv, Kept' = Kept, NEW t \in Threads,
         \A u \in Threads : u # t => pc'[u] = pc[u] /\ got'[u] = got[u],
         got'[t] = <<>> \/ (got'[t] = got[t] /\ pc[t] # "unlock")
  PROVE  GotInv'
<1> SUFFICES ASSUME NEW u \in Threads, got'[u] # <<>>
             PROVE  pc'[u] = "unlock" /\ FrontOf(got'[u], Kept)
  BY DEF GotInv
<1>1. u # t
  BY DEF GotInv
<1> QED BY <1>1 DEF GotInv

(* When nobody is about to unlock, nobody has copied anything.             *)
LEMMA GotNothing ==
  ASSUME GotInv, got' = got, \A u \in Threads : pc[u] # "unlock"
  PROVE  GotInv'
BY DEF GotInv

LEMMA GotCopied ==
  ASSUME LogInv, OutTypes, GotInv, NEW t \in Threads, NEW n \in MaxEntries, Copy(t, n)
  PROVE  GotInv'
<1>1. /\ pc[t] = "copy" /\ pc'[t] = "unlock"
      /\ \A u \in Threads : u # t => pc'[u] = pc[u]
  BY GoesFacts DEF Copy, LogInv
<1>2. Kept' = Kept
  BY CopyGives
<1>3. PICK k \in 0..Len(Kept) : got' = [got EXCEPT ![t] = [i \in 1..k |-> Kept[i]]]
  BY CopyGives
<1>4. /\ FrontOf(got'[t], Kept)
      /\ \A u \in Threads : u # t => got'[u] = got[u]
  BY <1>3 DEF OutTypes, FrontOf
<1> QED BY <1>1, <1>2, <1>4 DEF GotInv

LEMMA GotStep ==
  ASSUME LogInv, LogInv', OutTypes, GotInv, [LogNext]_logVars
  PROVE  GotInv'
<1>0. LogTypes /\ LockInv
  BY DEF LogInv
<1>1. CASE UNCHANGED logVars \/ CloseLock \/ CloseFile \/ CloseDestroy \/ CloseClear
  <2>1. Kept' = Kept /\ got' = got /\ pc' = pc
    BY <1>1, MainKeeps
  <2> QED BY <2>1 DEF GotInv
<1>2. CASE OpenLog
  <2>1. got' = got /\ \A t \in Threads : pc[t] = "idle"
    BY <1>0, <1>2 DEF OpenLog, LockInv, locals
  <2> QED BY <2>1, GotNothing
<1>3. ASSUME NEW t \in Threads, Store(t) PROVE GotInv'
  <2>1. got' = got /\ pc[t] = "store"
    BY <1>3 DEF Store, Goes
  <2>2. \A u \in Threads : pc[u] # "unlock"
    BY <1>0, <2>1 DEF LockInv, InSection
  <2> QED BY <2>1, <2>2, GotNothing
<1>4. ASSUME NEW t \in Threads, NEW n \in MaxEntries, Copy(t, n) PROVE GotInv'
  BY <1>4, GotCopied
<1>5. ASSUME NEW t \in Threads,
             \/ BeginLog(t) \/ BeginRead(t) \/ LockForLog(t) \/ LockForRead(t)
             \/ Count(t) \/ WriteFile(t)
      PROVE  GotInv'
  <2>1. Kept' = Kept
    BY <1>5, AsideKeeps, CountKeeps
  <2>2. \/ Goes(t, "idle", "log") \/ Goes(t, "idle", "read") \/ Goes(t, "log", "store")
        \/ Goes(t, "read", "copy") \/ Goes(t, "count", "file") \/ Goes(t, "file", "unlock")
    BY <1>5 DEF BeginLog, BeginRead, LockForLog, LockForRead, Count, WriteFile
  <2>3. pc[t] # "unlock" /\ \A u \in Threads : u # t => pc'[u] = pc[u]
    BY <1>0, <2>2, GoesFacts
  <2>4. got' = got
    BY <1>5 DEF BeginLog, BeginRead, LockForLog, LockForRead, Count, WriteFile
  <2> QED BY <2>1, <2>3, <2>4, GotKept
<1>6. ASSUME NEW t \in Threads, Unlock(t) PROVE GotInv'
  <2>1. Kept' = Kept
    BY <1>6, AsideKeeps
  <2>2. \A u \in Threads : u # t => pc'[u] = pc[u]
    BY <1>0, <1>6, GoesFacts DEF Unlock
  <2>3. got'[t] = <<>> /\ \A u \in Threads : u # t => got'[u] = got[u]
    BY <1>6 DEF Unlock, OutTypes
  <2> QED BY <2>1, <2>2, <2>3, GotKept
<1> QED BY <1>1, <1>2, <1>3, <1>4, <1>5, <1>6 DEF LogNext, Log, Read

LEMMA FrontIsPrefix ==
  ASSUME NEW E, NEW q \in Seq(E), NEW k \in 0..Len(q)
  PROVE  IsPrefix([i \in 1..k |-> q[i]], q)
<1> DEFINE f == [i \in 1..k |-> q[i]]
<1>1. PICK n \in Nat : n = Len(q) /\ k \in Nat /\ k <= n
  BY LenProperties
<1>2. \A i \in 1..k : q[i] \in E
  BY <1>1, ElementOfSeq
<1>3. f \in Seq(E) /\ Len(f) = k
  <2>1. f \in Seq(E)
    BY <1>1, <1>2, IsASeq
  <2> QED BY <2>1, <1>1, LenProperties
<1>4. SubSeq(f, 1, k) = f
  BY <1>1, <1>3 DEF f
<1>5. SubSeq(q, 1, k) = f
  BY <1>1, <1>2
<1> HIDE DEF f
<1>6. IsPrefix(f, q)
  BY <1>1, <1>3, <1>4, <1>5 DEF IsPrefix
<1> QED BY <1>6 DEF f

(* What the ring keeps is the end of what the file holds, and what readers *)
(* get of it is its beginning, at any time for any number of threads.      *)
THEOREM RingIsEndOfFileCorrect ==
  ASSUME QuietClose PROVE LogSpec => []RingIsEndOfFile
<1>1. LogInit => EndInv
  <2> SUFFICES ASSUME LogInit PROVE EndInv
    OBVIOUS
  <2>1. Logged = <<>>
    <3>1. <<>> \in Seq(Tokens)
      BY EmptySeq
    <3> QED BY <3>1, EntriesFacts DEF LogInit, Logged
  <2> QED BY <2>1, EmptySeq DEF LogInit, EndInv
<1>2. LogInv /\ LogInv' /\ OutTypes /\ EndInv /\ [LogNext]_logVars => EndInv'
  <2> SUFFICES ASSUME LogInv, LogInv', OutTypes, EndInv, [LogNext]_logVars PROVE EndInv'
    OBVIOUS
  <2>1. ASSUME NEW t \in Threads, Log(t) \/ Read(t) PROVE EndInv'
    BY <2>1, EndStore, EndWrite, EndAside DEF Log, Read
  <2> QED BY <2>1, EndOpen, EndMain DEF LogNext
<1>3. LogInit => GotInv
  BY DEF LogInit, GotInv
<1>4. LogInv /\ LogInv' /\ OutTypes /\ GotInv /\ [LogNext]_logVars => GotInv'
  BY GotStep
<1>5. LogInv /\ EndInv /\ GotInv => RingIsEndOfFile
  <2> SUFFICES ASSUME LogInv, EndInv, GotInv, g_log_initialized,
                      \A t \in Threads : pc[t] \notin {"count", "file"}
               PROVE  /\ count = Fewer(Len(Logged), S)
                      /\ Kept = SubSeq(Logged, Len(Logged) - count + 1, Len(Logged))
                      /\ \A t \in Threads : IsPrefix(got[t], Kept)
    BY DEF RingIsEndOfFile, S
  <2>1. ~Counting /\ \A t \in Threads : ~Storing(t)
    BY DEF Counting, Storing
  <2>2. mainPc # "down"
    BY DEF LogInv, LockInv
  <2>3. Ends(Kept, Logged) /\ Logged \in Seq(Entry)
    BY <2>1, <2>2 DEF EndInv
  <2>4. Kept \in Seq(Entry) /\ Len(Kept) = count
    BY <2>1, KeptAtRest
  <2>5. count = Fewer(Len(Logged), S)
    BY <2>3, <2>4 DEF Ends
  <2>6. Kept = SubSeq(Logged, Len(Logged) - Len(Kept) + 1, Len(Logged))
    BY <2>3, <2>4, EndsIsEnd
  <2>7. ASSUME NEW t \in Threads PROVE IsPrefix(got[t], Kept)
    <3>1. PICK k \in 0..Len(Kept) : got[t] = [i \in 1..k |-> Kept[i]]
      <4>1. CASE got[t] = <<>>
        <5>1. 0 \in 0..Len(Kept) /\ <<>> = [i \in 1..0 |-> Kept[i]]
          BY <2>4, LenProperties
        <5> QED BY <4>1, <5>1
      <4>2. CASE got[t] # <<>>
        BY <4>2 DEF GotInv, FrontOf
      <4> QED BY <4>1, <4>2
    <3> QED BY <2>4, <3>1, FrontIsPrefix
  <2> QED BY <2>4, <2>5, <2>6, <2>7
<1> QED BY <1>1, <1>2, <1>3, <1>4, <1>5, LogInvariant, OutInvariant, PTL DEF LogSpec

----------------------------------------------------------------------------
(* The file is JSON.                                                       *)

(* Entries at even places, commas at odd ones. *)
Fits(x, k) == IF k % 2 = 0 THEN IsItem(x) ELSE x.mark = ","

(* After its bracket a file alternates between entries and commas: an      *)
(* entry first when o = 0, a comma first when o = 1.                       *)
Alternate(f, o) == \A i \in 2..Len(f) : Fits(f[i], i + o)

(* While it is open it ends in an entry, or holds the bracket only; it     *)
(* begins with a comma only when an earlier session has written an entry.  *)
Partial(f, o, fresh) ==
  /\ Len(f) >= 1 /\ f[1].mark = "["
  /\ Alternate(f, o)
  /\ IF fresh THEN Len(f) = 1 /\ o = 0 ELSE (Len(f) + o) % 2 = 0

OpenShape == \E o \in {0, 1} : Partial(file, o, first) /\ (o = 1 => opened > 1)

ClosedShape ==
  \/ JsonArray(file)
  \/ opened > 1 /\ file[2].mark = "," /\ JsonArray(RemoveAt(file, 2))

ShapeInv ==
  /\ ~first \/ mainPc # "down" => opened >= 1
  /\ IF FileOpen THEN OpenShape ELSE file = <<>> \/ ClosedShape

LEMMA FitsKind ==
  ASSUME NEW x, NEW k \in Nat
  PROVE  Fits(x, k) <=> IF k % 2 = 1 THEN x.mark = "," ELSE IsItem(x)
<1>1. CASE k % 2 = 0
  <2>1. k % 2 # 1
    BY <1>1
  <2> QED BY <1>1, <2>1 DEF Fits
<1>2. CASE k % 2 = 1
  <2>1. k % 2 # 0
    BY <1>2
  <2> QED BY <1>2, <2>1 DEF Fits
<1>3. k % 2 = 0 \/ k % 2 = 1
  OBVIOUS
<1> QED BY <1>1, <1>2, <1>3

LEMMA Places == \A m \in Nat : \A i \in 1..m : i = 1 \/ i = m \/ i \in 2..(m - 1)
OBVIOUS

LEMMA JsonOf ==
  ASSUME NEW g, NEW m \in Nat, Len(g) = m, DOMAIN g = 1..m, m = 2 \/ m % 2 = 1,
         g[1].mark = "[", g[m].mark = "]",
         \A i \in 2..(m - 1) : IF i % 2 = 1 THEN g[i].mark = "," ELSE IsItem(g[i])
  PROVE  JsonArray(g)
<1> SUFFICES ASSUME NEW i \in 1..m
             PROVE  CASE i = 1 -> g[i].mark = "["
                      [] i = m -> g[i].mark = "]"
                      [] OTHER -> IF i % 2 = 1 THEN g[i].mark = "," ELSE IsItem(g[i])
  BY Zenon DEF JsonArray
<1>1. i = 1 \/ i = m \/ i \in 2..(m - 1)
  BY Places
<1>2. CASE i = 1
  BY Zenon, <1>2
<1>3. CASE i = m /\ i # 1
  BY Zenon, <1>3
<1>4. CASE i \in 2..(m - 1) /\ i # m /\ i # 1
  BY Zenon, <1>4
<1> QED BY <1>1, <1>2, <1>3, <1>4

(* One more token of the kind that comes next. *)
LEMMA AlternateMore ==
  ASSUME NEW f \in Seq(Tokens), NEW n \in Nat, Len(f) = n, n >= 1,
         NEW o \in {0, 1}, Alternate(f, o), NEW x \in Tokens, Fits(x, n + 1 + o)
  PROVE  /\ Alternate(Append(f, x), o)
         /\ Append(f, x) \in Seq(Tokens) /\ Len(Append(f, x)) = n + 1
         /\ Append(f, x)[1] = f[1]
<1>1. PICK g \in Seq(Tokens) : /\ g = Append(f, x) /\ Len(g) = n + 1
                              /\ \A i \in 1..n : g[i] = f[i]
                              /\ g[n + 1] = x
  <2>1. /\ Append(f, x) \in Seq(Tokens)
        /\ Len(Append(f, x)) = Len(f) + 1
        /\ \A i \in 1..Len(f) : Append(f, x)[i] = f[i]
        /\ Append(f, x)[Len(f) + 1] = x
    BY AppendProperties
  <2> QED BY <2>1
<1>2. ASSUME NEW i \in 2..(n + 1) PROVE Fits(g[i], i + o)
  <2>1. CASE i = n + 1
    BY <1>1, <2>1
  <2>2. CASE i \in 2..n
    <3>1. g[i] = f[i]
      BY <1>1, <2>2
    <3> QED BY <2>2, <3>1 DEF Alternate
  <2>3. i = n + 1 \/ i \in 2..n
    OBVIOUS
  <2> QED BY <2>1, <2>2, <2>3
<1>3. g[1] = f[1]
  <2>1. 1 \in 1..n
    OBVIOUS
  <2> QED BY <1>1, <2>1
<1> QED BY <1>1, <1>2, <1>3 DEF Alternate

(* A file just opened. *)
LEMMA BracketOnly ==
  /\ <<Mark("[")>> \in Seq(Tokens)
  /\ Partial(<<Mark("[")>>, 0, TRUE) /\ Partial(<<Mark("[")>>, 1, FALSE)
<1>1. /\ <<Mark("[")>> \in Seq(Tokens) /\ Len(<<Mark("[")>>) = 1
      /\ <<Mark("[")>>[1].mark = "["
  <2>1. Mark("[") \in Tokens /\ Mark("[").mark = "["
    BY MarkToken DEF Mark
  <2>2. \A x \in Tokens : <<x>> \in Seq(Tokens) /\ Len(<<x>>) = 1 /\ <<x>>[1] = x
    OBVIOUS
  <2> QED BY <2>1, <2>2
<1>2. 2..1 = {} /\ 1 >= 1 /\ (1 + 1) % 2 = 0
  OBVIOUS
<1> QED BY <1>1, <1>2 DEF Partial, Alternate

LEMMA ShapeOpen ==
  ASSUME ShapeInv, OpenLog, opened \in Nat, first \in BOOLEAN PROVE ShapeInv'
<1>1. mainPc = "down" /\ opened' = opened + 1 /\ first' = first /\ ~FileOpen
  BY DEF OpenLog, FileOpen
<1>2. opened' >= 1
  BY <1>1
<1>3. CASE file' = <<Mark("[")>> /\ mainPc' = "up"
  <2>1. CASE first
    <3>1. Partial(file', 0, TRUE)
      BY <1>3, BracketOnly
    <3>2. Partial(file', 0, first')
      BY <1>1, <2>1, <3>1
    <3> QED BY <1>1, <1>2, <1>3, <3>2 DEF ShapeInv, OpenShape, FileOpen
  <2>2. CASE ~first
    <3>1. Partial(file', 1, FALSE)
      BY <1>3, BracketOnly
    <3>2. opened' > 1
      BY <1>1, <2>2 DEF ShapeInv
    <3>3. Partial(file', 1, first')
      BY <1>1, <2>2, <3>1
    <3> QED BY <1>1, <1>2, <1>3, <3>2, <3>3 DEF ShapeInv, OpenShape, FileOpen
  <2> QED BY <2>1, <2>2
<1>4. CASE file' = file /\ mainPc' = "down"
  <2>1. opened > 1 => opened' > 1
    BY <1>1
  <2> QED BY <1>1, <1>2, <1>4, <2>1 DEF ShapeInv, ClosedShape, FileOpen
<1> QED BY <1>1, <1>3, <1>4 DEF OpenLog

LEMMA NextPlaces ==
  ASSUME NEW n \in Nat, NEW o \in {0, 1}
  PROVE  /\ n + 1 \in Nat /\ n + 1 >= 1
         /\ n = 1 /\ o = 0 => (n + 1 + o) % 2 = 0
         /\ (n + o) % 2 = 0 => (n + 1 + o) % 2 # 0 /\ (n + 1 + 1 + o) % 2 = 0
OBVIOUS

LEMMA ItemFits ==
  ASSUME NEW f \in Seq(Tokens), NEW n \in Nat, Len(f) = n, n >= 1, NEW o \in {0, 1},
         f[1].mark = "[", Alternate(f, o), (n + 1 + o) % 2 = 0,
         NEW x \in Tokens, IsItem(x)
  PROVE  Partial(Append(f, x), o, FALSE)
<1>1. Fits(x, n + 1 + o)
  BY DEF Fits
<1>2. /\ Alternate(Append(f, x), o)
      /\ Len(Append(f, x)) = n + 1
      /\ Append(f, x)[1] = f[1]
  BY <1>1, AlternateMore
<1>3. n + 1 >= 1
  OBVIOUS
<1> QED BY <1>2, <1>3 DEF Partial

(* The first entry the process writes has no comma before it, *)
LEMMA FirstItem ==
  ASSUME NEW f \in Seq(Tokens), NEW n \in Nat, Len(f) = n, NEW o \in {0, 1},
         Partial(f, o, TRUE), NEW x \in Tokens, IsItem(x)
  PROVE  Partial(Append(f, x), o, FALSE)
<1>1. n = 1 /\ o = 0 /\ f[1].mark = "[" /\ Alternate(f, o)
  BY DEF Partial
<1>2. (n + 1 + o) % 2 = 0 /\ n >= 1
  BY <1>1, NextPlaces
<1> QED BY <1>1, <1>2, ItemFits

(* and any other has one. *)
LEMMA LaterItem ==
  ASSUME NEW f \in Seq(Tokens), NEW n \in Nat, Len(f) = n, NEW o \in {0, 1},
         Partial(f, o, FALSE),
         NEW c \in Tokens, c.mark = ",", NEW x \in Tokens, IsItem(x)
  PROVE  Partial(Append(Append(f, c), x), o, FALSE)
<1>1. n >= 1 /\ (n + o) % 2 = 0 /\ f[1].mark = "[" /\ Alternate(f, o)
  BY DEF Partial
<1>2. (n + 1 + o) % 2 # 0 /\ (n + 1 + 1 + o) % 2 = 0
  BY <1>1, NextPlaces
<1>3. Fits(c, n + 1 + o)
  BY <1>2 DEF Fits
<1>4. /\ Append(f, c) \in Seq(Tokens) /\ Alternate(Append(f, c), o)
      /\ Len(Append(f, c)) = n + 1 /\ Append(f, c)[1].mark = "["
  BY <1>1, <1>3, AlternateMore
<1>5. n + 1 \in Nat /\ n + 1 >= 1
  BY NextPlaces
<1> QED BY <1>2, <1>4, <1>5, ItemFits

LEMMA ShapeWrite ==
  ASSUME LogInv, OutTypes, ShapeInv, NEW t \in Threads, WriteFile(t)
  PROVE  ShapeInv'
<1>1. /\ Item(entry[t]) \in Tokens /\ mainPc = "up" /\ mainPc' = "up" /\ opened' = opened
      /\ first' = FALSE /\ Mark(",") \in Tokens /\ file \in Seq(Tokens)
      /\ file' = Append(IF first THEN file ELSE Append(file, Mark(",")), Item(entry[t]))
  BY WriteAppends, MarkToken DEF WriteFile, OutTypes
<1>2. PICK o \in {0, 1} : Partial(file, o, first) /\ (o = 1 => opened > 1)
  BY <1>1 DEF ShapeInv, FileOpen, OpenShape
<1>3. IsItem(Item(entry[t])) /\ Mark(",").mark = "," /\ Len(file) \in Nat
  BY <1>1, LenProperties DEF IsItem, Item, Mark
<1>4. Partial(file', o, FALSE)
  <2>1. CASE first = TRUE
    <3>1. file' = Append(file, Item(entry[t])) /\ Partial(file, o, TRUE)
      BY <1>1, <1>2, <2>1
    <3> QED BY <1>1, <1>3, <3>1, FirstItem
  <2>2. CASE first = FALSE
    <3>1. /\ file' = Append(Append(file, Mark(",")), Item(entry[t]))
          /\ Partial(file, o, FALSE)
      BY <1>1, <1>2, <2>2
    <3> QED BY <1>1, <1>3, <3>1, LaterItem
  <2> QED BY <2>1, <2>2 DEF LogInv, LogTypes
<1>5. Partial(file', o, first')
  BY <1>1, <1>4
<1>6. opened' >= 1
  BY <1>1 DEF ShapeInv
<1> QED BY <1>1, <1>2, <1>5, <1>6 DEF ShapeInv, OpenShape, FileOpen

(* The second token of a file taken out. *)
LEMMA WithoutSecond ==
  ASSUME NEW n \in Nat, n >= 2, NEW g \in Seq(Tokens), Len(g) = n + 1
  PROVE  /\ Len(RemoveAt(g, 2)) = n /\ DOMAIN RemoveAt(g, 2) = 1..n
         /\ RemoveAt(g, 2)[1] = g[1]
         /\ \A i \in 2..n : RemoveAt(g, 2)[i] = g[i + 1]
<1>1. \A i \in 1..(n + 1) : g[i] \in Tokens
  BY ElementOfSeq
<1>2. PICK p \in Seq(Tokens) : p = SubSeq(g, 1, 1) /\ Len(p) = 1 /\ p[1] = g[1]
  <2>1. 1 \in Int /\ \A i \in 1..1 : g[i] \in Tokens
    BY <1>1
  <2>2. /\ SubSeq(g, 1, 1) \in Seq(Tokens)
        /\ Len(SubSeq(g, 1, 1)) = IF 1 <= 1 THEN 1 - 1 + 1 ELSE 0
        /\ \A i \in 1..(1 - 1 + 1) : SubSeq(g, 1, 1)[i] = g[1 + i - 1]
    BY <2>1, SubSeqProperties
  <2>3. 1 - 1 + 1 = 1 /\ 1 + 1 - 1 = 1 /\ 1 \in 1..1 /\ 1 <= 1
    OBVIOUS
  <2> QED BY <2>2, <2>3
<1>3. PICK q \in Seq(Tokens) : /\ q = SubSeq(g, 3, n + 1) /\ Len(q) = n - 1
                              /\ \A i \in 1..(n - 1) : q[i] = g[i + 2]
  <2>1. 3 \in Int /\ n + 1 \in Int /\ \A i \in 3..(n + 1) : g[i] \in Tokens
    BY <1>1
  <2>2. /\ SubSeq(g, 3, n + 1) \in Seq(Tokens)
        /\ Len(SubSeq(g, 3, n + 1)) = IF 3 <= n + 1 THEN (n + 1) - 3 + 1 ELSE 0
        /\ \A i \in 1..((n + 1) - 3 + 1) : SubSeq(g, 3, n + 1)[i] = g[3 + i - 1]
    BY <2>1, SubSeqProperties
  <2>3. (n + 1) - 3 + 1 = n - 1 /\ 3 <= n + 1 /\ \A i \in 1..(n - 1) : 3 + i - 1 = i + 2
    OBVIOUS
  <2>4. Len(SubSeq(g, 3, n + 1)) = n - 1
    BY <2>2, <2>3, Zenon
  <2>5. \A i \in 1..(n - 1) : SubSeq(g, 3, n + 1)[i] = g[i + 2]
    BY <2>2, <2>3, Zenon
  <2> QED BY <2>2, <2>4, <2>5, Zenon
<1>4. PICK h \in Seq(Tokens) :
        /\ h = p \o q /\ Len(h) = n
        /\ \A i \in 1..n : h[i] = IF i <= 1 THEN p[i] ELSE q[i - 1]
  <2>1. 1 + (n - 1) = n
    OBVIOUS
  <2>2. /\ p \o q \in Seq(Tokens) /\ Len(p \o q) = Len(p) + Len(q)
        /\ \A i \in 1..(Len(p) + Len(q)) :
             (p \o q)[i] = IF i <= Len(p) THEN p[i] ELSE q[i - Len(p)]
    BY ConcatProperties
  <2>3. Len(p) + Len(q) = n
    BY <1>2, <1>3, <2>1
  <2>4. \A i \in 1..n : (p \o q)[i] = IF i <= 1 THEN p[i] ELSE q[i - 1]
    BY <1>2, <2>2, <2>3
  <2> QED BY <2>2, <2>3, <2>4
<1>5. RemoveAt(g, 2) = h
  BY <1>2, <1>3, <1>4 DEF RemoveAt
<1>6. ASSUME NEW i \in 2..n PROVE h[i] = g[i + 1]
  <2>1. i \in 1..n /\ ~(i <= 1) /\ i - 1 \in 1..(n - 1) /\ (i - 1) + 2 = i + 1
    OBVIOUS
  <2> QED BY <1>3, <1>4, <2>1
<1>7. 1 \in 1..n /\ 1 <= 1
  OBVIOUS
<1>8. h[1] = g[1]
  BY <1>2, <1>4, <1>7
<1>9. DOMAIN h = 1..n
  BY <1>4, LenProperties
<1> QED BY <1>4, <1>5, <1>6, <1>8, <1>9

(* secc_log_close completes the array, behind a leading comma if there is  *)
(* one.                                                                    *)
LEMMA BracketCloses ==
  ASSUME NEW f \in Seq(Tokens), NEW n \in Nat, Len(f) = n, NEW fresh, NEW o \in {0, 1},
         Partial(f, o, fresh)
  PROVE  \/ JsonArray(Append(f, Mark("]")))
         \/ /\ o = 1 /\ Append(f, Mark("]"))[2].mark = ","
            /\ JsonArray(RemoveAt(Append(f, Mark("]")), 2))
<1>1. n >= 1 /\ f[1].mark = "[" /\ Alternate(f, o) /\ ((n = 1 /\ o = 0) \/ (n + o) % 2 = 0)
  BY DEF Partial
<1>2. PICK g \in Seq(Tokens) :
        /\ g = Append(f, Mark("]")) /\ Len(g) = n + 1 /\ DOMAIN g = 1..(n + 1)
        /\ \A i \in 1..n : g[i] = f[i]
        /\ g[n + 1].mark = "]"
  <2>1. Mark("]") \in Tokens /\ Mark("]").mark = "]"
    BY MarkToken DEF Mark
  <2>2. /\ Append(f, Mark("]")) \in Seq(Tokens)
        /\ Len(Append(f, Mark("]"))) = n + 1
        /\ \A i \in 1..n : Append(f, Mark("]"))[i] = f[i]
        /\ Append(f, Mark("]"))[n + 1] = Mark("]")
    BY <2>1, AppendProperties
  <2>3. DOMAIN Append(f, Mark("]")) = 1..(n + 1)
    BY <2>2, LenProperties
  <2> QED BY <2>1, <2>2, <2>3
<1>3. g[1].mark = "["
  <2>1. 1 \in 1..n
    BY <1>1
  <2> QED BY <1>1, <1>2, <2>1
<1>4. ASSUME NEW i \in 2..n
      PROVE  IF (i + o) % 2 = 1 THEN g[i].mark = "," ELSE IsItem(g[i])
  <2>1. i \in 1..n /\ i + o \in Nat
    OBVIOUS
  <2>2. Fits(f[i], i + o)
    BY <1>1 DEF Alternate
  <2>3. Fits(g[i], i + o)
    BY <1>2, <2>1, <2>2
  <2> QED BY <2>1, <2>3, FitsKind
<1>5. CASE n = 1 \/ o = 0
  <2>1. n + 1 \in Nat /\ (n + 1) - 1 = n /\ (n + 1 = 2 \/ (n + 1) % 2 = 1)
    BY <1>1, <1>5
  <2>2. ASSUME NEW i \in 2..n
        PROVE  IF i % 2 = 1 THEN g[i].mark = "," ELSE IsItem(g[i])
    <3>1. i + o = i
      BY <1>5
    <3> QED BY <1>4, <3>1
  <2>3. JsonArray(g)
    BY <1>2, <1>3, <2>1, <2>2, JsonOf
  <2> QED BY <1>2, <2>3
<1>6. CASE n # 1 /\ o = 1
  <2>1. n % 2 = 1 /\ n >= 2 /\ 2 \in 2..n /\ n \in 2..n /\ (2 + o) % 2 = 1
    BY <1>1, <1>6
  <2>2. g[2].mark = ","
    BY <1>4, <2>1
  <2>3. PICK h : /\ h = RemoveAt(g, 2) /\ Len(h) = n /\ DOMAIN h = 1..n
                 /\ h[1] = g[1]
                 /\ \A i \in 2..n : h[i] = g[i + 1]
    <3>1. /\ Len(RemoveAt(g, 2)) = n /\ DOMAIN RemoveAt(g, 2) = 1..n
          /\ RemoveAt(g, 2)[1] = g[1]
          /\ \A i \in 2..n : RemoveAt(g, 2)[i] = g[i + 1]
      BY <1>2, <2>1, WithoutSecond
    <3> QED BY <3>1
  <2>4. h[1].mark = "[" /\ h[n].mark = "]"
    BY <1>2, <1>3, <2>1, <2>3
  <2>5. ASSUME NEW i \in 2..(n - 1)
        PROVE  IF i % 2 = 1 THEN h[i].mark = "," ELSE IsItem(h[i])
    <3>1. i \in 2..n /\ i + 1 \in 2..n /\ ((i + 1) + o) % 2 = i % 2
      BY <1>6
    <3>2. h[i] = g[i + 1]
      BY <2>3, <3>1
    <3>3. IF ((i + 1) + o) % 2 = 1 THEN g[i + 1].mark = "," ELSE IsItem(g[i + 1])
      BY <1>4, <3>1
    <3> QED BY <3>1, <3>2, <3>3
  <2>6. JsonArray(h)
    BY <2>1, <2>3, <2>4, <2>5, JsonOf
  <2> QED BY <1>2, <1>6, <2>2, <2>3, <2>6
<1>7. n = 1 \/ o = 0 \/ (n # 1 /\ o = 1)
  OBVIOUS
<1> QED BY <1>5, <1>6, <1>7

LEMMA ShapeNext ==
  ASSUME LogInv, OutTypes, ShapeInv, [LogNext]_logVars PROVE ShapeInv'
<1>1. CASE OpenLog
  BY <1>1, ShapeOpen DEF LogInv, LogTypes
<1>2. CASE CloseFile
  <2>1. /\ OpenShape /\ file \in Seq(Tokens) /\ file' = Append(file, Mark("]"))
        /\ UNCHANGED <<opened, first>> /\ mainPc = "close" /\ mainPc' = "destroy"
    BY <1>2 DEF CloseFile, ShapeInv, FileOpen, OutTypes
  <2>2. PICK o \in {0, 1} : Partial(file, o, first) /\ (o = 1 => opened > 1)
    BY <2>1 DEF OpenShape
  <2>3. \/ JsonArray(file')
        \/ o = 1 /\ file'[2].mark = "," /\ JsonArray(RemoveAt(file', 2))
    <3>1. Len(file) \in Nat
      BY <2>1, LenProperties
    <3> QED BY <2>1, <2>2, <3>1, BracketCloses
  <2>4. ClosedShape'
    BY <2>1, <2>2, <2>3 DEF ClosedShape
  <2> QED BY <2>1, <2>4 DEF ShapeInv, FileOpen
<1>3. ASSUME NEW t \in Threads, WriteFile(t) PROVE ShapeInv'
  BY <1>3, ShapeWrite
<1>4. ASSUME file' = file, first' = first, opened' = opened, FileOpen' <=> FileOpen,
             mainPc' # "down" => mainPc # "down"
      PROVE  ShapeInv'
  <2>1. OpenShape => OpenShape'
    BY <1>4, Zenon DEF OpenShape
  <2>2. ClosedShape => ClosedShape'
    BY <1>4, Zenon DEF ClosedShape
  <2> QED BY <1>4, <2>1, <2>2, Zenon DEF ShapeInv
<1>5. CASE CloseLock \/ CloseDestroy \/ CloseClear
  BY <1>4, <1>5 DEF CloseLock, CloseDestroy, CloseClear, FileOpen
<1>6. CASE UNCHANGED <<file, first, opened, mainPc>>
  BY <1>4, <1>6 DEF FileOpen
<1> QED BY <1>1, <1>2, <1>3, <1>5, <1>6
        DEF LogNext, Log, Read, BeginLog, LockForLog, Store, Count, Unlock, BeginRead,
            LockForRead, Copy, logVars

(* What ends in a bracket is no open file. *)
LEMMA OpenFileEnds ==
  ASSUME NEW f, NEW n \in Nat, Len(f) = n, NEW o \in {0, 1}, NEW fresh, Partial(f, o, fresh)
  PROVE  f[n].mark # "]"
<1>1. n >= 1 /\ f[1].mark = "[" /\ Alternate(f, o)
  BY DEF Partial
<1>2. CASE n = 1
  BY <1>1, <1>2
<1>3. CASE n # 1
  <2>1. n \in 2..n
    BY <1>1, <1>3
  <2>2. Fits(f[n], n + o)
    BY <1>1, <2>1 DEF Alternate
  <2>3. IsItem(f[n]) \/ f[n].mark = ","
    BY <2>2 DEF Fits
  <2> QED BY <2>3 DEF IsItem
<1> QED BY <1>2, <1>3

(* Any closed log file is a JSON array, save for a comma after the bracket *)
(* when the process had logged in an earlier session: for any number of    *)
(* threads, entries and sessions.                                          *)
THEOREM ClosedFileIsJsonCorrect ==
  ASSUME QuietClose PROVE LogSpec => []ClosedFileIsJson
<1>1. LogInit => ShapeInv
  BY DEF LogInit, ShapeInv, FileOpen
<1>2. LogInv /\ OutTypes /\ ShapeInv /\ [LogNext]_logVars => ShapeInv'
  BY ShapeNext
<1>3. OutTypes /\ ShapeInv => ClosedFileIsJson
  <2> SUFFICES ASSUME file \in Seq(Tokens), ShapeInv, file # <<>>, Last(file).mark = "]"
               PROVE  ClosedShape
    BY DEF OutTypes, ClosedFileIsJson, ClosedShape
  <2>1. ~FileOpen
    <3>1. Len(file) \in Nat /\ file[Len(file)].mark = "]"
      BY LenProperties DEF Last
    <3> QED BY <3>1, OpenFileEnds DEF ShapeInv, OpenShape
  <2> QED BY <2>1 DEF ShapeInv
<1> QED BY <1>1, <1>2, <1>3, LogInvariant, OutInvariant, PTL DEF LogSpec

============================================================================
