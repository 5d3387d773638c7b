------------------------------ MODULE SeccLog -------------------------------
(***************************************************************************)
(* The structured log (secc_log.c): a ring of entries and a JSON file,     *)
(* written by any thread under one mutex, opened and closed by main.       *)
(*                                                                         *)
(* g_log_initialized is read outside the mutex, so a call that has passed  *)
(* that check may find the mutex destroyed by a secc_log_close meanwhile.  *)
(* pthread_mutex_lock then fails, nobody looks at its result, and the call *)
(* goes on without the mutex.  With QuietClose, main closes the log only   *)
(* while no call is under way; nothing in the code makes it wait.          *)
(***************************************************************************)
EXTENDS Integers, SequencesExt

CONSTANTS
  Threads,               \* the threads that log and read the log
  None,                  \* an entry of the ring never written
  SECC_LOG_BUFFER_SIZE,  \* 1000 in the code
  MaxEntries,            \* values of max_entries given to secc_log_get_recent
  MaxCalls,              \* bound: entries logged in a behaviour, and so the
                         \* length of time
  MaxInits,              \* bound: times the log is opened
  QuietClose             \* whether main waits for the calls under way

ASSUME LogConstants ==
  /\ SECC_LOG_BUFFER_SIZE \in Nat \ {0}
  /\ MaxEntries \subseteq Nat \ {0}
  /\ MaxCalls \in Nat /\ MaxInits \in Nat
  /\ QuietClose \in BOOLEAN
  /\ {"main", "free", "none", "destroyed"} \cap Threads = {}

VARIABLES
  g_log_initialized,
  lock,               \* g_log_buffer.lock: "none" (never made), "free",
                      \* "destroyed", "main" or the thread that holds it
  entries,            \* g_log_buffer.entries
  head, tail, count,
  file,               \* what the log file holds
  first,              \* the static of secc_log
  clock,              \* the time of day, which passes with each entry
  opened,             \* history: times the log was opened
  mainPc,             \* main: "down", "up", or inside secc_log_close
  pc,                 \* each thread: "idle", or its next step of a call
  entry,              \* secc_log's local entry
  got                 \* secc_log_get_recent's result, until it returns

ring    == <<entries, head, tail, count>>
locals  == <<pc, entry, got>>
logVars == <<g_log_initialized, lock, ring, file, first, clock, opened,
             mainPc, locals>>

Slots == 0..SECC_LOG_BUFFER_SIZE - 1
Entry == [by : Threads, timestamp_ms : 0..MaxCalls - 1]

(* What the file is made of: "[", "," and "]", and entries. *)
Mark(m) == [mark |-> m, item |-> None]
Item(e) == [mark |-> "entry", item |-> e]

LogInit ==
  /\ g_log_initialized = FALSE /\ lock = "none"
  /\ entries = [i \in Slots |-> None]
  /\ head = 0 /\ tail = 0 /\ count = 0
  /\ file = <<>> /\ first = TRUE
  /\ clock = 0 /\ opened = 0
  /\ mainPc = "down"
  /\ pc = [t \in Threads |-> "idle"]
  /\ entry = [t \in Threads |-> None]
  /\ got = [t \in Threads |-> <<>>]

Goes(t, from, to) == pc[t] = from /\ pc' = [pc EXCEPT ![t] = to]

(* Locking a destroyed mutex fails, and its caller goes on all the same.   *)
Acquire(who) ==
  /\ lock \in {"free", "destroyed"}
  /\ lock' = IF lock = "free" THEN who ELSE lock

Release == lock' = IF lock = "destroyed" THEN lock ELSE "free"

Following(i) == (i + 1) % SECC_LOG_BUFFER_SIZE

----------------------------------------------------------------------------
(* secc_log_init and secc_log_close, in main                               *)

(* The ring is emptied whatever comes of it; the file is truncated, unless *)
(* fopen fails.                                                            *)
OpenLog ==
  /\ mainPc = "down" /\ ~g_log_initialized
  /\ opened < MaxInits
  /\ opened' = opened + 1
  /\ lock' = "free"
  /\ head' = 0 /\ tail' = 0 /\ count' = 0
  /\ \/ /\ file' = <<Mark("[")>>
        /\ g_log_initialized' = TRUE
        /\ mainPc' = "up"
     \/ UNCHANGED <<file, g_log_initialized, mainPc>>
  /\ UNCHANGED <<entries, first, clock, locals>>

CloseLock ==
  /\ mainPc = "up"
  /\ QuietClose => \A t \in Threads : pc[t] = "idle"
  /\ Acquire("main")
  /\ mainPc' = "close"
  /\ UNCHANGED <<g_log_initialized, ring, file, first, clock, opened, locals>>

CloseFile ==
  /\ mainPc = "close"
  /\ file' = Append(file, Mark("]"))
  /\ Release
  /\ mainPc' = "destroy"
  /\ UNCHANGED <<g_log_initialized, ring, first, clock, opened, locals>>

(* pthread_mutex_destroy refuses a mutex that a thread holds.              *)
CloseDestroy ==
  /\ mainPc = "destroy"
  /\ lock' = IF lock = "free" THEN "destroyed" ELSE lock
  /\ mainPc' = "clear"
  /\ UNCHANGED <<g_log_initialized, ring, file, first, clock, opened, locals>>

CloseClear ==
  /\ mainPc = "clear"
  /\ g_log_initialized' = FALSE
  /\ mainPc' = "down"
  /\ UNCHANGED <<lock, ring, file, first, clock, opened, locals>>

----------------------------------------------------------------------------
(* secc_log                                                                *)

(* The check, and the entry with its time stamp, before the lock. *)
BeginLog(t) ==
  /\ g_log_initialized
  /\ QuietClose => mainPc = "up"
  /\ clock < MaxCalls
  /\ Goes(t, "idle", "log")
  /\ clock' = clock + 1
  /\ entry' = [entry EXCEPT ![t] = [by |-> t, timestamp_ms |-> clock]]
  /\ UNCHANGED <<g_log_initialized, lock, ring, file, first, opened, mainPc, got>>

(* Faulty variant: the entry is stored without taking the mutex. *)
LogUnlocked(t) ==
  /\ Goes(t, "log", "store")
  /\ UNCHANGED <<g_log_initialized, lock, ring, file, first, clock, opened, mainPc,
                 entry, got>>

LockForLog(t) ==
  /\ Goes(t, "log", "store")
  /\ Acquire(t)
  /\ UNCHANGED <<g_log_initialized, ring, file, first, clock, opened, mainPc,
                 entry, got>>

Store(t) ==
  /\ Goes(t, "store", "count")
  /\ entries' = [entries EXCEPT ![head] = entry[t]]
  /\ head' = Following(head)
  /\ UNCHANGED <<g_log_initialized, lock, tail, count, file, first, clock, opened,
                 mainPc, entry, got>>

(* Faulty variant: the ring is taken for full one entry too late. *)
CountOneMore(t) ==
  /\ Goes(t, "count", "file")
  /\ IF count <= SECC_LOG_BUFFER_SIZE
     THEN count' = count + 1 /\ UNCHANGED tail
     ELSE tail' = Following(tail) /\ UNCHANGED count
  /\ UNCHANGED <<g_log_initialized, lock, entries, head, file, first, clock,
                 opened, mainPc, entry, got>>

(* Faulty variant: the tail stays behind when the ring is full. *)
TailForgotten(t) ==
  /\ Goes(t, "count", "file")
  /\ count' = IF count < SECC_LOG_BUFFER_SIZE THEN count + 1 ELSE count
  /\ UNCHANGED <<g_log_initialized, lock, entries, head, tail, file, first, clock,
                 opened, mainPc, entry, got>>

Count(t) ==
  /\ Goes(t, "count", "file")
  /\ IF count < SECC_LOG_BUFFER_SIZE
     THEN count' = count + 1 /\ UNCHANGED tail
     ELSE tail' = Following(tail) /\ UNCHANGED count
  /\ UNCHANGED <<g_log_initialized, lock, entries, head, file, first, clock,
                 opened, mainPc, entry, got>>

(* g_log_file is NULL once the log is closed. *)
FileOpen == mainPc \in {"up", "close"}

(* Faulty variant: a comma after every entry. *)
CommaAfter(t) ==
  /\ Goes(t, "file", "unlock")
  /\ file' = IF FileOpen THEN file \o <<Item(entry[t]), Mark(",")>> ELSE file
  /\ UNCHANGED <<g_log_initialized, lock, ring, first, clock, opened, mainPc,
                 entry, got>>

WriteFile(t) ==
  /\ Goes(t, "file", "unlock")
  /\ IF FileOpen
     THEN /\ file' = file \o (IF first THEN <<>> ELSE <<Mark(",")>>) \o <<Item(entry[t])>>
          /\ first' = FALSE
     ELSE UNCHANGED <<file, first>>
  /\ UNCHANGED <<g_log_initialized, lock, ring, clock, opened, mainPc, entry, got>>

(* Both calls end here. *)
Unlock(t) ==
  /\ Goes(t, "unlock", "idle")
  /\ Release
  /\ entry' = [entry EXCEPT ![t] = None]
  /\ got' = [got EXCEPT ![t] = <<>>]
  /\ UNCHANGED <<g_log_initialized, ring, file, first, clock, opened, mainPc>>

Log(t) ==
  BeginLog(t) \/ LockForLog(t) \/ Store(t) \/ Count(t) \/ WriteFile(t) \/ Unlock(t)

----------------------------------------------------------------------------
(* secc_log_get_recent                                                     *)

BeginRead(t) ==
  /\ g_log_initialized
  /\ QuietClose => mainPc = "up"
  /\ Goes(t, "idle", "read")
  /\ UNCHANGED <<g_log_initialized, lock, ring, file, first, clock, opened, mainPc,
                 entry, got>>

LockForRead(t) ==
  /\ Goes(t, "read", "copy")
  /\ Acquire(t)
  /\ UNCHANGED <<g_log_initialized, ring, file, first, clock, opened, mainPc,
                 entry, got>>

(* n entries of the ring, from slot `from` on. *)
Ring(from, n) ==
  [i \in 1..n |-> entries[(from + i - 1) % SECC_LOG_BUFFER_SIZE]]

Fewer(a, b) == IF a < b THEN a ELSE b

(* Faulty variant: the reading begins at the head. *)
CopyFromHead(t, max_entries) ==
  /\ Goes(t, "copy", "unlock")
  /\ got' = [got EXCEPT ![t] = Ring(head, Fewer(count, max_entries))]
  /\ UNCHANGED <<g_log_initialized, lock, ring, file, first, clock, opened, mainPc,
                 entry>>

Copy(t, max_entries) ==
  /\ Goes(t, "copy", "unlock")
  /\ got' = [got EXCEPT ![t] = Ring(tail, Fewer(count, max_entries))]
  /\ UNCHANGED <<g_log_initialized, lock, ring, file, first, clock, opened, mainPc,
                 entry>>

Read(t) == BeginRead(t) \/ LockForRead(t) \/ \E n \in MaxEntries : Copy(t, n)

----------------------------------------------------------------------------

LogNext ==
  \/ OpenLog \/ CloseLock \/ CloseFile \/ CloseDestroy \/ CloseClear
  \/ \E t \in Threads : Log(t) \/ Read(t)

LogSpec == LogInit /\ [][LogNext]_logVars

----------------------------------------------------------------------------
(* Properties                                                              *)

InSection(t) == pc[t] \in {"store", "count", "file", "copy", "unlock"}

(* Every variable has the values the code's types and limits give it; the  *)
(* indices stay inside the array and the count never exceeds its length.   *)
LogTypeOK ==
  /\ g_log_initialized \in BOOLEAN
  /\ lock \in {"none", "free", "destroyed", "main"} \cup Threads
  /\ entries \in [Slots -> Entry \cup {None}]
  /\ head \in Slots /\ tail \in Slots
  /\ count \in 0..SECC_LOG_BUFFER_SIZE
  /\ file \in Seq([mark : {"[", ",", "]", "entry"}, item : Entry \cup {None}])
  /\ first \in BOOLEAN
  /\ clock \in Nat /\ opened \in Nat
  /\ mainPc \in {"down", "up", "close", "destroy", "clear"}
  /\ pc \in [Threads -> {"idle", "log", "store", "count", "file", "read", "copy",
                          "unlock"}]
  /\ entry \in [Threads -> Entry \cup {None}]
  /\ got \in [Threads -> Seq(Entry)]

(* secc_log.c:15 "Thread-safe ring buffer": no two threads are between     *)
(* pthread_mutex_lock and pthread_mutex_unlock at once, nor is one there   *)
(* while secc_log_close closes the file.                                   *)
MutualExclusion ==
  \A t \in Threads : InSection(t) =>
    /\ \A u \in Threads : InSection(u) => u = t
    /\ mainPc # "close"

(* The entries the log keeps, the oldest first.  While a thread has stored *)
(* its entry and not yet moved count or tail, the entry counts as kept.    *)
Kept ==
  IF \E t \in Threads : pc[t] = "count"
  THEN IF count < SECC_LOG_BUFFER_SIZE THEN Ring(tail, count + 1)
                                       ELSE Ring(Following(tail), count)
  ELSE Ring(tail, count)

(* One thread's entries stand in the ring in the order of its calls, and   *)
(* so of their time stamps.  Nothing is said of different threads: entries *)
(* are stamped before the lock is taken, and theirs may be out of order.   *)
ThreadOrderKept ==
  \A i, j \in DOMAIN Kept :
    (i < j /\ Kept[i].by = Kept[j].by) => Kept[i].timestamp_ms < Kept[j].timestamp_ms

(* The entries in the file, in the order they were written. *)
IsItem(token) == token.mark = "entry"
Collect(items, token) == IF IsItem(token) THEN Append(items, token.item) ELSE items
EntriesOf(f) == FoldLeft(Collect, <<>>, f)
Logged == EntriesOf(file)

(* Ring and file agree: the ring keeps the end of what this session has    *)
(* written to the file, as much of it as it can hold.  What a call of      *)
(* secc_log_get_recent has copied is the beginning of that end: as many as *)
(* it asked for, the oldest first and not the most recent, but no entry    *)
(* left out, repeated or foreign to the file.                              *)
RingIsEndOfFile ==
  (g_log_initialized /\ \A t \in Threads : pc[t] \notin {"count", "file"}) =>
    LET end == SubSeq(Logged, Len(Logged) - count + 1, Len(Logged)) IN
    /\ count = Fewer(Len(Logged), SECC_LOG_BUFFER_SIZE)
    /\ Kept = end
    /\ \A t \in Threads : IsPrefix(got[t], end)

(* Brackets around entries with one comma between any two of them. *)
JsonArray(f) ==
  /\ Len(f) = 2 \/ Len(f) % 2 = 1
  /\ \A i \in DOMAIN f :
       CASE i = 1      -> f[i].mark = "["
         [] i = Len(f) -> f[i].mark = "]"
         [] OTHER      -> IF i % 2 = 1 THEN f[i].mark = "," ELSE IsItem(f[i])

(* Whatever threads wrote it, a closed file is a JSON array; save that the *)
(* static `first` outlives the session, so that the file of a later one    *)
(* may open with a comma.                                                  *)
ClosedFileIsJson ==
  (file # <<>> /\ Last(file).mark = "]") =>
    \/ JsonArray(file)
    \/ opened > 1 /\ file[2].mark = "," /\ JsonArray(RemoveAt(file, 2))

(* Ring, mutex and indices together are the bounded queue, and a reader    *)
(* gets a snapshot of it: the oldest entries, not the most recent.         *)
Queue == INSTANCE LogQueue WITH
  Callers <- Threads, Entries <- Entry, Capacity <- SECC_LOG_BUFFER_SIZE,
  queue <- Kept

ImplementsQueue == Queue!Spec
=============================================================================
