---------------------------- MODULE WriteBehind ----------------------------
(***************************************************************************)
(* HistoryDB (src/src/aictl/storage.py): the write-behind path of the      *)
(* history database.  Any thread appends rows to the buffers; the flush    *)
(* thread, and the thread that closes the database, swap the buffers out   *)
(* under the lock and write the batch in one SQLite transaction without    *)
(* it.  A failed flush rolls back and puts the batch back in front of the  *)
(* buffers; a file that stays locked or is broken is given up for an       *)
(* in-memory database.                                                     *)
(*                                                                         *)
(* The steps of a flush are those another thread can come between: the     *)
(* swap, the connection, the inserts into each table, the commit, the      *)
(* rollback and the re-buffering.  A second connection to the file waits   *)
(* for the write transaction of the first (WAL), the in-memory database    *)
(* has one connection for all, so that a direct write, here that of a      *)
(* transcript, ends whatever transaction is open on it.  Row contents are  *)
(* reduced to their key, and for process snapshots to a level: two values  *)
(* within the threshold of storage.py:2872 are the same level.             *)
(***************************************************************************)
EXTENDS Integers, Sequences, FiniteSets

CONSTANTS Rows,        \* rows that may be appended, each once
          TableOf,     \* row -> the table it goes to
          KeyOf,       \* row -> ts / (pid, tool) / (ts, tool, kind) / (ts, metric) / dedup_key
          LevelOf,     \* process snapshot -> its cpu and memory level
          SessionOf,   \* request -> its session
          Sessions,
          Superseded,  \* requests the agent-team scan re-sends (claude-code-jsonl)
          Oversized,   \* rows with an integer beyond 64 bits: OverflowError
          Unbindable,  \* rows with a value of no SQLite type: a sqlite3.Error
          Calls,       \* what one append_* call may carry
          Loop,        \* the thread aictl-db-flush
          Closer,      \* the thread that calls close()
          Shared,      \* the connection of the in-memory database
          Nothing,     \* no level cached
          Connected,   \* threads that opened their connection before
          Closes,      \* whether the database is closed
          Cap,         \* _REBUFFER_CAP
          Patience,    \* LOCKED_FLUSHES_BEFORE_FALLBACK
          MaxOutages   \* bound on how often the file becomes locked or broken

Order == <<"system_snapshots", "process_snapshots", "events", "metrics", "requests", "tool_invocations">>
Tables == {Order[i] : i \in 1..6}
Flushers == {Loop, Closer}
Conns == Flushers \cup {Shared}
Keys == {KeyOf[r] : r \in Rows}
Levels == {LevelOf[r] : r \in Rows}
RowsOf(s) == {s[i] : i \in 1..Len(s)}

\* no row occurs twice in s
Injective(s) == \A i, j \in 1..Len(s) : s[i] = s[j] => i = j

ASSUME RowAssumption ==
  /\ TableOf \in [Rows -> Tables]
  /\ Superseded \subseteq Rows /\ Oversized \subseteq Rows /\ Unbindable \subseteq Rows
  /\ Calls \subseteq Seq(Rows)
  /\ \A c \in Calls : Injective(c) /\ \A i, j \in 1..Len(c) : TableOf[c[i]] = TableOf[c[j]]
ASSUME ThreadAssumption == Loop # Closer /\ Shared \notin {Loop, Closer} /\ Connected \subseteq {Loop, Closer}
ASSUME BoundAssumption == /\ Cap \in Nat \ {0} /\ Patience \in Nat \ {0} /\ MaxOutages \in Nat
                          /\ Closes \in BOOLEAN
                          /\ Nothing \notin Levels

VARIABLES
  buf,        \* the six buffers
  batch,      \* the buffers each flushing thread has taken
  pc,         \* where each of them is in flush()
  at,         \* how many tables of the batch it has written
  known,      \* {the sessions it found covered by transcripts}, {} before it looked
  using,      \* its connection: its own to the file, or Shared
  connected,  \* threads whose connection to the file is open
  txn,        \* per connection: whether a transaction is open, the rows it sees and the
              \* sessions it takes from a transcript
  store,      \* committed rows of the file and of the in-memory database
  transcripts,\* per store: sessions whose requests came from a transcript
  cache,      \* _proc_snapshot_cache: last level handed to the database, per (pid, tool)
  mode,       \* "file" or "memory" (_shared_conn is set)
  strikes,    \* _locked_flushes
  failed,     \* _flush_failed_with
  closed,     \* close() was called
  disk,       \* the file: "ok", "locked" by another process or "broken"
  outages,    \* how often it became locked or broken
  writing,    \* the session whose transcript a thread is writing to memory, if any
  arrived,    \* ghost: rows in the order in which they were appended
  dropped,    \* ghost: rows dropped at the cap
  torn        \* ghost: keys of batches that the write of a transcript tore

flushVars == <<batch, pc, at, known, using, connected>>
fileVars  == <<store, transcripts>>
modeVars  == <<mode, strikes, failed>>
restVars  == <<closed, disk, outages>>
transcriptVars == <<writing, torn>>
vars == <<flushVars, fileVars, modeVars, restVars, transcriptVars, buf, txn, cache, arrived, dropped>>

Empty == [t \in Tables |-> <<>>]
Ended == [open |-> FALSE, rows |-> {}, covered |-> {}]

\* the rows of a set of buffers
In(bufs) == UNION {RowsOf(bufs[t]) : t \in Tables}
Pending == In(buf) \cup UNION {In(batch[f]) : f \in Flushers}
Stored(s) == {e.row : e \in s}

WriteBehindInit ==
  /\ buf = Empty
  /\ batch = [f \in Flushers |-> Empty]
  /\ pc = [f \in Flushers |-> "idle"]
  /\ at = [f \in Flushers |-> 0]
  /\ known = [f \in Flushers |-> {}]
  /\ using = [f \in Flushers |-> f]
  /\ connected = Connected
  /\ txn = [c \in Conns |-> Ended]
  /\ store = [m \in {"file", "memory"} |-> {}]
  /\ transcripts = [m \in {"file", "memory"} |-> {}]
  /\ cache = [k \in Keys |-> Nothing]
  /\ mode = "file" /\ strikes = 0 /\ failed = "none"
  /\ closed = FALSE /\ disk = "ok" /\ outages = 0
  /\ writing = {}
  /\ arrived = <<>> /\ dropped = {} /\ torn = {}

-----------------------------------------------------------------------------
(* Writers *)

\* append_metrics, append_tool_metrics, append_events, append_samples, append_request, ...
AppendRows(rows) ==
  /\ RowsOf(rows) \cap RowsOf(arrived) = {}
  /\ buf' = [t \in Tables |-> IF \E r \in RowsOf(rows) : TableOf[r] = t THEN buf[t] \o rows ELSE buf[t]]
  /\ arrived' = arrived \o rows
  /\ UNCHANGED <<flushVars, fileVars, modeVars, restVars, transcriptVars, txn, cache, dropped>>

Source(c) == IF c = Shared THEN "memory" ELSE "file"

\* what connection c sees: its open transaction, or else the committed rows and sessions
Seen(c) == IF txn[c].open THEN txn[c].rows ELSE store[Source(c)]
SeenCovered(c) == transcripts[Source(c)] \cup txn[c].covered

\* _drop_superseded_rows: rows of other writers for the calls of a transcript
WithoutSuperseded(entries, s) == {e \in entries : ~(e.row \in Superseded /\ SessionOf[e.row] = s)}

\* write_call_facts on the file: the write transaction of another thread is waited for.  (A second
\* write for a session merges into the first and is left out: Sessions bounds the writes.)
TranscriptWrite(s) ==
  /\ mode = "file" /\ s \notin transcripts["file"] /\ disk = "ok"
  /\ \A c \in Flushers : ~txn[c].open
  /\ transcripts' = [transcripts EXCEPT !["file"] = @ \cup {s}]
  /\ store' = [store EXCEPT !["file"] = WithoutSuperseded(@, s)]
  /\ UNCHANGED <<flushVars, modeVars, restVars, transcriptVars, buf, txn, cache, arrived, dropped>>

\* In memory its upserts join what is open on the one connection.
TranscriptUpsert(s) ==
  /\ mode = "memory" /\ s \notin transcripts["memory"] /\ writing = {}
  /\ writing' = {s}
  /\ txn' = [txn EXCEPT ![Shared] = [open |-> TRUE, rows |-> Seen(Shared), covered |-> @.covered \cup {s}]]
  /\ UNCHANGED <<flushVars, fileVars, modeVars, restVars, buf, cache, arrived, dropped, torn>>

\* The end of a transcript's write ends the transaction of any flush on the connection.
Tear == torn' = torn \cup UNION {{KeyOf[r] : r \in In(batch[f])} : f \in {g \in Flushers : pc[g] = "write" /\ using[g] = Shared}}

\* what was seen on the shared connection is committed, except the rows the transcript of s supersedes
TranscriptCommit(s) ==
  /\ writing = {s}
  /\ writing' = {}
  /\ store' = [store EXCEPT !["memory"] = WithoutSuperseded(Seen(Shared), s)]
  /\ transcripts' = [transcripts EXCEPT !["memory"] = SeenCovered(Shared)]
  /\ txn' = [txn EXCEPT ![Shared] = Ended]
  /\ Tear
  /\ UNCHANGED <<flushVars, modeVars, restVars, buf, cache, arrived, dropped>>

\* a sqlite3.Error, memory being full: what is open on the shared connection is rolled back
TranscriptFails(s) ==
  /\ writing = {s} /\ outages < MaxOutages
  /\ writing' = {}
  /\ outages' = outages + 1
  /\ txn' = [txn EXCEPT ![Shared] = Ended]
  /\ Tear
  /\ UNCHANGED <<flushVars, fileVars, modeVars, closed, disk, buf, cache, arrived, dropped>>

-----------------------------------------------------------------------------
(* What a flush writes *)

Numbered == {"events", "metrics"}
Replacing == {"system_snapshots", "process_snapshots"}

\* _assign_seq: earlier rows of the batch with the same key
SeqNo(s, i) == IF TableOf[s[i]] \in Numbered
               THEN Cardinality({j \in 1..(i - 1) : KeyOf[s[j]] = KeyOf[s[i]]})
               ELSE 0

\* a row under its primary key; a process snapshot's (ts, pid) is its own
Entry(s, i) == [table |-> TableOf[s[i]],
                key   |-> IF TableOf[s[i]] = "process_snapshots" THEN s[i] ELSE KeyOf[s[i]],
                seq   |-> SeqNo(s, i),
                row   |-> s[i]]
SamePK(d, e) == d.table = e.table /\ d.key = e.key /\ d.seq = e.seq

\* the level of the process that row i of s is compared with
LastLevel(s, i) ==
  LET before == {j \in 1..(i - 1) : KeyOf[s[j]] = KeyOf[s[i]]}
  IN  IF before = {} THEN cache[KeyOf[s[i]]]
      ELSE LevelOf[s[CHOOSE j \in before : \A k \in before : k <= j]]

\* the rows of s that flush hands to SQLite
Chosen(f, s) ==
  {i \in 1..Len(s) :
     CASE TableOf[s[i]] = "process_snapshots" -> LevelOf[s[i]] # LastLevel(s, i)
       [] TableOf[s[i]] = "requests" -> ~(s[i] \in Superseded /\ SessionOf[s[i]] \in UNION known[f])
       [] OTHER -> TRUE}

\* INSERT OR REPLACE / INSERT OR IGNORE of the chosen rows of s, one by one
Inserted(seen, s, chosen) ==
  LET new == {i \in chosen :
                IF TableOf[s[i]] \in Replacing
                THEN \A j \in chosen : j > i => ~SamePK(Entry(s, i), Entry(s, j))
                ELSE /\ \A d \in seen : ~SamePK(d, Entry(s, i))
                     /\ \A j \in chosen : j < i => ~SamePK(Entry(s, i), Entry(s, j))}
      entries == {Entry(s, i) : i \in new}
  IN  {d \in seen : \A e \in entries : ~SamePK(d, e)} \cup entries

\* what the cache holds once the rows of s were filtered
Cached(s) == [k \in Keys |->
  LET mine == {i \in 1..Len(s) : TableOf[s[i]] = "process_snapshots" /\ KeyOf[s[i]] = k}
  IN  IF mine = {} THEN cache[k] ELSE LevelOf[s[CHOOSE i \in mine : \A j \in mine : j <= i]]]

-----------------------------------------------------------------------------
(* flush *)

Goto(f, step) == pc' = [pc EXCEPT ![f] = step]

\* the next table of f's batch that has rows, 0 when all are written
NextTable(f) ==
  LET left == {i \in 1..6 : i > at[f] /\ batch[f][Order[i]] # <<>>}
  IN  IF left = {} THEN 0 ELSE CHOOSE i \in left : \A j \in left : i <= j

\* a write transaction of another thread keeps f out; another process may meet
\* any statement with a lock (without WAL, a reader blocks the commit)
CanWrite(f) == using[f] = Shared \/ (disk = "ok" /\ \A c \in Flushers \ {f} : ~txn[c].open)

\* defect: one buffer is taken but not emptied
SwapKeepsEvents(f) ==
  /\ IF f = Loop THEN pc[f] = "idle" /\ ~closed ELSE pc[f] = "closing"
  /\ batch' = [batch EXCEPT ![f] = buf]
  /\ buf' = [Empty EXCEPT !["events"] = buf["events"]]
  /\ Goto(f, IF buf = Empty THEN "settle" ELSE "connect")
  /\ failed' = IF f = Loop THEN "none" ELSE failed
  /\ UNCHANGED <<at, known, using, connected, fileVars, mode, strikes, restVars, txn, cache, arrived, dropped, transcriptVars>>

\* the buffers change hands; the flush thread resets the error it watches
Swap(f) ==
  /\ IF f = Loop THEN pc[f] = "idle" /\ ~closed ELSE pc[f] = "closing"
  /\ batch' = [batch EXCEPT ![f] = buf]
  /\ buf' = Empty
  /\ Goto(f, IF buf = Empty THEN "settle" ELSE "connect")
  /\ failed' = IF f = Loop THEN "none" ELSE failed
  /\ UNCHANGED <<at, known, using, connected, fileVars, mode, strikes, restVars, txn, cache, arrived, dropped, transcriptVars>>

\* _conn: the thread's connection, opened when it has none yet
Connect(f) ==
  /\ pc[f] = "connect"
  /\ mode = "file" /\ f \notin connected => disk = "ok"
  /\ using' = [using EXCEPT ![f] = IF mode = "memory" THEN Shared ELSE f]
  /\ connected' = IF mode = "memory" THEN connected ELSE connected \cup {f}
  /\ Goto(f, "write")
  /\ at' = [at EXCEPT ![f] = 0]
  /\ known' = [known EXCEPT ![f] = {}]
  /\ UNCHANGED <<batch, fileVars, modeVars, restVars, buf, txn, cache, arrived, dropped, transcriptVars>>

\* the batch is dropped: this exception leaves flush() before its try
ConnectFails(f) ==
  /\ pc[f] = "connect" /\ mode = "file" /\ f \notin connected /\ disk # "ok"
  /\ batch' = [batch EXCEPT ![f] = Empty]
  /\ Goto(f, IF f = Loop THEN "idle" ELSE "closed")
  /\ UNCHANGED <<at, known, using, connected, fileVars, modeVars, restVars, buf, txn, cache, arrived, dropped, transcriptVars>>

\* _sessions_read_from_transcripts
ReadCovered(f) ==
  /\ pc[f] = "write" /\ NextTable(f) = 5 /\ known[f] = {}
  /\ known' = [known EXCEPT ![f] = {SeenCovered(using[f])}]
  /\ UNCHANGED <<batch, pc, at, using, connected, fileVars, modeVars, restVars, buf, txn, cache, arrived, dropped, transcriptVars>>

\* the chosen rows of table i's batch go into f's transaction; the snapshot
\* cache is updated before they do
WriteRows(f, i, chosen) ==
  LET s == batch[f][Order[i]]
      c == using[f]
  IN  /\ txn' = IF chosen = {} THEN txn
                ELSE [txn EXCEPT ![c] = [@ EXCEPT !.open = TRUE, !.rows = Inserted(Seen(c), s, chosen)]]
      /\ cache' = IF Order[i] = "process_snapshots" THEN Cached(s) ELSE cache

\* the rows of f's next table that it inserts
NextRows(f) == LET s == batch[f][Order[NextTable(f)]] IN {s[j] : j \in Chosen(f, s)}

\* f is about to insert the rows of a table
Inserting(f) == pc[f] = "write" /\ NextTable(f) # 0 /\ (NextTable(f) = 5 => known[f] # {})

Insert(f) ==
  LET i == NextTable(f)
  IN  /\ Inserting(f)
      /\ NextRows(f) = {} \/ CanWrite(f)
      /\ NextRows(f) \cap (Oversized \cup Unbindable) = {}
      /\ WriteRows(f, i, Chosen(f, batch[f][Order[i]]))
      /\ at' = [at EXCEPT ![f] = i]
      /\ UNCHANGED <<batch, pc, known, using, connected, fileVars, modeVars, restVars, buf, arrived, dropped, transcriptVars>>

\* an OverflowError is no sqlite3.Error: it leaves flush() with the rows before
\* it in the open transaction and the batch gone
RowRaises(f) ==
  LET s == batch[f][Order[NextTable(f)]]
      bad == {j \in Chosen(f, s) : s[j] \in Oversized \cup Unbindable}
  IN  /\ Inserting(f) /\ CanWrite(f)
      /\ \E j \in bad :
           /\ s[j] \in Oversized /\ \A k \in bad : j <= k
           /\ WriteRows(f, NextTable(f), {k \in Chosen(f, s) : k < j})
      /\ batch' = [batch EXCEPT ![f] = Empty]
      /\ Goto(f, IF f = Loop THEN "idle" ELSE "closed")
      /\ UNCHANGED <<at, known, using, connected, fileVars, modeVars, restVars, buf, arrived, dropped, transcriptVars>>

Commit(f) ==
  LET c == using[f]
  IN  /\ pc[f] = "write" /\ NextTable(f) = 0
      /\ txn[c].open => CanWrite(f)
      /\ store' = [store EXCEPT ![Source(c)] = Seen(c)]
      /\ transcripts' = [transcripts EXCEPT ![Source(c)] = SeenCovered(c)]
      /\ txn' = [txn EXCEPT ![c] = Ended]
      /\ batch' = [batch EXCEPT ![f] = Empty]
      /\ Goto(f, "settle")
      /\ UNCHANGED <<at, known, using, connected, modeVars, restVars, buf, cache, arrived, dropped, transcriptVars>>

\* an insert or the commit can meet a database that refuses to write
Refusable(f) ==
  \/ pc[f] = "write" /\ NextTable(f) = 0 /\ txn[using[f]].open
  \/ Inserting(f) /\ NextRows(f) # {}

\* why: the file is locked for longer than BUSY_TIMEOUT_S or broken, the
\* in-memory database is full, or a value has no SQLite type
Refused(f, why) ==
  \/ using[f] # Shared /\ ~CanWrite(f) /\ why = IF disk = "broken" THEN "broken" ELSE "locked"
  \/ using[f] = Shared /\ outages < MaxOutages /\ why = "full"
  \/ NextTable(f) # 0 /\ CanWrite(f) /\ NextRows(f) \cap Unbindable # {} /\ why = "other"

\* defect: no rollback
SqlFailsOpen(f) ==
  /\ Refusable(f)
  /\ \E why \in {"locked", "broken", "full", "other"} :
       /\ Refused(f, why)
       /\ failed' = why
       /\ outages' = IF why = "full" THEN outages + 1 ELSE outages
  /\ cache' = IF NextTable(f) = 2 THEN Cached(batch[f][Order[2]]) ELSE cache
  /\ Goto(f, "rebuffer")
  /\ UNCHANGED <<batch, at, known, using, connected, fileVars, mode, strikes, closed, disk, buf, txn, arrived, dropped, transcriptVars>>

\* a sqlite3.Error: the transaction is rolled back, the snapshot cache is not
SqlFails(f) ==
  /\ Refusable(f)
  /\ \E why \in {"locked", "broken", "full", "other"} :
       /\ Refused(f, why)
       /\ failed' = why
       /\ outages' = IF why = "full" THEN outages + 1 ELSE outages
  /\ txn' = [txn EXCEPT ![using[f]] = Ended]
  /\ cache' = IF NextTable(f) = 2 THEN Cached(batch[f][Order[2]]) ELSE cache
  /\ Goto(f, "rebuffer")
  /\ UNCHANGED <<batch, at, known, using, connected, fileVars, mode, strikes, closed, disk, buf, arrived, dropped, transcriptVars>>

Newest(s) == IF Len(s) > Cap THEN SubSeq(s, Len(s) - Cap + 1, Len(s)) ELSE s

\* defect: the requests are not put back
RebufferNoRequests(f) ==
  /\ pc[f] = "rebuffer"
  /\ buf' = [t \in Tables |-> IF t = "requests" THEN buf[t] ELSE Newest(batch[f][t] \o buf[t])]
  /\ batch' = [batch EXCEPT ![f] = Empty]
  /\ Goto(f, "settle")
  /\ UNCHANGED <<at, known, using, connected, fileVars, modeVars, restVars, txn, cache, arrived, dropped, transcriptVars>>

\* defect: the batch is put back behind the rows that came since
RebufferBehind(f) ==
  /\ pc[f] = "rebuffer"
  /\ buf' = [t \in Tables |-> Newest(buf[t] \o batch[f][t])]
  /\ dropped' = dropped \cup ((In(buf) \cup In(batch[f])) \ In(buf'))
  /\ batch' = [batch EXCEPT ![f] = Empty]
  /\ Goto(f, "settle")
  /\ UNCHANGED <<at, known, using, connected, fileVars, modeVars, restVars, txn, cache, arrived, transcriptVars>>

Rebuffer(f) ==
  /\ pc[f] = "rebuffer"
  /\ buf' = [t \in Tables |-> Newest(batch[f][t] \o buf[t])]
  /\ dropped' = dropped \cup ((In(buf) \cup In(batch[f])) \ In(buf'))
  /\ batch' = [batch EXCEPT ![f] = Empty]
  /\ Goto(f, "settle")
  /\ UNCHANGED <<at, known, using, connected, fileVars, modeVars, restVars, txn, cache, arrived, transcriptVars>>

-----------------------------------------------------------------------------
(* The flush loop, close and the file *)

\* enforce_budget on the in-memory database: rows go and, the connection being
\* shared, what is open on it is committed with them; nothing when it is under budget
Evict ==
  \/ UNCHANGED <<fileVars, txn>>
  \/ \E gone \in (SUBSET Seen(Shared)) \ {{}} :
        /\ store' = [store EXCEPT !["memory"] = Seen(Shared) \ gone]
        /\ transcripts' = [transcripts EXCEPT !["memory"] = SeenCovered(Shared)]
        /\ txn' = [txn EXCEPT ![Shared] = Ended]

\* defect: one failure too many is waited for
NoteFlushErrorLate ==
  \/ /\ mode = "memory"
     /\ Evict
     /\ UNCHANGED <<mode, strikes>>
  \/ /\ mode = "file" /\ failed = "locked"
     /\ strikes' = strikes + 1
     /\ mode' = IF strikes' > Patience THEN "memory" ELSE "file"
     /\ UNCHANGED <<fileVars, txn>>
  \/ /\ mode = "file" /\ failed # "locked"
     /\ mode' = IF failed \in {"broken", "full"} THEN "memory" ELSE "file"
     /\ UNCHANGED <<strikes, fileVars, txn>>

\* defect: a lock is never counted
NoteFlushErrorPatient ==
  \/ /\ mode = "memory"
     /\ Evict
     /\ UNCHANGED <<mode, strikes>>
  \/ /\ mode = "file"
     /\ mode' = IF failed \in {"broken", "full"} THEN "memory" ELSE "file"
     /\ UNCHANGED <<strikes, fileVars, txn>>

\* _note_flush_error (while VACUUM rewrites the file it returns at once: not modelled)
NoteFlushError ==
  \/ /\ mode = "memory"
     /\ Evict
     /\ UNCHANGED <<mode, strikes>>
  \/ /\ mode = "file" /\ failed = "locked"
     /\ strikes' = strikes + 1
     /\ mode' = IF strikes' >= Patience THEN "memory" ELSE "file"
     /\ UNCHANGED <<fileVars, txn>>
  \/ /\ mode = "file" /\ failed # "locked"
     /\ mode' = IF failed \in {"broken", "full"} THEN "memory" ELSE "file"
     /\ UNCHANGED <<strikes, fileVars, txn>>

\* the loop of the flush thread, once flush() returned
Settle ==
  /\ pc[Loop] = "settle"
  /\ IF failed = "none" THEN strikes' = 0 /\ UNCHANGED <<mode, fileVars, txn>> ELSE NoteFlushError
  /\ Goto(Loop, "idle")
  /\ UNCHANGED <<batch, at, known, using, connected, failed, restVars, buf, cache, arrived, dropped, transcriptVars>>

\* close: the flush thread is told to stop and waited for, but no longer than 5 seconds
Close ==
  /\ Closes /\ ~closed
  /\ closed' = TRUE
  /\ Goto(Closer, "closing")
  /\ UNCHANGED <<batch, at, known, using, connected, fileVars, modeVars, disk, outages, buf, txn, cache, arrived, dropped, transcriptVars>>

\* close returns, whatever flush did
CloseReturns ==
  /\ pc[Closer] = "settle"
  /\ Goto(Closer, "closed")
  /\ UNCHANGED <<batch, at, known, using, connected, fileVars, modeVars, restVars, buf, txn, cache, arrived, dropped, transcriptVars>>

\* another process locks or releases the file, the disk fills up
DiskChanges ==
  /\ \/ /\ disk = "ok" /\ outages < MaxOutages /\ outages' = outages + 1
        /\ disk' \in {"locked", "broken"}
     \/ disk = "locked" /\ disk' = "ok" /\ UNCHANGED outages
  /\ UNCHANGED <<flushVars, fileVars, modeVars, closed, buf, txn, cache, arrived, dropped, transcriptVars>>

TranscriptStep(s) == TranscriptWrite(s) \/ TranscriptUpsert(s) \/ TranscriptCommit(s) \/ TranscriptFails(s)

FlushStep(f) ==
  \/ Swap(f) \/ Connect(f) \/ ConnectFails(f) \/ ReadCovered(f) \/ Insert(f)
  \/ RowRaises(f) \/ Commit(f) \/ SqlFails(f) \/ Rebuffer(f)

WriteBehindNext ==
  \/ \E rows \in Calls : AppendRows(rows)
  \/ \E s \in Sessions : TranscriptStep(s)
  \/ \E f \in Flushers : FlushStep(f)
  \/ Settle \/ Close \/ CloseReturns \/ DiskChanges

WriteBehindSpec == WriteBehindInit /\ [][WriteBehindNext]_vars

(***************************************************************************)
(* The flush thread keeps running: sqlite3 waits at most BUSY_TIMEOUT_S    *)
(* and the loop swallows every exception.  Nothing is assumed of the file. *)
(***************************************************************************)
WriteBehindFairSpec == WriteBehindSpec /\ WF_vars(FlushStep(Loop) \/ Settle)

-----------------------------------------------------------------------------
(* Properties *)

Entries == [table : Tables, key : Keys \cup Rows, seq : Nat, row : Rows]
Places == {"idle", "connect", "write", "rebuffer", "settle", "closing", "closed"}

TypeOK ==
  /\ buf \in [Tables -> Seq(Rows)]
  /\ batch \in [Flushers -> [Tables -> Seq(Rows)]]
  /\ pc \in [Flushers -> Places]
  /\ at \in [Flushers -> 0..6]
  /\ known \in [Flushers -> SUBSET SUBSET Sessions]
  /\ using \in [Flushers -> Conns] /\ \A f \in Flushers : using[f] \in {f, Shared}
  /\ connected \subseteq Flushers
  /\ txn \in [Conns -> [open : BOOLEAN, rows : SUBSET Entries, covered : SUBSET Sessions]]
  /\ store \in [{"file", "memory"} -> SUBSET Entries]
  /\ transcripts \in [{"file", "memory"} -> SUBSET Sessions]
  /\ cache \in [Keys -> Levels \cup {Nothing}]
  /\ mode \in {"file", "memory"} /\ strikes \in 0..Patience
  /\ failed \in {"none", "locked", "broken", "full", "other"}
  /\ closed \in BOOLEAN /\ disk \in {"ok", "locked", "broken"} /\ outages \in 0..MaxOutages
  /\ writing \in {{}} \cup {{s} : s \in Sessions}
  /\ arrived \in Seq(Rows) /\ dropped \subseteq Rows /\ torn \subseteq Keys

(***************************************************************************)
(* "persists once" (test_storage.py:756): through swaps, failures, retries *)
(* and a close that overtakes the flush thread, a row waits in one place   *)
(* only, and none that waits is already in the file.                       *)
(***************************************************************************)
RetriesOnce ==
  /\ \A t \in Tables : Injective(buf[t]) /\ \A f \in Flushers : Injective(batch[f][t])
  /\ \A f \in Flushers : In(buf) \cap In(batch[f]) = {}
  /\ In(batch[Loop]) \cap In(batch[Closer]) = {}
  /\ Pending \cap Stored(store["file"]) = {}

\* r was appended before q
Before(r, q) == \E i, j \in 1..Len(arrived) : i < j /\ arrived[i] = r /\ arrived[j] = q

Everything == store["file"] \cup store["memory"]

\* the rows of r's process that are stored and older than r
Older(r) == {q \in Stored(Everything) : TableOf[q] = "process_snapshots" /\ KeyOf[q] = KeyOf[r] /\ Before(q, r)}

\* what the database says of r: the row itself, one that replaced it or that it
\* repeats, or for a process the level it already had
Represented(r) ==
  \/ r \in Stored(Everything)
  \/ /\ TableOf[r] \in {"system_snapshots", "requests", "tool_invocations"}
     /\ \E e \in Everything : e.table = TableOf[r] /\ e.key = KeyOf[r]
  \/ /\ r \in Superseded
     /\ \E m \in {"file", "memory"} : SessionOf[r] \in transcripts[m]
  \/ /\ TableOf[r] = "process_snapshots"
     /\ \E q \in Older(r) : LevelOf[q] = LevelOf[r] /\ \A p \in Older(r) : p = q \/ Before(p, q)

(***************************************************************************)
(* A row that stops waiting is represented in the database or counted as   *)
(* dropped: "retries the whole batch on the next flush instead of silently *)
(* dropping it" (storage.py:3062).  Excused are the rows, and later ones   *)
(* under their keys, whose flush into the in-memory database a transcript  *)
(* came into: "Transactions of different threads can interleave; this      *)
(* store is disposable, so that is fine" (storage.py:1789).                *)
(***************************************************************************)
NoSilentLoss ==
  [][\A r \in Pending :
       r \in Pending' \/ r \in dropped' \/ Represented(r)' \/ KeyOf[r] \in torn']_vars

(***************************************************************************)
(* "drop-oldest" (storage.py:3074): with one flushing thread no row is     *)
(* dropped while an older one of its table is kept.                        *)
(***************************************************************************)
DropsOldest ==
  [][\A r \in dropped' \ dropped, q \in In(buf') : TableOf[q] = TableOf[r] => Before(r, q)]_vars

(***************************************************************************)
(* "a half-applied batch is never committed by the NEXT flush"             *)
(* (storage.py:3056): every row that appears in the file belongs to the    *)
(* batch of the flush that commits.                                        *)
(***************************************************************************)
CommitsOwnBatch ==
  [][\A r \in Stored(store'["file"]) \ Stored(store["file"]) :
       \E f \in Flushers : pc[f] = "write" /\ pc'[f] = "settle" /\ r \in In(batch[f])]_vars

(***************************************************************************)
(* Every row stops waiting, even when the file stays locked or broken for  *)
(* ever: after enough failures the loop gives it up for memory.  Rows are  *)
(* finitely many and come once, so it is the same that again and again     *)
(* none waits.                                                             *)
(***************************************************************************)
NoneWaitsForever == []<>(Pending = {})
=============================================================================
