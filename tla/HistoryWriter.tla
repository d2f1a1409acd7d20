--------------------------- MODULE HistoryWriter ----------------------------
(***************************************************************************)
(* The history writer: it reads ScanRecords from a Redis stream, gathers   *)
(* them in memory and stores them in PostgreSQL, in batches. Two           *)
(* coroutines flush the batch, the reader when it is full and a timer; a   *)
(* third prunes what is too old. A process may be stopped or killed at     *)
(* any of their awaits and is started again with an empty memory.          *)
(***************************************************************************)
EXTENDS Integers, Sequences, FiniteSets, Functions

CONSTANTS
    EntryCount,          \* the entries of the stream are 1 .. EntryCount, in order
    ScanOf,        \* the scan that an entry is about: [1 .. EntryCount -> Scans]
    TenantOf,      \* the tenant of a scan
    Scans, Tenants,
    Unreadable,    \* entries that are no ScanRecord
    BatchSize,     \* settings.batch_size
    ReadCount,     \* count of XREADGROUP
    KillBudget,    \* bound: processes that are killed
    StopBudget,    \* bound: processes that get a SIGTERM
    RaiseBudget    \* bound: transactions and Redis commands that raise

ASSUME WriterAssumption ==
    /\ EntryCount \in Nat /\ Unreadable \subseteq 1 .. EntryCount
    /\ ScanOf \in [1 .. EntryCount -> Scans] /\ TenantOf \in [Scans -> Tenants]
    /\ BatchSize \in Nat \ {0} /\ ReadCount \in Nat \ {0}
    /\ KillBudget \in Nat /\ StopBudget \in Nat /\ RaiseBudget \in Nat

VARIABLES
    published, \* entries 1 .. published are in the stream
    delivered, \* entries 1 .. delivered were handed to some writer
    acked,     \* entries that are off the pending list
    rows,      \* table scans: which entry wrote the row last, and how old it is
    parts,     \* tables findings and artifacts: scans that have some
    fetched,   \* what consume has read and not yielded
    batch,     \* self._batch
    hand,      \* the batch that a flusher has taken
    at,        \* where the flushers are
    leaving,   \* the reader is in the finally of start
    life,      \* the process: up, stopping, down
    pool,      \* the connection pool: open, closing, closed
    stored,    \* history: entries that were committed
    lost,      \* history: entries that a process had in memory when it ended
    overlap,   \* history: both flushers had a batch at the same time
    kills, stops, raises

memory == <<fetched, batch, hand, at, leaving>>
base == <<rows, parts, stored>>
limits == <<kills, stops, raises>>
writerVars == <<published, delivered, acked, base, memory, life, pool, lost,
                overlap, limits>>

-----------------------------------------------------------------------------
Entries == 1 .. EntryCount
Flushers == {"reader", "timer"}

\* wait: for an entry, or for the interval to pass.
FlusherPlaces == {"wait", "acquire", "store", "ack", "gone"}

Rows == [scan : Scans, entry : Entries, old : BOOLEAN]

\* Everything that is only in this process.
InMemory == Range(fetched) \cup Range(batch)
                \cup UNION {Range(hand[f]) : f \in Flushers}

WriterTypeOK ==
    /\ published \in 0 .. EntryCount /\ delivered \in 0 .. published
    /\ acked \subseteq 1 .. delivered
    /\ rows \in SUBSET Rows /\ parts \in SUBSET Scans
    /\ fetched \in Seq(Entries) /\ batch \in Seq(Entries)
    /\ hand \in [Flushers -> Seq(Entries)]
    /\ at \in [Flushers -> FlusherPlaces] /\ leaving \in BOOLEAN
    /\ life \in {"up", "stopping", "down"}
    /\ pool \in {"open", "closing", "closed"}
    /\ stored \subseteq Entries /\ lost \subseteq Entries /\ overlap \in BOOLEAN
    /\ kills \in 0 .. KillBudget /\ stops \in 0 .. StopBudget
    /\ raises \in 0 .. RaiseBudget

WriterInit ==
    /\ published = 0 /\ delivered = 0 /\ acked = {}
    /\ rows = {} /\ parts = {} /\ stored = {}
    /\ fetched = <<>> /\ batch = <<>>
    /\ hand = [f \in Flushers |-> <<>>]
    /\ at = [f \in Flushers |-> "wait"]
    /\ leaving = FALSE /\ life = "up" /\ pool = "open"
    /\ lost = {} /\ overlap = FALSE
    /\ kills = 0 /\ stops = 0 /\ raises = 0

Move(f, place) == at' = [at EXCEPT ![f] = place]
Up == life # "down"
Reading == Up /\ at["reader"] = "wait" /\ ~leaving

\* stop closes Redis after the pool; commands may reconnect or raise from then on.
RedisClosed == life = "stopping" /\ pool = "closed"
MayRaise == raises < RaiseBudget \/ RedisClosed
Raise == raises' = IF RedisClosed THEN raises ELSE raises + 1

\* Where a flusher is when its flush has ended. The loop of the timer looks at
\* _stopping after each flush; the reader's flush in the finally is its last.
Resume(f) == IF \/ f = "reader" /\ leaving
                \/ f = "timer" /\ life = "stopping"
             THEN "gone" ELSE "wait"

-----------------------------------------------------------------------------
(* The stream.                                                             *)

\* ResultStream.publish, by a worker.
PublishRecord ==
    /\ published < EntryCount
    /\ published' = published + 1
    /\ UNCHANGED <<delivered, acked, base, memory, life, pool, lost, overlap,
                   limits>>

\* XREADGROUP ">": what no writer was handed before; nobody reads the pending list.
Fetch ==
    LET upTo == IF delivered + ReadCount < published
                THEN delivered + ReadCount ELSE published
    IN  /\ Reading /\ fetched = <<>>
        /\ delivered < published
        /\ delivered' = upTo
        /\ fetched' = [i \in 1 .. upTo - delivered |-> delivered + i]
        /\ UNCHANGED <<published, acked, base, batch, hand, at, leaving, life, pool,
                       lost, overlap, limits>>

\* An entry that does not parse is acknowledged and skipped.
Skip ==
    /\ Reading /\ fetched # <<>>
    /\ Head(fetched) \in Unreadable
    /\ acked' = acked \cup {Head(fetched)}
    /\ fetched' = Tail(fetched)
    /\ UNCHANGED <<published, delivered, base, batch, hand, at, leaving, life, pool,
                   lost, overlap, limits>>

Readable == Reading /\ fetched # <<>> /\ Head(fetched) \notin Unreadable

\* The batch goes to a flusher in one piece: the lock is never held across an
\* await, so taking it never waits.
Hold(f, b) ==
    /\ hand' = [hand EXCEPT ![f] = b]
    /\ overlap' = (overlap \/ (b # <<>> /\ \E g \in Flushers \ {f} : hand[g] # <<>>))

\* The body of the loop: append, and flush what has reached batch_size.
TakeEntry ==
    /\ Readable /\ life = "up"
    /\ fetched' = Tail(fetched)
    /\ LET filled == Append(batch, Head(fetched))
       IN  IF Len(filled) >= BatchSize
           THEN /\ batch' = <<>>
                /\ Hold("reader", filled) /\ Move("reader", "acquire")
           ELSE batch' = filled /\ UNCHANGED <<hand, at, overlap>>
    /\ UNCHANGED <<published, delivered, acked, base, leaving, life, pool, lost,
                   limits>>

\* The first entry after the signal ends the loop and is not taken.
Break ==
    /\ Readable /\ life = "stopping"
    /\ leaving' = TRUE
    /\ UNCHANGED <<published, delivered, acked, base, fetched, batch, hand, at,
                   life, pool, lost, overlap, limits>>

\* XREADGROUP raises: the finally of start runs.
ReadRaises ==
    /\ Reading /\ fetched = <<>> /\ MayRaise
    /\ leaving' = TRUE /\ Raise
    /\ UNCHANGED <<published, delivered, acked, base, fetched, batch, hand, at,
                   life, pool, lost, overlap, kills, stops>>

-----------------------------------------------------------------------------
(* Flushing.                                                               *)

\* Mutant: the flush loop only looks at what is full.
TickWhenFull ==
    /\ Up /\ at["timer"] = "wait" /\ Len(batch) >= BatchSize
    /\ Hold("timer", batch) /\ batch' = <<>> /\ Move("timer", "acquire")
    /\ UNCHANGED <<published, delivered, acked, base, fetched, leaving, life, pool,
                   lost, limits>>

\* _flush_loop after its sleep.
Tick ==
    /\ Up /\ at["timer"] = "wait" /\ batch # <<>>
    /\ Hold("timer", batch) /\ batch' = <<>> /\ Move("timer", "acquire")
    /\ UNCHANGED <<published, delivered, acked, base, fetched, leaving, life, pool,
                   lost, limits>>

\* The flush in the finally of start.
LastFlush ==
    /\ Up /\ leaving /\ at["reader"] = "wait"
    /\ Hold("reader", batch) /\ batch' = <<>>
    /\ Move("reader", IF batch = <<>> THEN "gone" ELSE "acquire")
    /\ UNCHANGED <<published, delivered, acked, base, fetched, leaving, life, pool,
                   lost, limits>>

\* pool.acquire.
Connect(f) ==
    /\ Up /\ at[f] = "acquire" /\ pool = "open"
    /\ Move(f, "store")
    /\ UNCHANGED <<published, delivered, acked, base, fetched, batch, hand, leaving,
                   life, pool, lost, overlap, limits>>

\* The last record of a batch that is about a scan.
LastOf(b, s) ==
    LET about == {i \in DOMAIN b : ScanOf[b[i]] = s}
    IN  b[CHOOSE i \in about : \A j \in about : j <= i]

\* _store_one for every record, in one transaction: ON CONFLICT (id) keeps the row
\* and overwrites the outcome, so that of several records of a scan the last stays.
Upsert(table, b) ==
    LET written == {ScanOf[e] : e \in Range(b)}
    IN  {r \in table : r.scan \notin written} \cup
            {[scan |-> s, entry |-> LastOf(b, s),
              old |-> \E r \in table : r.scan = s /\ r.old] : s \in written}

Commit(b) ==
    /\ rows' = Upsert(rows, b)
    /\ parts' = parts \cup {ScanOf[e] : e \in Range(b)}
    /\ stored' = stored \cup Range(b)

Store(f) ==
    /\ Up /\ at[f] = "store"
    /\ Commit(hand[f]) /\ Move(f, "ack")
    /\ UNCHANGED <<published, delivered, acked, fetched, batch, hand, leaving, life,
                   pool, lost, overlap, limits>>

\* Mutant: a batch that failed goes behind what came since.
AppendBatch(f) ==
    /\ batch' = batch \o hand[f]
    /\ hand' = [hand EXCEPT ![f] = <<>>] /\ Move(f, Resume(f))

\* What did not get into the database goes in front of what came since.
PutBack(f) ==
    /\ batch' = hand[f] \o batch
    /\ hand' = [hand EXCEPT ![f] = <<>>] /\ Move(f, Resume(f))

\* A pool that is closing or closed has no connection for anyone.
ConnectFails(f) ==
    /\ Up /\ at[f] = "acquire" /\ pool # "open"
    /\ PutBack(f)
    /\ UNCHANGED <<published, delivered, acked, base, fetched, leaving, life, pool,
                   lost, overlap, limits>>

\* The transaction raises: it was rolled back.
StoreFails(f) ==
    /\ Up /\ at[f] = "store" /\ raises < RaiseBudget
    /\ PutBack(f) /\ raises' = raises + 1
    /\ UNCHANGED <<published, delivered, acked, base, fetched, leaving, life, pool,
                   lost, overlap, kills, stops>>

\* The connection breaks after the commit.
StoreUnseen(f) ==
    /\ Up /\ at[f] = "store" /\ raises < RaiseBudget
    /\ Commit(hand[f]) /\ PutBack(f) /\ raises' = raises + 1
    /\ UNCHANGED <<published, delivered, acked, fetched, leaving, life, pool, lost,
                   overlap, kills, stops>>

\* Mutant: the batch is acknowledged before it is stored.
AckFirst(f) ==
    /\ Up /\ at[f] \in {"store", "ack"} /\ hand[f] # <<>>
    /\ acked' = acked \cup {Head(hand[f])}
    /\ IF at[f] = "ack"
       THEN /\ hand' = [hand EXCEPT ![f] = Tail(@)]
            /\ Move(f, IF Len(hand[f]) = 1 THEN Resume(f) ELSE "ack")
       ELSE UNCHANGED <<hand, at>>
    /\ UNCHANGED <<published, delivered, base, fetched, batch, leaving, life, pool,
                   lost, overlap, limits>>

\* One XACK for each record of the batch.
AckBatch(f) ==
    /\ Up /\ at[f] = "ack"
    /\ acked' = acked \cup {Head(hand[f])}
    /\ hand' = [hand EXCEPT ![f] = Tail(@)]
    /\ Move(f, IF Len(hand[f]) = 1 THEN Resume(f) ELSE "ack")
    /\ UNCHANGED <<published, delivered, base, fetched, batch, leaving, life, pool,
                   lost, overlap, limits>>

\* XACK raises: the exception ends the timer's loop for good, or the reader's.
AckRaises(f) ==
    /\ Up /\ at[f] = "ack" /\ MayRaise
    /\ hand' = [hand EXCEPT ![f] = <<>>]
    /\ Move(f, IF f = "timer" \/ leaving THEN "gone" ELSE "wait")
    /\ leaving' = (leaving \/ f = "reader")
    /\ Raise
    /\ UNCHANGED <<published, delivered, acked, base, fetched, batch, life, pool,
                   lost, overlap, kills, stops>>

Flush(f) == \/ Connect(f) \/ Store(f) \/ AckBatch(f) \/ ConnectFails(f)
FlushFails(f) == \/ StoreFails(f) \/ StoreUnseen(f) \/ AckRaises(f)

-----------------------------------------------------------------------------
(* The process and the database.                                           *)

\* Writer.stop, on SIGTERM, in a task of its own.
Stop ==
    /\ life = "up" /\ stops < StopBudget
    /\ life' = "stopping" /\ pool' = "closing" /\ stops' = stops + 1
    /\ UNCHANGED <<published, delivered, acked, base, memory, lost, overlap, kills,
                   raises>>

\* pool.close waits for the connections in use.
PoolCloses ==
    /\ pool = "closing" /\ \A f \in Flushers : at[f] # "store"
    /\ pool' = "closed"
    /\ UNCHANGED <<published, delivered, acked, base, memory, life, lost, overlap,
                   limits>>

WriterDies ==
    /\ life' = "down"
    /\ lost' = lost \cup InMemory
    /\ fetched' = <<>> /\ batch' = <<>> /\ leaving' = FALSE
    /\ hand' = [f \in Flushers |-> <<>>] /\ at' = [f \in Flushers |-> "wait"]
    /\ pool' = "open"

\* start has returned: the other tasks are cancelled wherever they are.
Exit ==
    /\ Up /\ at["reader"] = "gone"
    /\ WriterDies
    /\ UNCHANGED <<published, delivered, acked, base, overlap, limits>>

Kill ==
    /\ Up /\ kills < KillBudget
    /\ WriterDies /\ kills' = kills + 1
    /\ UNCHANGED <<published, delivered, acked, base, overlap, stops, raises>>

Restart ==
    /\ life = "down" /\ life' = "up"
    /\ UNCHANGED <<published, delivered, acked, base, memory, pool, lost, overlap,
                   limits>>

\* Time passes for one row.
GrowOld(s) ==
    /\ \E r \in rows : r.scan = s /\ ~r.old
    /\ rows' = {IF r.scan = s THEN [r EXCEPT !.old = TRUE] ELSE r : r \in rows}
    /\ UNCHANGED <<published, delivered, acked, parts, stored, memory, life, pool,
                   lost, overlap, limits>>

\* Database.prune: DELETE FROM scans, and by ON DELETE CASCADE what refers to them.
Prune ==
    /\ Up /\ pool = "open" /\ \E r \in rows : r.old
    /\ rows' = {r \in rows : ~r.old}
    /\ parts' = parts \ {r.scan : r \in {q \in rows : q.old}}
    /\ UNCHANGED <<published, delivered, acked, stored, memory, life, pool, lost,
                   overlap, limits>>

ReaderStep == \/ Fetch \/ Skip \/ TakeEntry \/ Break \/ LastFlush \/ Exit
WriterNext ==
    \/ PublishRecord \/ ReaderStep \/ ReadRaises \/ Tick
    \/ \E f \in Flushers : Flush(f) \/ FlushFails(f)
    \/ Stop \/ PoolCloses \/ Kill \/ Restart
    \/ (\E s \in Scans : GrowOld(s)) \/ Prune

WriterSpec == WriterInit /\ [][WriterNext]_writerVars

\* The coroutines run, asyncpg and Redis answer or raise, Docker restarts the writer.
WriterFairness ==
    /\ WF_writerVars(ReaderStep) /\ WF_writerVars(Tick)
    /\ \A f \in Flushers : WF_writerVars(Flush(f))
    /\ WF_writerVars(PoolCloses) /\ WF_writerVars(Restart)

FairWriterSpec == WriterSpec /\ WriterFairness

-----------------------------------------------------------------------------
(* Properties.                                                             *)

\* Only what is in the database is acknowledged, apart from what is no record
\* (_flush: the acknowledgement after the commit).
AckedIsStored == acked \ Unreadable \subseteq stored

\* What a writer was handed is acknowledged, in the database, in its memory, or was
\* in the memory of a writer that ended: a failed transaction loses nothing.
ReadIsAccountedFor ==
    1 .. delivered \subseteq acked \cup stored \cup InMemory \cup lost

Within(seq, e) == Cardinality({i \in DOMAIN seq : seq[i] = e})
CopiesHeld(e) == Within(fetched, e) + Within(batch, e)
                     + Within(hand["reader"], e) + Within(hand["timer"], e)

\* Reader and timer never hold the same record twice (_flush_pending takes the
\* batch and leaves none).
HeldOnce == \A e \in InMemory : CopiesHeld(e) = 1

\* As long as the two flushers never had a batch at once, a row shows the last
\* record of its scan that was stored, whatever failed and was stored again.
RowShowsTheLatest ==
    ~overlap => \A r \in rows : \A e \in stored : ScanOf[e] = r.scan => e <= r.entry

\* usage.collect for one tenant: how many rows the tenant has.
ScansOf(t) == Cardinality({r \in rows : TenantOf[r.scan] = t})

\* However often its records were stored, a scan is billed once, and nothing
\* refers to a scan that was pruned.
BilledOnce ==
    /\ \A t \in Tenants : ScansOf(t) = Cardinality({r.scan : r \in rows} \cap
                                                   {s \in Scans : TenantOf[s] = t})
    /\ parts = {r.scan : r \in rows}

\* The books of the writer balance: stream, memory, database and bill agree on
\* every record, whichever step raised and whenever the process ended.
WriterInv ==
    /\ WriterTypeOK /\ AckedIsStored /\ ReadIsAccountedFor /\ HeldOnce /\ BilledOnce

\* A record that a writer has taken gets into the database, also when the batch
\* never fills, unless the process ends before or its timer was ended by an XACK.
TakenIsStored ==
    \A e \in Entries :
        (e \in Range(batch)) ~> (e \in stored \cup lost \/ at["timer"] = "gone")

\* The finally of start stores what is left ("Незаписанное дописываем на выходе"): when
\* a writer whose commands all succeeded has left its loop, its batch is empty.
StopEmptiesTheBatch == at["reader"] = "gone" /\ raises = 0 => batch = <<>>

=============================================================================
