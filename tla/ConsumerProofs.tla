---------------------------- MODULE ConsumerProofs ----------------------------
(***************************************************************************)
(* Proofs about the consumers of what the workers leave behind.            *)
(*                                                                         *)
(* HistoryWriter: the books of the writer balance, and a row of the        *)
(* database shows the last record of its scan, for every stream, every     *)
(* size of a batch and every number of kills, stops and failures.          *)
(*                                                                         *)
(* Notifier: no task is forgotten, no manifest announces a file that is    *)
(* not there, and the attempts at a task are bounded, for any number of    *)
(* processes, tasks, attempts, deaths and faults.                          *)
(***************************************************************************)
EXTENDS HistoryWriter, Notifier, SequenceTheorems, FiniteSetTheorems, WellFoundedInduction, TLAPS

Distinct(s) == \A i, j \in DOMAIN s : s[i] = s[j] => i = j
Increasing(s) == \A i, j \in DOMAIN s : i < j => s[i] < s[j]
Below(S, T) == \A x \in S, y \in T : x < y

-----------------------------------------------------------------------------
(* The inductive invariant *)

(* A flusher has a batch exactly while it is flushing, and one that it     *)
(* acknowledges is in the database. *)
HandsFit ==
    \A f \in Flushers :
        /\ hand[f] = <<>> <=> at[f] \in {"wait", "gone"}
        /\ at[f] = "ack" => Range(hand[f]) \subseteq stored

(* What this process has was handed out, and so was what is stored. *)
HeldIsDelivered ==
    InMemory \subseteq 1 .. delivered /\ stored \subseteq 1 .. delivered

(* The four places of the memory share no entry, and none has one twice. *)
HeldApart ==
    /\ Distinct(fetched) /\ Distinct(batch) /\ \A f \in Flushers : Distinct(hand[f])
    /\ Range(fetched) \cap Range(batch) = {}
    /\ \A f \in Flushers : Range(hand[f]) \cap (Range(fetched) \cup Range(batch)) = {}
    /\ Range(hand["reader"]) \cap Range(hand["timer"]) = {}

(* One row for a scan, written by an entry about that scan, and nothing    *)
(* refers to a scan without a row. *)
RowsAreKeyed ==
    /\ \A r \in rows : r.scan = ScanOf[r.entry]
    /\ \A r, q \in rows : r.scan = q.scan => r = q
    /\ parts = {r.scan : r \in rows}

(* What a piece of the memory holds is as new as anything that is stored,  *)
(* unless that is in the same piece, to be stored again. *)
NewerThanStored(S) == \A e \in stored \ S : \A m \in S : e < m

(* As long as one flusher at a time had a batch: the memory is in the      *)
(* order of the stream, from the batch that is being flushed to what was   *)
(* fetched last, and what is new in it is newer than what is stored. *)
HeldInOrder ==
    /\ hand["reader"] = <<>> \/ hand["timer"] = <<>>
    /\ Increasing(fetched) /\ Increasing(batch) /\ \A f \in Flushers : Increasing(hand[f])
    /\ Below(Range(batch), Range(fetched)) /\ Below(stored, Range(fetched))
    /\ \A f \in Flushers : Below(Range(hand[f]), Range(batch) \cup Range(fetched))
    /\ NewerThanStored(Range(batch)) /\ \A f \in Flushers : NewerThanStored(Range(hand[f]))

WriterIInv ==
    /\ WriterTypeOK /\ HandsFit /\ HeldIsDelivered /\ HeldApart /\ RowsAreKeyed
    /\ AckedIsStored /\ ReadIsAccountedFor
    /\ (~overlap => HeldInOrder) /\ RowShowsTheLatest

-----------------------------------------------------------------------------
(* The constants *)

LEMMA EntryFacts ==
    /\ EntryCount \in Nat /\ Entries = 1 .. EntryCount /\ Entries \subseteq Nat
    /\ \A e \in Entries : ScanOf[e] \in Scans
    BY WriterAssumption DEF Entries

LEMMA BudgetFacts ==
    /\ BatchSize \in Nat \ {0} /\ ReadCount \in Nat \ {0}
    /\ KillBudget \in Nat /\ StopBudget \in Nat /\ RaiseBudget \in Nat
    BY WriterAssumption

-----------------------------------------------------------------------------
(* Sequences: what is in one, once and in order, after each operation on   *)
(* it. *)

LEMMA OfNone == Range(<<>>) = {} /\ Distinct(<<>>) /\ Increasing(<<>>)
    BY DEF Range, Distinct, Increasing

LEMMA OfAny ==
    ASSUME NEW S, NEW s \in Seq(S)
    PROVE  Range(s) \subseteq S /\ (s # <<>> => Range(s) # {})
    <1>1. DOMAIN s = 1 .. Len(s) /\ Len(s) \in Nat /\ \A i \in 1 .. Len(s) : s[i] \in S
        BY ElementOfSeq, LenProperties
    <1>2. s # <<>> => Len(s) # 0
        BY EmptySeq
    <1> QED
        BY <1>1, <1>2 DEF Range

LEMMA OfTail ==
    ASSUME NEW s \in Seq(Entries), s # <<>>
    PROVE  /\ Tail(s) \in Seq(Entries) /\ Head(s) \in Range(s)
           /\ Range(s) = {Head(s)} \cup Range(Tail(s)) /\ Range(Tail(s)) \subseteq Range(s)
           /\ Distinct(s) => Distinct(Tail(s)) /\ Head(s) \notin Range(Tail(s))
           /\ Increasing(s) => Increasing(Tail(s)) /\ Below({Head(s)}, Range(Tail(s)))
    <1>1. /\ Tail(s) \in Seq(Entries) /\ Len(Tail(s)) = Len(s) - 1 /\ Len(s) \in Nat \ {0}
          /\ \A i \in 1 .. Len(Tail(s)) : Tail(s)[i] = s[i + 1]
        BY HeadTailProperties, EmptySeq
    <1>2. DOMAIN s = 1 .. Len(s) /\ DOMAIN Tail(s) = 1 .. Len(s) - 1 /\ Head(s) = s[1]
        BY <1>1, LenProperties
    <1>3. \A i \in DOMAIN s : s[i] \in Nat
        BY <1>2, ElementOfSeq, EntryFacts
    <1>4. \A i \in DOMAIN Tail(s) : i + 1 \in DOMAIN s /\ Tail(s)[i] = s[i + 1]
        BY <1>1, <1>2
    <1>5. \A i \in DOMAIN s : i # 1 => i - 1 \in DOMAIN Tail(s) /\ Tail(s)[i - 1] = s[i]
        BY <1>1, <1>2
    <1>6. Range(s) = {Head(s)} \cup Range(Tail(s)) /\ Head(s) \in Range(s)
        BY <1>1, <1>2, <1>4, <1>5 DEF Range
    <1>7. Distinct(s) => Distinct(Tail(s)) /\ Head(s) \notin Range(Tail(s))
        BY <1>1, <1>2, <1>4 DEF Distinct, Range
    <1>8. Increasing(s) => Increasing(Tail(s)) /\ Below({Head(s)}, Range(Tail(s)))
        BY <1>1, <1>2, <1>3, <1>4 DEF Increasing, Below, Range
    <1> QED
        BY <1>1, <1>6, <1>7, <1>8

LEMMA OfConcat ==
    ASSUME NEW s \in Seq(Entries), NEW t \in Seq(Entries)
    PROVE  /\ s \o t \in Seq(Entries) /\ Range(s \o t) = Range(s) \cup Range(t)
           /\ (s # <<>> \/ t # <<>>) => s \o t # <<>>
           /\ Distinct(s) /\ Distinct(t) /\ Range(s) \cap Range(t) = {} => Distinct(s \o t)
           /\ Increasing(s) /\ Increasing(t) /\ Below(Range(s), Range(t)) => Increasing(s \o t)
    <1> DEFINE m == Len(s)
               n == Len(t)
    <1>1. /\ s \o t \in Seq(Entries) /\ Len(s \o t) = m + n
          /\ \A i \in 1 .. m + n : (s \o t)[i] = IF i <= m THEN s[i] ELSE t[i - m]
        BY ConcatProperties
    <1>2. /\ m \in Nat /\ n \in Nat /\ DOMAIN s = 1 .. m /\ DOMAIN t = 1 .. n
          /\ DOMAIN (s \o t) = 1 .. m + n
        BY <1>1, LenProperties
    <1>3. Range(s \o t) = Range(s) \cup Range(t)
        BY RangeConcatenation
    <1>4. (s # <<>> \/ t # <<>>) => s \o t # <<>>
        BY ConcatEqualIffEmpty
    <1>5. \A i \in 1 .. m + n : \/ i \in 1 .. m /\ (s \o t)[i] = s[i] /\ s[i] \in Range(s)
                                \/ i - m \in 1 .. n /\ (s \o t)[i] = t[i - m] /\ t[i - m] \in Range(t)
        BY <1>1, <1>2 DEF Range
    <1> HIDE DEF m, n
    <1>6. Distinct(s) /\ Distinct(t) /\ Range(s) \cap Range(t) = {} => Distinct(s \o t)
        BY SMTT(30), <1>2, <1>5 DEF Distinct
    <1>7. Increasing(s) /\ Increasing(t) /\ Below(Range(s), Range(t)) => Increasing(s \o t)
        <2> SUFFICES ASSUME Increasing(s), Increasing(t), Below(Range(s), Range(t)),
                            NEW i \in 1 .. m + n, NEW j \in 1 .. m + n, i < j
                     PROVE  (s \o t)[i] < (s \o t)[j]
            BY <1>2 DEF Increasing
        <2>1. CASE i \in 1 .. m /\ j \in 1 .. m
            BY SMTT(30), <1>1, <1>2, <2>1 DEF Increasing
        <2>2. CASE i \in 1 .. m /\ j - m \in 1 .. n
            BY <1>1, <1>2, <1>5, <2>2 DEF Below
        <2>3. CASE i - m \in 1 .. n /\ j - m \in 1 .. n
            <3>1. i - m < j - m /\ ~ (i <= m) /\ ~ (j <= m)
                BY <1>2, <2>3
            <3>2. t[i - m] < t[j - m]
                BY <1>2, <2>3, <3>1 DEF Increasing
            <3> QED
                BY <1>1, <3>1, <3>2
        <2> QED
            BY <1>2, <2>1, <2>2, <2>3
    <1> QED
        BY <1>1, <1>3, <1>4, <1>6, <1>7

LEMMA OfAppend ==
    ASSUME NEW s \in Seq(Entries), NEW e \in Entries
    PROVE  /\ Append(s, e) \in Seq(Entries) /\ Range(Append(s, e)) = Range(s) \cup {e}
           /\ Append(s, e) # <<>>
           /\ Distinct(s) /\ e \notin Range(s) => Distinct(Append(s, e))
           /\ Increasing(s) /\ Below(Range(s), {e}) => Increasing(Append(s, e))
    <1>1. <<e>> \in Seq(Entries) /\ <<e>> # <<>> /\ Append(s, e) = s \o <<e>>
        BY AppendIsConcat
    <1>2. Range(<<e>>) = {e} /\ Distinct(<<e>>) /\ Increasing(<<e>>)
        BY DEF Range, Distinct, Increasing
    <1>3. /\ s \o <<e>> \in Seq(Entries) /\ Range(s \o <<e>>) = Range(s) \cup {e}
          /\ s \o <<e>> # <<>>
        BY <1>1, <1>2, OfConcat
    <1>4. ASSUME Distinct(s), e \notin Range(s) PROVE Distinct(s \o <<e>>)
        <2>1. Range(s) \cap Range(<<e>>) = {}
            BY <1>2, <1>4
        <2> QED
            BY <1>1, <1>2, <1>4, <2>1, OfConcat
    <1>5. ASSUME Increasing(s), Below(Range(s), {e}) PROVE Increasing(s \o <<e>>)
        <2>1. Below(Range(s), Range(<<e>>))
            BY <1>2, <1>5
        <2> QED
            BY <1>1, <1>2, <1>5, <2>1, OfConcat
    <1> QED
        BY <1>1, <1>3, <1>4, <1>5

(* What XREADGROUP returns. *)
LEMMA OfFetched ==
    ASSUME NEW d \in Nat, NEW k \in Nat, d + k \in 0 .. EntryCount
    PROVE  LET s == [i \in 1 .. k |-> d + i]
           IN  /\ s \in Seq(Entries) /\ Range(s) = d + 1 .. d + k
               /\ Distinct(s) /\ Increasing(s)
    <1> DEFINE s == [i \in 1 .. k |-> d + i]
    <1>1. s \in Seq(Entries)
        BY EntryFacts, IsASeq
    <1>2. Range(s) = d + 1 .. d + k
        <2>1. Range(s) \subseteq d + 1 .. d + k
            BY DEF Range
        <2>2. ASSUME NEW x \in d + 1 .. d + k PROVE x \in Range(s)
            <3>1. x - d \in 1 .. k /\ s[x - d] = x
                BY <2>2
            <3> QED
                BY <3>1 DEF Range
        <2> QED
            BY <2>1, <2>2
    <1>3. Distinct(s) /\ Increasing(s)
        BY DEF Distinct, Increasing
    <1> QED
        BY <1>1, <1>2, <1>3

(* The last place in a sequence that is in a set. *)
LEMMA LastPlace ==
    ASSUME NEW n \in Nat, NEW P \in SUBSET (1 .. n), P # {}
    PROVE  \E i \in P : \A j \in P : j <= i
    <1> DEFINE T == {n - i : i \in P}
    <1>1. T \subseteq Nat /\ T # {}
        <2>1. ASSUME NEW i \in P PROVE n - i \in Nat
            <3>1. i \in 1 .. n
                OBVIOUS
            <3> QED
                BY <3>1
        <2> QED
            BY <2>1
    <1>2. \E x \in T : \A y \in T : ~ (<<y, x>> \in OpToRel(<, Nat))
        BY <1>1, WFMin, NatLessThanWellFounded
    <1>3. PICK x \in T : \A y \in T : ~ (y < x)
        BY <1>1, <1>2 DEF OpToRel
    <1>4. PICK i \in P : x = n - i
        BY <1>3
    <1>5. ASSUME NEW j \in P PROVE j <= i
        <2>1. ~ (n - j < n - i)
            BY <1>3, <1>4
        <2>2. i \in 1 .. n /\ j \in 1 .. n
            OBVIOUS
        <2> QED
            BY <2>1, <2>2
    <1> QED
        BY <1>5

LEMMA LastOfIsLast ==
    ASSUME NEW b \in Seq(Entries), NEW s \in {ScanOf[e] : e \in Range(b)}
    PROVE  /\ LastOf(b, s) \in Range(b) /\ ScanOf[LastOf(b, s)] = s
           /\ Increasing(b) => \A e \in Range(b) : ScanOf[e] = s => e <= LastOf(b, s)
    <1> DEFINE about == {i \in DOMAIN b : ScanOf[b[i]] = s}
               last == CHOOSE i \in about : \A j \in about : j <= i
    <1>1. Len(b) \in Nat /\ DOMAIN b = 1 .. Len(b) /\ \A i \in DOMAIN b : b[i] \in Entries
        BY LenProperties, ElementOfSeq
    <1>2. about \in SUBSET (1 .. Len(b)) /\ about # {}
        BY <1>1 DEF Range
    <1>3. last \in about /\ \A j \in about : j <= last
        <2>1. \E i \in about : \A j \in about : j <= i
            BY <1>1, <1>2, LastPlace
        <2> QED
            BY <2>1
    <1>4. LastOf(b, s) = b[last]
        BY DEF LastOf
    <1> HIDE DEF last
    <1>5. b[last] \in Range(b) /\ ScanOf[b[last]] = s
        BY <1>3 DEF Range
    <1>6. ASSUME Increasing(b), NEW e \in Range(b), ScanOf[e] = s PROVE e <= b[last]
        <2>1. PICK j \in DOMAIN b : e = b[j]
            BY DEF Range
        <2>2. j \in about /\ j <= last
            BY <1>3, <1>6, <2>1
        <2>3. last \in DOMAIN b /\ j < last => b[j] < b[last]
            BY <1>3, <1>6, <2>1 DEF Increasing
        <2>4. b[j] \in Nat /\ b[last] \in Nat /\ j \in Nat /\ last \in Nat
            BY <1>1, <1>3, <2>1, EntryFacts
        <2>5. j < last \/ j = last
            BY <2>2, <2>4
        <2> QED
            BY <1>3, <2>1, <2>3, <2>4, <2>5
    <1> QED
        BY <1>4, <1>5, <1>6

-----------------------------------------------------------------------------
(* The steps, by what they do to the memory and to the books               *)

books == <<delivered, acked, stored, lost>>

(* No entry moves. *)
Rests ==
    /\ UNCHANGED <<books, fetched, batch, hand, overlap>>
    /\ \/ UNCHANGED at
       \/ \E f \in Flushers : at[f] = "acquire" /\ at' = [at EXCEPT ![f] = "store"]

Fetches ==
    \E k \in Nat :
        /\ delivered + k <= published /\ delivered' = delivered + k
        /\ fetched = <<>> /\ fetched' = [i \in 1 .. k |-> delivered + i]
        /\ UNCHANGED <<published, acked, stored, lost, batch, hand, at, overlap>>

Skips ==
    /\ fetched # <<>> /\ Head(fetched) \in Unreadable
    /\ acked' = acked \cup {Head(fetched)} /\ fetched' = Tail(fetched)
    /\ UNCHANGED <<delivered, stored, lost, batch, hand, at, overlap>>

Gathers ==
    /\ fetched # <<>> /\ fetched' = Tail(fetched)
    /\ batch' = Append(batch, Head(fetched))
    /\ UNCHANGED <<books, hand, at, overlap>>

(* A flusher takes a batch, with what was fetched last or without. *)
GathersAndTakes ==
    /\ fetched # <<>> /\ fetched' = Tail(fetched)
    /\ at["reader"] = "wait" /\ Hold("reader", Append(batch, Head(fetched)))
    /\ batch' = <<>> /\ at' = [at EXCEPT !["reader"] = "acquire"]
    /\ UNCHANGED books

Takes(f) ==
    /\ at[f] = "wait" /\ Hold(f, batch) /\ batch' = <<>>
    /\ at' = [at EXCEPT ![f] = IF batch = <<>> THEN "gone" ELSE "acquire"]
    /\ UNCHANGED <<books, fetched>>

Commits(f) ==
    /\ at[f] = "store" /\ Commit(hand[f]) /\ at' = [at EXCEPT ![f] = "ack"]
    /\ UNCHANGED <<delivered, acked, lost, fetched, batch, hand, overlap>>

(* A batch goes back; it may have been committed for all that. *)
Returns(f) ==
    /\ at[f] \in {"acquire", "store"}
    /\ batch' = hand[f] \o batch /\ hand' = [hand EXCEPT ![f] = <<>>]
    /\ \E there \in {"wait", "gone"} : at' = [at EXCEPT ![f] = there]
    /\ UNCHANGED stored \/ Commit(hand[f])
    /\ UNCHANGED <<delivered, acked, lost, fetched, overlap>>

Acks(f) ==
    /\ at[f] = "ack" /\ acked' = acked \cup {Head(hand[f])}
    /\ hand' = [hand EXCEPT ![f] = Tail(@)]
    /\ \/ Len(hand[f]) = 1 /\ \E there \in {"wait", "gone"} : at' = [at EXCEPT ![f] = there]
       \/ Len(hand[f]) # 1 /\ UNCHANGED at
    /\ UNCHANGED <<delivered, stored, lost, fetched, batch, overlap>>

Drops(f) ==
    /\ at[f] = "ack" /\ hand' = [hand EXCEPT ![f] = <<>>]
    /\ \E there \in {"wait", "gone"} : at' = [at EXCEPT ![f] = there]
    /\ UNCHANGED <<books, fetched, batch, overlap>>

Dies ==
    /\ lost' = lost \cup InMemory /\ fetched' = <<>> /\ batch' = <<>>
    /\ hand' = [f \in Flushers |-> <<>>] /\ at' = [f \in Flushers |-> "wait"]
    /\ UNCHANGED <<delivered, acked, stored, overlap>>

WriterShapes ==
    \/ Rests \/ Fetches \/ Skips \/ Gathers \/ GathersAndTakes \/ Dies
    \/ \E f \in Flushers : Takes(f) \/ Commits(f) \/ Returns(f) \/ Acks(f) \/ Drops(f)

LEMMA WriterStepShapes ==
    ASSUME WriterTypeOK, [WriterNext]_writerVars
    PROVE  WriterShapes
    <1>1. Flushers = {"reader", "timer"}
        BY DEF Flushers
    <1>2. at \in [Flushers -> FlusherPlaces]
        BY DEF WriterTypeOK
    <1>3. CASE PublishRecord \/ Break \/ ReadRaises \/ Stop \/ PoolCloses \/ Restart \/ Prune
                  \/ \E s \in Scans : GrowOld(s)
        BY <1>3 DEF PublishRecord, Break, ReadRaises, Stop, PoolCloses,
           Restart, Prune, GrowOld, WriterShapes, Rests, books, memory, base
    <1>4. CASE Fetch
        <2> DEFINE upTo == IF delivered + ReadCount < published
                           THEN delivered + ReadCount ELSE published
        <2>1. /\ upTo - delivered \in Nat /\ delivered + (upTo - delivered) = upTo
              /\ upTo <= published
            BY <1>4, EntryFacts, BudgetFacts DEF Fetch, WriterTypeOK
        <2>2. /\ delivered' = upTo /\ fetched = <<>>
              /\ fetched' = [i \in 1 .. upTo - delivered |-> delivered + i]
              /\ UNCHANGED <<published, acked, stored, lost, batch, hand, at, overlap>>
            BY <1>4 DEF Fetch, base
        <2> HIDE DEF upTo
        <2>3. Fetches
            BY <2>1, <2>2 DEF Fetches
        <2> QED
            BY <2>3 DEF WriterShapes
    <1>5. CASE Skip
        BY <1>5 DEF Skip, WriterShapes, Skips, base
    <1>6. CASE TakeEntry
        BY <1>6 DEF TakeEntry, Readable, Reading, WriterShapes, Gathers,
           GathersAndTakes, books, base, Move
    <1>7. CASE LastFlush
        <2>1. Takes("reader")
            BY <1>7 DEF LastFlush, Takes, Move, books, base
        <2> QED
            BY <1>1, <2>1 DEF WriterShapes
    <1>8. CASE Tick
        <2>1. Takes("timer")
            BY <1>8 DEF Tick, Takes, Move, books, base
        <2> QED
            BY <1>1, <2>1 DEF WriterShapes
    <1>9. CASE Exit \/ Kill
        BY <1>9 DEF Exit, Kill, WriterDies, WriterShapes, Dies, base
    <1>10. ASSUME NEW f \in Flushers, Flush(f) \/ FlushFails(f) PROVE WriterShapes
        <2>1. CASE Connect(f)
            BY <2>1 DEF Connect, Move, WriterShapes, Rests, books, base
        <2>2. CASE Store(f)
            BY <2>2 DEF Store, Move, WriterShapes, Commits
        <2>3. CASE AckBatch(f)
            <3>1. Acks(f)
                BY <1>2, <2>3 DEF AckBatch, Move, Resume, Acks, base
            <3> QED
                BY <3>1 DEF WriterShapes
        <2>4. CASE ConnectFails(f) \/ StoreFails(f) \/ StoreUnseen(f)
            <3>1. Returns(f)
                BY <2>4 DEF ConnectFails, StoreFails, StoreUnseen, PutBack,
                   Move, Resume, Returns, base
            <3> QED
                BY <3>1 DEF WriterShapes
        <2>5. CASE AckRaises(f)
            <3>1. Drops(f)
                BY <2>5 DEF AckRaises, Move, Drops, books, base
            <3> QED
                BY <3>1 DEF WriterShapes
        <2> QED
            BY <1>10, <2>1, <2>2, <2>3, <2>4, <2>5 DEF Flush, FlushFails
    <1>11. CASE UNCHANGED writerVars
        BY <1>11 DEF writerVars, memory, base, WriterShapes, Rests, books
    <1> QED
        BY <1>3, <1>4, <1>5, <1>6, <1>7, <1>8, <1>9, <1>10, <1>11
           DEF WriterNext, ReaderStep

-----------------------------------------------------------------------------
(* Types *)

MemoryTypes ==
    /\ fetched \in Seq(Entries) /\ batch \in Seq(Entries)
    /\ hand \in [Flushers -> Seq(Entries)]
    /\ at \in [Flushers -> FlusherPlaces]

BookTypes ==
    /\ published \in 0 .. EntryCount /\ delivered \in 0 .. published
    /\ acked \subseteq 1 .. delivered /\ stored \subseteq Entries /\ lost \subseteq Entries

ProcessTypes ==
    /\ overlap \in BOOLEAN /\ leaving \in BOOLEAN
    /\ life \in {"up", "stopping", "down"} /\ pool \in {"open", "closing", "closed"}
    /\ kills \in 0 .. KillBudget /\ stops \in 0 .. StopBudget /\ raises \in 0 .. RaiseBudget

(* Everything in the memory is one of the entries that were handed out. *)
LEMMA HeldOfDelivered ==
    ASSUME MemoryTypes, HeldIsDelivered
    PROVE  /\ Range(fetched) \subseteq 1 .. delivered /\ Range(batch) \subseteq 1 .. delivered
           /\ \A f \in Flushers : Range(hand[f]) \subseteq 1 .. delivered
    BY DEF HeldIsDelivered, InMemory

(* What the reader leaves and what it has when it takes an entry.          *)
LEMMA HeadOfFetched ==
    ASSUME MemoryTypes, fetched # <<>>
    PROVE  /\ Head(fetched) \in Entries /\ Head(fetched) \in Range(fetched)
           /\ Tail(fetched) \in Seq(Entries) /\ Append(batch, Head(fetched)) \in Seq(Entries)
           /\ Append(batch, Head(fetched)) # <<>>
           /\ Range(fetched) = {Head(fetched)} \cup Range(Tail(fetched))
           /\ Range(Append(batch, Head(fetched))) = Range(batch) \cup {Head(fetched)}
    <1>1. fetched \in Seq(Entries) /\ batch \in Seq(Entries)
        BY DEF MemoryTypes
    <1>2. Head(fetched) \in Entries
        BY <1>1, HeadTailProperties
    <1> QED
        BY <1>1, <1>2, OfTail, OfAppend

LEMMA MemoryTypesNext ==
    ASSUME MemoryTypes, BookTypes, HandsFit, WriterShapes
    PROVE  MemoryTypes'
    <1>1. CASE Rests
        BY <1>1 DEF Rests, MemoryTypes, FlusherPlaces
    <1>2. CASE Fetches
        <2>1. PICK k \in Nat : delivered + k <= published
                               /\ fetched' = [i \in 1 .. k |-> delivered + i]
            BY <1>2 DEF Fetches
        <2>2. delivered \in Nat /\ delivered + k \in 0 .. EntryCount
            BY <2>1, EntryFacts DEF BookTypes
        <2> QED
            BY <1>2, <2>1, <2>2, OfFetched DEF Fetches, MemoryTypes
    <1>3. CASE Skips
        BY <1>3, OfTail DEF Skips, MemoryTypes
    <1>4. fetched # <<>> => /\ Tail(fetched) \in Seq(Entries)
                            /\ Append(batch, Head(fetched)) \in Seq(Entries)
        <2>1. fetched # <<>> => Tail(fetched) \in Seq(Entries) /\ Head(fetched) \in Entries
            BY HeadTailProperties DEF MemoryTypes
        <2> QED
            BY <2>1, OfAppend DEF MemoryTypes
    <1>5. CASE Gathers
        BY <1>4, <1>5 DEF Gathers, MemoryTypes
    <1>6. <<>> \in Seq(Entries)
        BY EmptySeq
    <1>7. CASE GathersAndTakes
        BY <1>4, <1>6, <1>7 DEF GathersAndTakes, Hold, MemoryTypes,
           FlusherPlaces
    <1>8. CASE Dies
        BY <1>6, <1>8 DEF Dies, MemoryTypes, FlusherPlaces
    <1>9. ASSUME NEW f \in Flushers, Takes(f) \/ Commits(f) PROVE MemoryTypes'
        BY <1>6, <1>9 DEF Takes, Commits, Hold, MemoryTypes, FlusherPlaces
    <1>10. ASSUME NEW f \in Flushers, Returns(f) \/ Drops(f) PROVE MemoryTypes'
        <2>1. hand[f] \o batch \in Seq(Entries)
            BY OfConcat DEF MemoryTypes
        <2> QED
            BY <1>6, <1>10, <2>1 DEF Returns, Drops, MemoryTypes, FlusherPlaces
    <1>11. ASSUME NEW f \in Flushers, Acks(f) PROVE MemoryTypes'
        <2>1. Tail(hand[f]) \in Seq(Entries)
            BY <1>11, HeadTailProperties DEF Acks, HandsFit, MemoryTypes
        <2> QED
            BY <1>11, <2>1 DEF Acks, MemoryTypes, FlusherPlaces
    <1> QED
        BY <1>1, <1>2, <1>3, <1>5, <1>7, <1>8, <1>9, <1>10, <1>11 DEF WriterShapes

LEMMA BookTypesNext ==
    ASSUME MemoryTypes, BookTypes, HandsFit, HeldIsDelivered, WriterShapes, [WriterNext]_writerVars
    PROVE  BookTypes'
    <1>1. InMemory \subseteq 1 .. delivered /\ 1 .. delivered \subseteq Entries
        BY EntryFacts DEF HeldIsDelivered, BookTypes
    <1>2. \/ published' = published
          \/ published' = published + 1 /\ published' \in 0 .. EntryCount
        <2>1. published < EntryCount => published + 1 \in 0 .. EntryCount
            BY EntryFacts DEF BookTypes
        <2>2. ASSUME NEW f \in Flushers, Flush(f) \/ FlushFails(f) PROVE published' = published
            BY <2>2 DEF Flush, FlushFails, Connect, Store, AckBatch,
               ConnectFails, StoreFails, StoreUnseen, AckRaises
        <2>3. ReaderStep \/ ReadRaises \/ Tick => published' = published
            BY DEF ReaderStep, Fetch, Skip, TakeEntry, Break, LastFlush, Exit,
               ReadRaises, Tick
        <2>4. Stop \/ PoolCloses \/ Kill \/ Restart \/ Prune \/ (\E s \in Scans : GrowOld(s))
                => published' = published
            BY DEF Stop, PoolCloses, Kill, Restart, GrowOld, Prune
        <2>5. PublishRecord => published < EntryCount /\ published' = published + 1
            BY DEF PublishRecord
        <2>6. published' = published \/ PublishRecord
            BY <2>2, <2>3, <2>4 DEF WriterNext, writerVars
        <2> QED
            BY <2>1, <2>5, <2>6
    <1>3. \/ delivered' = delivered
          \/ published' = published /\ delivered' \in delivered .. published
        <2>1. CASE Fetches
            BY <2>1 DEF Fetches, BookTypes
        <2> QED
            BY <2>1 DEF WriterShapes, Rests, Skips, Gathers, GathersAndTakes, Dies,
               Takes, Commits, Returns, Acks, Drops, books
    <1>4. acked' \subseteq 1 .. delivered
        <2>1. fetched # <<>> => Head(fetched) \in 1 .. delivered
            BY OfTail, HeldOfDelivered DEF MemoryTypes
        <2>2. ASSUME NEW f \in Flushers, hand[f] # <<>> PROVE Head(hand[f]) \in 1 .. delivered
            BY <2>2, OfTail, HeldOfDelivered DEF MemoryTypes
        <2>3. ASSUME NEW f \in Flushers, Acks(f) PROVE acked' \subseteq 1 .. delivered
            BY <2>2, <2>3 DEF Acks, HandsFit, BookTypes
        <2> QED
            BY <2>1, <2>3 DEF BookTypes, WriterShapes, Rests, Fetches, Skips,
               Gathers, GathersAndTakes, Dies, Takes, Commits, Returns, Drops,
               books
    <1>5. stored' \subseteq Entries /\ lost' \subseteq Entries
        <2>1. \A f \in Flushers : Range(hand[f]) \subseteq Entries
            BY OfAny DEF MemoryTypes
        <2> QED
            BY <1>1, <2>1 DEF BookTypes, WriterShapes, Rests, Fetches, Skips,
               Gathers, GathersAndTakes, Dies, Takes, Commits, Returns, Acks,
               Drops, books, Commit
    <1>6. published' \in 0 .. EntryCount /\ delivered' \in 0 .. published'
        BY <1>2, <1>3, EntryFacts DEF BookTypes
    <1>7. acked' \subseteq 1 .. delivered'
        BY <1>3, <1>4 DEF BookTypes
    <1> QED
        BY <1>5, <1>6, <1>7 DEF BookTypes

LEMMA ProcessTypesNext ==
    ASSUME MemoryTypes, ProcessTypes, [WriterNext]_writerVars
    PROVE  ProcessTypes'
    <1>1. /\ kills < KillBudget => kills + 1 \in 0 .. KillBudget
          /\ stops < StopBudget => stops + 1 \in 0 .. StopBudget
          /\ raises < RaiseBudget => raises + 1 \in 0 .. RaiseBudget
        BY BudgetFacts DEF ProcessTypes
    <1>2. PublishRecord \/ Fetch \/ Skip \/ TakeEntry \/ Break \/ LastFlush \/ Tick => ProcessTypes'
        BY DEF PublishRecord, Fetch, Skip, TakeEntry, Break, LastFlush, Tick,
           Hold, ProcessTypes, memory, limits
    <1>3. Exit \/ Kill \/ Stop \/ PoolCloses \/ Restart \/ Prune \/ UNCHANGED writerVars => ProcessTypes'
        BY <1>1 DEF Exit, Kill, WriterDies, Stop, PoolCloses, Restart, Prune,
           writerVars, ProcessTypes, memory, limits
    <1>4. ReadRaises => ProcessTypes'
        BY <1>1 DEF ReadRaises, MayRaise, Raise, ProcessTypes
    <1>5. ASSUME NEW f \in Flushers, Flush(f) \/ FlushFails(f) PROVE ProcessTypes'
        BY <1>1, <1>5 DEF Flush, FlushFails, Connect, Store, AckBatch,
           ConnectFails, StoreFails, StoreUnseen, AckRaises, MayRaise, Raise,
           ProcessTypes, limits
    <1>6. (\E s \in Scans : GrowOld(s)) => ProcessTypes'
        BY DEF GrowOld, ProcessTypes, memory, limits
    <1> QED
        BY <1>2, <1>3, <1>4, <1>5, <1>6 DEF WriterNext, ReaderStep

-----------------------------------------------------------------------------
(* What each step does to the places of the memory                         *)

LEMMA HandsFitNext ==
    ASSUME MemoryTypes, HandsFit, WriterShapes
    PROVE  HandsFit'
    <1>1. CASE Rests \/ Fetches \/ Skips \/ Gathers \/ Dies
        BY <1>1, OfNone DEF Rests, Fetches, Skips, Gathers, Dies, HandsFit,
           MemoryTypes, books
    <1>2. CASE GathersAndTakes
        <2>1. Append(batch, Head(fetched)) # <<>>
            <3>1. Head(fetched) \in Entries
                BY <1>2, HeadTailProperties DEF GathersAndTakes, MemoryTypes
            <3> QED
                BY <3>1, OfAppend DEF MemoryTypes
        <2> QED
            BY <1>2, <2>1 DEF GathersAndTakes, Hold, HandsFit, MemoryTypes,
               books
    <1>3. ASSUME NEW f \in Flushers, Takes(f) PROVE HandsFit'
        BY <1>3 DEF Takes, Hold, HandsFit, MemoryTypes, books
    <1>4. ASSUME NEW f \in Flushers, Commits(f) PROVE HandsFit'
        BY <1>4 DEF Commits, Commit, HandsFit, MemoryTypes
    <1>5. ASSUME NEW f \in Flushers, Returns(f) \/ Drops(f) PROVE HandsFit'
        <2>1. stored \subseteq stored'
            BY <1>5 DEF Returns, Drops, Commit, books
        <2> QED
            BY <1>5, <2>1 DEF Returns, Drops, HandsFit, MemoryTypes
    <1>6. ASSUME NEW f \in Flushers, Acks(f) PROVE HandsFit'
        <2>1. hand[f] # <<>> /\ Range(hand[f]) \subseteq stored
            BY <1>6 DEF Acks, HandsFit
        <2>0. hand[f] \in Seq(Entries)
            BY DEF MemoryTypes
        <2>2. Range(Tail(hand[f])) \subseteq stored
            BY <2>0, <2>1, OfTail
        <2>3. Tail(hand[f]) = <<>> <=> Len(hand[f]) = 1
            <3>1. Len(Tail(hand[f])) = Len(hand[f]) - 1 /\ Tail(hand[f]) \in Seq(Entries)
                  /\ Len(hand[f]) \in Nat
                BY <2>1, HeadTailProperties, LenProperties DEF MemoryTypes
            <3>2. Len(Tail(hand[f])) = 0 <=> Len(hand[f]) = 1
                BY <3>1
            <3> QED
                BY <3>1, <3>2, EmptySeq
        <2> QED
            BY <1>6, <2>1, <2>2, <2>3 DEF Acks, HandsFit, MemoryTypes
    <1> QED
        BY <1>1, <1>2, <1>3, <1>4, <1>5, <1>6 DEF WriterShapes

LEMMA HeldIsDeliveredNext ==
    ASSUME MemoryTypes, BookTypes, HandsFit, HeldIsDelivered, WriterShapes
    PROVE  HeldIsDelivered'
    <1> DEFINE Given(S) == S \subseteq 1 .. delivered
    <1>1. Given(Range(fetched)) /\ Given(Range(batch)) /\ \A f \in Flushers : Given(Range(hand[f]))
        BY HeldOfDelivered
    <1>2. Given(stored)
        BY DEF HeldIsDelivered
    <1>3. ASSUME Given(Range(fetched))', Given(Range(batch))',
                 \A f \in Flushers : Given(Range(hand[f]))', Given(stored)'
          PROVE  HeldIsDelivered'
        BY <1>3 DEF HeldIsDelivered, InMemory
    <1>4. CASE Rests
        BY <1>1, <1>2, <1>3, <1>4 DEF Rests, books
    <1>5. CASE Fetches
        <2>1. PICK k \in Nat : delivered + k <= published /\ delivered' = delivered + k
                               /\ fetched' = [i \in 1 .. k |-> delivered + i]
            BY <1>5 DEF Fetches
        <2>2. delivered \in Nat /\ delivered + k \in 0 .. EntryCount
            BY <2>1, EntryFacts DEF BookTypes
        <2>3. Range(fetched') = delivered + 1 .. delivered + k
            BY <2>1, <2>2, OfFetched
        <2>4. Given(Range(fetched))'
            BY <2>1, <2>2, <2>3
        <2>5. \A S : Given(S) => S \subseteq 1 .. delivered'
            BY <2>1, <2>2
        <2> QED
            BY <1>1, <1>2, <1>3, <1>5, <2>4, <2>5 DEF Fetches
    <1>6. fetched # <<>> => /\ Given(Range(Tail(fetched))) /\ Given({Head(fetched)})
                            /\ Given(Range(Append(batch, Head(fetched))))
        BY <1>1, HeadOfFetched
    <1>7. CASE Skips \/ Gathers
        BY <1>1, <1>2, <1>3, <1>6, <1>7 DEF Skips, Gathers, books
    <1>8. CASE GathersAndTakes
        BY <1>1, <1>2, <1>3, <1>6, <1>8, OfNone DEF GathersAndTakes, Hold,
           MemoryTypes, books
    <1>9. CASE Dies
        BY <1>2, <1>3, <1>9, OfNone DEF Dies
    <1>10. ASSUME NEW f \in Flushers, Takes(f) \/ Commits(f) PROVE HeldIsDelivered'
        BY <1>1, <1>2, <1>3, <1>10, OfNone DEF Takes, Commits, Commit, Hold,
           MemoryTypes, books
    <1>11. ASSUME NEW f \in Flushers, Returns(f) \/ Drops(f) PROVE HeldIsDelivered'
        <2>1. Given(Range(hand[f] \o batch))
            BY <1>1, OfConcat DEF MemoryTypes
        <2> QED
            BY <1>1, <1>2, <1>3, <1>11, <2>1, OfNone DEF Returns, Drops,
               Commit, MemoryTypes, books
    <1>12. ASSUME NEW f \in Flushers, Acks(f) PROVE HeldIsDelivered'
        <2>1. Given(Range(Tail(hand[f])))
            BY <1>1, <1>12, OfTail DEF Acks, HandsFit, MemoryTypes
        <2> QED
            BY <1>1, <1>2, <1>3, <1>12, <2>1 DEF Acks, MemoryTypes
    <1> QED
        BY <1>4, <1>5, <1>7, <1>8, <1>9, <1>10, <1>11, <1>12 DEF WriterShapes

-----------------------------------------------------------------------------
(* The books                                                               *)

(* The books balance: AckedIsStored and ReadIsAccountedFor.                *)
LEMMA BooksNext ==
    ASSUME MemoryTypes, BookTypes, HandsFit, HeldIsDelivered, WriterShapes,
           AckedIsStored, ReadIsAccountedFor
    PROVE  AckedIsStored' /\ ReadIsAccountedFor'
    <1> DEFINE Known == acked \cup stored \cup lost
               Held == InMemory
    <1>1. /\ \A e \in Range(fetched) \cup Range(batch) : e \in Held
          /\ \A f \in Flushers : \A e \in Range(hand[f]) : e \in Held
          /\ \A e \in Held : \/ e \in Range(fetched) \cup Range(batch)
                             \/ \E f \in Flushers : e \in Range(hand[f])
        BY DEF InMemory
    <1>2. /\ \A e \in Range(fetched') \cup Range(batch') : e \in Held'
          /\ \A f \in Flushers : \A e \in Range(hand'[f]) : e \in Held'
        BY DEF InMemory
    <1>3. \A e \in 1 .. delivered : e \in Known \/ e \in Held
        BY DEF ReadIsAccountedFor
    <1>4. ASSUME AckedIsStored', Known \subseteq Known',
                 \A e \in 1 .. delivered' : e \in Known \/ e \in Held => e \in Known' \/ e \in Held',
                 \A e \in 1 .. delivered' : e \in 1 .. delivered \/ e \in Held'
          PROVE  AckedIsStored' /\ ReadIsAccountedFor'
        BY <1>3, <1>4 DEF ReadIsAccountedFor
    <1> HIDE DEF Held
    <1>5. CASE Rests
        <2>1. Held' = Held
            BY <1>5 DEF Rests, Held, InMemory
        <2> QED
            BY <1>4, <1>5, <2>1 DEF Rests, books, AckedIsStored
    <1>6. CASE Fetches
        <2>1. PICK k \in Nat : /\ delivered + k <= published /\ delivered' = delivered + k
                               /\ fetched' = [i \in 1 .. k |-> delivered + i]
            BY <1>6 DEF Fetches
        <2>2. delivered \in Nat /\ delivered + k \in 0 .. EntryCount
            BY <2>1, EntryFacts DEF BookTypes
        <2>3. Range(fetched') = delivered + 1 .. delivered + k
            BY <2>1, <2>2, OfFetched
        <2>4. \A e \in 1 .. delivered' : e \in 1 .. delivered \/ e \in Held'
            <3>1. \A e \in 1 .. delivered' : e \in 1 .. delivered \/ e \in Range(fetched')
                BY <2>1, <2>2, <2>3
            <3> QED
                BY <1>2, <3>1
        <2>5. Range(fetched) = {} /\ UNCHANGED <<acked, stored, lost, batch, hand>>
            BY <1>6, OfNone DEF Fetches
        <2>6. Known' = Known /\ AckedIsStored' /\ \A e \in Held : e \in Held'
            BY <1>1, <1>2, <2>5 DEF AckedIsStored
        <2> QED
            BY <1>4, <2>4, <2>6
    <1>7. CASE Skips
        <2>1. /\ Range(fetched) = {Head(fetched)} \cup Range(fetched')
              /\ Head(fetched) \in Unreadable /\ acked' = acked \cup {Head(fetched)}
              /\ UNCHANGED <<delivered, stored, lost, batch, hand>>
            BY <1>7, HeadOfFetched DEF Skips
        <2>2. \A e \in Held : e \in acked' \/ e \in Held'
            BY <1>1, <1>2, <2>1
        <2> QED
            BY <1>4, <2>1, <2>2 DEF AckedIsStored
    <1>8. CASE Gathers
        <2>1. /\ Range(fetched) = {Head(fetched)} \cup Range(fetched')
              /\ Range(batch') = Range(batch) \cup {Head(fetched)}
              /\ UNCHANGED <<books, hand>>
            BY <1>8, HeadOfFetched DEF Gathers
        <2>2. \A e \in Held : e \in Held'
            BY <1>1, <1>2, <2>1
        <2> QED
            BY <1>4, <2>1, <2>2 DEF AckedIsStored, books
    <1>9. CASE GathersAndTakes
        <2>1. /\ Range(fetched) = {Head(fetched)} \cup Range(fetched')
              /\ Range(hand'["reader"]) = Range(batch) \cup {Head(fetched)}
              /\ hand["reader"] = <<>> /\ \A g \in Flushers \ {"reader"} : hand'[g] = hand[g]
              /\ UNCHANGED books
            BY <1>9, HeadOfFetched DEF GathersAndTakes, Hold, MemoryTypes,
               HandsFit, Flushers
        <2>2. "reader" \in Flushers
            BY DEF Flushers
        <2>3. \A e \in Held : e \in Held'
            BY <1>1, <1>2, <2>1, <2>2, OfNone
        <2> QED
            BY <1>4, <2>1, <2>3 DEF AckedIsStored, books
    <1>10. CASE Dies
        <2>1. /\ lost' = lost \cup Held /\ UNCHANGED <<delivered, acked, stored>>
            BY <1>10 DEF Dies, Held
        <2> QED
            BY <1>4, <2>1 DEF AckedIsStored
    <1>11. ASSUME NEW f \in Flushers, Takes(f) PROVE AckedIsStored' /\ ReadIsAccountedFor'
        <2>1. /\ hand'[f] = batch /\ hand[f] = <<>> /\ \A g \in Flushers \ {f} : hand'[g] = hand[g]
              /\ UNCHANGED <<books, fetched>>
            BY <1>11 DEF Takes, Hold, MemoryTypes, HandsFit
        <2>2. \A e \in Held : e \in Held'
            BY <1>1, <1>2, <2>1, OfNone
        <2> QED
            BY <1>4, <2>1, <2>2 DEF AckedIsStored, books
    <1>12. ASSUME NEW f \in Flushers, Commits(f) PROVE AckedIsStored' /\ ReadIsAccountedFor'
        <2>1. /\ stored \subseteq stored' /\ UNCHANGED <<delivered, acked, lost, fetched, batch, hand>>
            BY <1>12 DEF Commits, Commit
        <2>2. Held' = Held
            BY <2>1 DEF Held, InMemory
        <2> QED
            BY <1>4, <2>1, <2>2 DEF AckedIsStored
    <1>13. ASSUME NEW f \in Flushers, Returns(f) PROVE AckedIsStored' /\ ReadIsAccountedFor'
        <2>1. Range(batch') = Range(hand[f]) \cup Range(batch)
            BY <1>13, OfConcat DEF Returns, MemoryTypes
        <2>2. /\ \A g \in Flushers \ {f} : hand'[g] = hand[g]
              /\ stored \subseteq stored' /\ UNCHANGED <<delivered, acked, lost, fetched>>
            BY <1>13 DEF Returns, Commit, MemoryTypes
        <2>3. \A e \in Held : e \in Held'
            BY <1>1, <1>2, <2>1, <2>2
        <2> QED
            BY <1>4, <2>2, <2>3 DEF AckedIsStored
    <1>14. ASSUME NEW f \in Flushers, Acks(f) PROVE AckedIsStored' /\ ReadIsAccountedFor'
        <2>1. hand[f] \in Seq(Entries) /\ hand[f] # <<>> /\ Range(hand[f]) \subseteq stored
            BY <1>14 DEF Acks, HandsFit, MemoryTypes
        <2>2. Head(hand[f]) \in stored
            BY <2>1, OfTail
        <2>3. /\ \A g \in Flushers \ {f} : hand'[g] = hand[g]
              /\ acked' = acked \cup {Head(hand[f])}
              /\ UNCHANGED <<delivered, stored, lost, fetched, batch>>
            BY <1>14 DEF Acks, MemoryTypes
        <2>4. \A e \in Held : e \in stored \/ e \in Held'
            BY <1>1, <1>2, <2>1, <2>3
        <2>5. AckedIsStored'
            BY <2>2, <2>3 DEF AckedIsStored
        <2> QED
            BY <1>4, <2>3, <2>4, <2>5
    <1>15. ASSUME NEW f \in Flushers, Drops(f) PROVE AckedIsStored' /\ ReadIsAccountedFor'
        <2>1. Range(hand[f]) \subseteq stored
            BY <1>15 DEF Drops, HandsFit
        <2>2. /\ \A g \in Flushers \ {f} : hand'[g] = hand[g]
              /\ UNCHANGED <<books, fetched, batch>>
            BY <1>15 DEF Drops, MemoryTypes
        <2>3. \A e \in Held : e \in stored \/ e \in Held'
            BY <1>1, <1>2, <2>1, <2>2
        <2> QED
            BY <1>4, <2>2, <2>3 DEF AckedIsStored, books
    <1> QED
        BY <1>5, <1>6, <1>7, <1>8, <1>9, <1>10, <1>11, <1>12, <1>13, <1>14,
           <1>15 DEF WriterShapes

-----------------------------------------------------------------------------
(* The memory holds an entry once                                          *)

LEMMA HeldApartNext ==
    ASSUME MemoryTypes, BookTypes, HandsFit, HeldIsDelivered, HeldApart, WriterShapes
    PROVE  HeldApart'
    <1>1. Flushers = {"reader", "timer"}
        BY DEF Flushers
    <1>2. CASE Rests \/ \E f \in Flushers : Commits(f)
        BY <1>2 DEF Rests, Commits, HeldApart
    <1>3. CASE Fetches
        <2>1. PICK k \in Nat : /\ delivered + k <= published
                               /\ fetched' = [i \in 1 .. k |-> delivered + i]
            BY <1>3 DEF Fetches
        <2>2. delivered \in Nat /\ delivered + k \in 0 .. EntryCount
            BY <2>1, EntryFacts DEF BookTypes
        <2>3. Range(fetched') = delivered + 1 .. delivered + k /\ Distinct(fetched')
            BY <2>1, <2>2, OfFetched
        <2>4. \A S : S \subseteq 1 .. delivered => Range(fetched') \cap S = {}
            BY <2>2, <2>3
        <2>5. /\ Range(fetched') \cap Range(batch) = {}
              /\ \A f \in Flushers : Range(fetched') \cap Range(hand[f]) = {}
            BY <2>4, HeldOfDelivered
        <2> QED
            BY <1>3, <2>3, <2>5 DEF Fetches, HeldApart
    <1>4. fetched # <<>> => /\ Distinct(Tail(fetched)) /\ Head(fetched) \notin Range(Tail(fetched))
                            /\ Distinct(Append(batch, Head(fetched)))
        <2>1. ASSUME fetched # <<>>
              PROVE  Distinct(Tail(fetched)) /\ Head(fetched) \notin Range(Tail(fetched))
            BY <2>1, OfTail DEF HeldApart, MemoryTypes
        <2>2. ASSUME fetched # <<>> PROVE Distinct(Append(batch, Head(fetched)))
            <3>1. Head(fetched) \in Entries /\ Head(fetched) \notin Range(batch)
                BY <2>2, HeadOfFetched DEF HeldApart
            <3> QED
                BY <3>1, OfAppend DEF HeldApart, MemoryTypes
        <2> QED
            BY <2>1, <2>2
    <1>5. CASE Skips
        BY <1>4, <1>5, HeadOfFetched DEF Skips, HeldApart
    <1>6. CASE Gathers
        <2>1. /\ Range(fetched) = {Head(fetched)} \cup Range(fetched') /\ Distinct(fetched')
              /\ Range(batch') = Range(batch) \cup {Head(fetched)} /\ Distinct(batch')
              /\ Head(fetched) \notin Range(fetched') /\ UNCHANGED hand
            BY <1>4, <1>6, HeadOfFetched DEF Gathers
        <2> QED
            BY <2>1 DEF HeldApart
    <1>7. CASE GathersAndTakes
        <2>1. /\ Range(fetched) = {Head(fetched)} \cup Range(fetched') /\ Distinct(fetched')
              /\ Head(fetched) \notin Range(fetched')
              /\ Range(hand'["reader"]) = Range(batch) \cup {Head(fetched)}
              /\ Distinct(hand'["reader"]) /\ hand'["timer"] = hand["timer"] /\ batch' = <<>>
            BY <1>1, <1>4, <1>7, HeadOfFetched DEF GathersAndTakes, Hold,
               MemoryTypes
        <2> QED
            BY <1>1, <2>1, OfNone DEF HeldApart
    <1>8. CASE Dies
        BY <1>1, <1>8, OfNone DEF Dies, HeldApart
    <1>9. ASSUME NEW f \in Flushers, Takes(f) PROVE HeldApart'
        <2>1. /\ hand'[f] = batch /\ batch' = <<>> /\ \A g \in Flushers \ {f} : hand'[g] = hand[g]
              /\ UNCHANGED fetched
            BY <1>9 DEF Takes, Hold, MemoryTypes
        <2> QED
            BY <1>1, <2>1, OfNone DEF HeldApart
    <1>10. ASSUME NEW f \in Flushers, Returns(f) PROVE HeldApart'
        <2>1. /\ Range(batch') = Range(hand[f]) \cup Range(batch) /\ Distinct(batch')
            BY <1>10, OfConcat DEF Returns, MemoryTypes, HeldApart
        <2>2. /\ hand'[f] = <<>> /\ \A g \in Flushers \ {f} : hand'[g] = hand[g]
              /\ UNCHANGED fetched
            BY <1>10 DEF Returns, MemoryTypes
        <2> QED
            BY <1>1, <2>1, <2>2, OfNone DEF HeldApart
    <1>11. ASSUME NEW f \in Flushers, Acks(f) PROVE HeldApart'
        <2>1. Range(Tail(hand[f])) \subseteq Range(hand[f]) /\ Distinct(Tail(hand[f]))
            <3>1. hand[f] \in Seq(Entries) /\ hand[f] # <<>> /\ Distinct(hand[f])
                BY <1>11 DEF Acks, HandsFit, MemoryTypes, HeldApart
            <3> QED
                BY <3>1, OfTail
        <2>2. /\ hand'[f] = Tail(hand[f]) /\ \A g \in Flushers \ {f} : hand'[g] = hand[g]
              /\ UNCHANGED <<fetched, batch>>
            BY <1>11 DEF Acks, MemoryTypes
        <2> QED
            BY <1>1, <2>1, <2>2 DEF HeldApart
    <1>12. ASSUME NEW f \in Flushers, Drops(f) PROVE HeldApart'
        <2>1. /\ hand'[f] = <<>> /\ \A g \in Flushers \ {f} : hand'[g] = hand[g]
              /\ UNCHANGED <<fetched, batch>>
            BY <1>12 DEF Drops, MemoryTypes
        <2> QED
            BY <1>1, <2>1, OfNone DEF HeldApart
    <1> QED
        BY <1>2, <1>3, <1>5, <1>6, <1>7, <1>8, <1>9, <1>10, <1>11, <1>12
           DEF WriterShapes

-----------------------------------------------------------------------------
(* The order of the memory                                                 *)

LEMMA HeldInOrderNext ==
    ASSUME MemoryTypes, BookTypes, HandsFit, HeldIsDelivered, HeldApart, overlap \in BOOLEAN,
           ~overlap => HeldInOrder, WriterShapes
    PROVE  ~overlap' => HeldInOrder'
    <1> SUFFICES ASSUME ~overlap' PROVE HeldInOrder'
        OBVIOUS
    <1>1. Flushers = {"reader", "timer"}
        BY DEF Flushers
    <1>2. HeldInOrder
        BY DEF WriterShapes, Rests, Fetches, Skips, Gathers, GathersAndTakes, Dies,
           Takes, Commits, Returns, Acks, Drops, Hold
    <1>3. /\ Range(fetched) \subseteq Nat /\ Range(batch) \subseteq Nat /\ stored \subseteq Nat
          /\ \A f \in Flushers : Range(hand[f]) \subseteq Nat
        BY OfAny, EntryFacts DEF MemoryTypes, BookTypes
    <1>4. CASE Rests
        BY <1>2, <1>4 DEF Rests, HeldInOrder, NewerThanStored, books
    <1>5. CASE Fetches
        <2>1. PICK k \in Nat : /\ delivered + k <= published
                               /\ fetched' = [i \in 1 .. k |-> delivered + i]
            BY <1>5 DEF Fetches
        <2>2. delivered \in Nat /\ delivered + k \in 0 .. EntryCount
            BY <2>1, EntryFacts DEF BookTypes
        <2>3. Range(fetched') = delivered + 1 .. delivered + k /\ Increasing(fetched')
            BY <2>1, <2>2, OfFetched
        <2>4. \A S : S \subseteq 1 .. delivered => Below(S, Range(fetched'))
            BY <2>2, <2>3 DEF Below
        <2>5. /\ Below(Range(batch), Range(fetched')) /\ Below(stored, Range(fetched'))
              /\ \A f \in Flushers : Below(Range(hand[f]), Range(fetched'))
            BY <2>4, HeldOfDelivered DEF HeldIsDelivered
        <2>6. \A f \in Flushers : Below(Range(hand[f]), Range(batch) \cup Range(fetched'))
            BY <1>2, <2>5 DEF HeldInOrder, Below
        <2> QED
            BY <1>2, <1>5, <2>3, <2>5, <2>6 DEF Fetches, HeldInOrder,
               NewerThanStored
    <1>6. ASSUME fetched # <<>>
          PROVE  /\ Increasing(Tail(fetched)) /\ Below({Head(fetched)}, Range(Tail(fetched)))
                 /\ Increasing(Append(batch, Head(fetched)))
        <2>1. Increasing(Tail(fetched)) /\ Below({Head(fetched)}, Range(Tail(fetched)))
            BY <1>2, <1>6, OfTail DEF HeldInOrder, MemoryTypes
        <2>2. Below(Range(batch), {Head(fetched)}) /\ Head(fetched) \in Entries
            BY <1>2, <1>6, HeadOfFetched DEF HeldInOrder, Below
        <2> QED
            BY <1>2, <2>1, <2>2, OfAppend DEF HeldInOrder, MemoryTypes
    <1>7. CASE Skips
        <2>1. /\ Range(fetched') \subseteq Range(fetched) /\ Increasing(fetched')
              /\ UNCHANGED <<stored, batch, hand>>
            BY <1>6, <1>7, HeadOfFetched DEF Skips
        <2> QED
            BY <1>2, <2>1 DEF HeldInOrder, Below, NewerThanStored
    <1>8. CASE Gathers
        <2>1. /\ Range(fetched) = {Head(fetched)} \cup Range(fetched') /\ Increasing(fetched')
              /\ Range(batch') = Range(batch) \cup {Head(fetched)} /\ Increasing(batch')
              /\ Below({Head(fetched)}, Range(fetched')) /\ UNCHANGED <<stored, hand>>
            BY <1>6, <1>8, HeadOfFetched DEF Gathers, books
        <2>2. /\ Below(Range(batch'), Range(fetched')) /\ Below(stored, Range(fetched'))
              /\ \A f \in Flushers : Below(Range(hand[f]), Range(batch') \cup Range(fetched'))
            BY <1>2, <2>1 DEF HeldInOrder, Below
        <2>3. NewerThanStored(Range(batch))'
            BY <1>2, <2>1 DEF HeldInOrder, Below, NewerThanStored
        <2> QED
            BY <1>2, <2>1, <2>2, <2>3 DEF HeldInOrder, NewerThanStored
    <1>9. CASE GathersAndTakes
        <2>1. /\ Range(fetched) = {Head(fetched)} \cup Range(fetched') /\ Increasing(fetched')
              /\ Below({Head(fetched)}, Range(fetched'))
              /\ Range(hand'["reader"]) = Range(batch) \cup {Head(fetched)}
              /\ Increasing(hand'["reader"]) /\ hand'["timer"] = hand["timer"]
              /\ batch' = <<>> /\ UNCHANGED stored
            BY <1>1, <1>6, <1>9, HeadOfFetched DEF GathersAndTakes, Hold,
               MemoryTypes, books
        <2>2. hand["timer"] = <<>>
            BY <1>1, <1>9, HeadOfFetched DEF GathersAndTakes, Hold
        <2>3. /\ Below(Range(hand'["reader"]), Range(fetched')) /\ Below(stored, Range(fetched'))
              /\ NewerThanStored(Range(hand["reader"]))'
            BY <1>2, <2>1 DEF HeldInOrder, Below, NewerThanStored
        <2>4. Range(hand'["timer"]) = {} /\ Range(batch') = {} /\ Increasing(batch')
            BY <2>1, <2>2, OfNone
        <2> QED
            BY <1>1, <1>2, <2>1, <2>2, <2>3, <2>4 DEF HeldInOrder, Below,
               NewerThanStored
    <1>10. CASE Dies
        BY <1>1, <1>10, OfNone DEF Dies, HeldInOrder, Below, NewerThanStored
    <1>11. ASSUME NEW f \in Flushers, Takes(f) PROVE HeldInOrder'
        <2>1. /\ hand'[f] = batch /\ batch' = <<>> /\ \A g \in Flushers \ {f} : hand'[g] = hand[g]
              /\ UNCHANGED <<fetched, stored>>
            BY <1>11 DEF Takes, Hold, MemoryTypes, books
        <2>2. batch = <<>> \/ \A g \in Flushers \ {f} : hand[g] = <<>>
            BY <1>11 DEF Takes, Hold
        <2>3. hand[f] = <<>> /\ Range(batch') = {} /\ Increasing(batch')
            BY <1>11, <2>1, OfNone DEF Takes, HandsFit
        <2>4. \A g \in Flushers : /\ Increasing(hand'[g]) /\ NewerThanStored(Range(hand[g]))'
                                  /\ Below(Range(hand'[g]), Range(fetched))
            BY <1>2, <2>1 DEF HeldInOrder, Below, NewerThanStored
        <2>5. hand'["reader"] = <<>> \/ hand'["timer"] = <<>>
            BY <1>1, <1>2, <2>1, <2>2, <2>3 DEF HeldInOrder
        <2> QED
            BY <1>1, <1>2, <2>1, <2>3, <2>4, <2>5 DEF HeldInOrder, Below,
               NewerThanStored
    <1>12. ASSUME NEW f \in Flushers, Commits(f) PROVE HeldInOrder'
        <2>1. /\ stored' = stored \cup Range(hand[f]) /\ UNCHANGED <<fetched, batch, hand>>
            BY <1>12 DEF Commits, Commit
        <2>2. \A g \in Flushers \ {f} : Range(hand[g]) = {}
            BY <1>1, <1>2, <1>12, OfNone DEF HeldInOrder, Commits, HandsFit
        <2>3. /\ Below(stored', Range(fetched)) /\ NewerThanStored(Range(batch))'
              /\ \A g \in Flushers : NewerThanStored(Range(hand[g]))'
            BY <1>2, <2>1, <2>2 DEF HeldInOrder, Below, NewerThanStored
        <2> QED
            BY <1>2, <2>1, <2>3 DEF HeldInOrder
    <1>13. ASSUME NEW f \in Flushers, Returns(f) PROVE HeldInOrder'
        <2>1. Below(Range(hand[f]), Range(batch))
            BY <1>2 DEF HeldInOrder, Below
        <2>2. /\ Range(batch') = Range(hand[f]) \cup Range(batch) /\ Increasing(batch')
            BY <1>2, <1>13, <2>1, OfConcat DEF Returns, MemoryTypes,
               HeldInOrder
        <2>3. /\ hand'[f] = <<>> /\ \A g \in Flushers \ {f} : hand'[g] = hand[g]
              /\ stored' \in {stored, stored \cup Range(hand[f])} /\ UNCHANGED fetched
            BY <1>13 DEF Returns, Commit, MemoryTypes
        <2>4. \A g \in Flushers : hand'[g] = <<>> /\ Range(hand'[g]) = {} /\ Increasing(hand'[g])
            BY <1>1, <1>2, <1>13, <2>3, OfNone DEF HeldInOrder, Returns,
               HandsFit
        <2>5. /\ Below(Range(batch'), Range(fetched)) /\ Below(stored', Range(fetched))
              /\ NewerThanStored(Range(batch))'
            BY <1>2, <2>2, <2>3 DEF HeldInOrder, Below, NewerThanStored
        <2> QED
            BY <1>1, <1>2, <2>2, <2>3, <2>4, <2>5 DEF HeldInOrder, Below,
               NewerThanStored
    <1>14. ASSUME NEW f \in Flushers, Acks(f) PROVE HeldInOrder'
        <2>1. hand[f] \in Seq(Entries) /\ hand[f] # <<>> /\ Increasing(hand[f])
            BY <1>2, <1>14 DEF Acks, HandsFit, MemoryTypes, HeldInOrder
        <2>2. /\ Range(hand[f]) = {Head(hand[f])} \cup Range(Tail(hand[f]))
              /\ Increasing(Tail(hand[f])) /\ Below({Head(hand[f])}, Range(Tail(hand[f])))
            BY <2>1, OfTail
        <2>3. /\ hand'[f] = Tail(hand[f]) /\ \A g \in Flushers \ {f} : hand'[g] = hand[g]
              /\ UNCHANGED <<stored, fetched, batch>>
            BY <1>14 DEF Acks, MemoryTypes
        <2>4. hand'["reader"] = <<>> \/ hand'["timer"] = <<>>
            BY <1>1, <1>2, <2>1, <2>3 DEF HeldInOrder
        <2>5. \A g \in Flushers : /\ Increasing(hand'[g]) /\ NewerThanStored(Range(hand[g]))'
                                  /\ Below(Range(hand'[g]), Range(batch) \cup Range(fetched))
            BY <1>2, <2>2, <2>3 DEF HeldInOrder, Below, NewerThanStored
        <2>6. NewerThanStored(Range(batch))'
            BY <1>2, <2>3 DEF HeldInOrder, NewerThanStored
        <2> QED
            BY <1>2, <2>3, <2>4, <2>5, <2>6 DEF HeldInOrder
    <1>15. ASSUME NEW f \in Flushers, Drops(f) PROVE HeldInOrder'
        <2>1. /\ hand'[f] = <<>> /\ \A g \in Flushers \ {f} : hand'[g] = hand[g]
              /\ UNCHANGED <<stored, fetched, batch>>
            BY <1>15 DEF Drops, MemoryTypes, books
        <2> QED
            BY <1>1, <1>2, <2>1, OfNone DEF HeldInOrder, Below, NewerThanStored
    <1> QED
        BY <1>4, <1>5, <1>7, <1>8, <1>9, <1>10, <1>11, <1>12, <1>13, <1>14,
           <1>15 DEF WriterShapes

-----------------------------------------------------------------------------
(* The database                                                            *)

RowTypes == rows \in SUBSET Rows /\ parts \in SUBSET Scans

(* What a step does to the tables. *)
TableSteps ==
    \/ UNCHANGED <<rows, parts>>
    \/ \E f \in Flushers : Commit(hand[f])
    \/ (\E s \in Scans : GrowOld(s)) \/ Prune

LEMMA TableShapes ==
    ASSUME [WriterNext]_writerVars
    PROVE  TableSteps /\ (UNCHANGED stored \/ \E f \in Flushers : Commit(hand[f]))
    BY DEF WriterNext, writerVars, ReaderStep, Flush, FlushFails,
       PublishRecord, Fetch, Skip, TakeEntry, Break, LastFlush, Exit,
       ReadRaises, Tick, Connect, Store, AckBatch, ConnectFails, StoreFails,
       StoreUnseen, AckRaises, Stop, PoolCloses, Kill, Restart, GrowOld, Prune,
       base, TableSteps

(* The table after a batch: the rows of other scans, and for each scan of  *)
(* the batch the one its last record wrote. *)
LEMMA UpsertRows ==
    ASSUME NEW b \in Seq(Entries), rows \in SUBSET Rows, NEW r \in Upsert(rows, b)
    PROVE  /\ r \in Rows
           /\ \/ r \in rows /\ \A e \in Range(b) : ScanOf[e] # r.scan
              \/ /\ \E e \in Range(b) : ScanOf[e] = r.scan
                 /\ r.entry = LastOf(b, r.scan) /\ r.entry \in Range(b)
                 /\ ScanOf[r.entry] = r.scan
                 /\ r = [scan |-> r.scan, entry |-> LastOf(b, r.scan),
                         old |-> \E q \in rows : q.scan = r.scan /\ q.old]
    <1> DEFINE written == {ScanOf[e] : e \in Range(b)}
               new(s) == [scan |-> s, entry |-> LastOf(b, s),
                          old |-> \E q \in rows : q.scan = s /\ q.old]
    <1>1. CASE r \in rows /\ r.scan \notin written
        BY <1>1
    <1>2. ASSUME NEW s \in written, r = new(s) PROVE r \in Rows /\ r.scan = s /\ r = new(r.scan)
        <2>1. LastOf(b, s) \in Entries /\ s \in Scans
            BY SMTT(30), LastOfIsLast, OfAny, EntryFacts
        <2> QED
            BY <1>2, <2>1 DEF Rows
    <1>3. CASE \E s \in written : r = new(s)
        <2>1. PICK s \in written : r = new(s)
            BY <1>3
        <2>2. r \in Rows /\ r.scan = s /\ r.entry = LastOf(b, s)
            BY <1>2, <2>1
        <2>3. LastOf(b, s) \in Range(b) /\ ScanOf[LastOf(b, s)] = s
            BY LastOfIsLast
        <2> QED
            BY <2>1, <2>2, <2>3
    <1> QED
        BY <1>1, <1>3 DEF Upsert

LEMMA RowTypesNext ==
    ASSUME MemoryTypes, RowTypes, TableSteps
    PROVE  RowTypes'
    <1>1. ASSUME NEW f \in Flushers, Commit(hand[f]) PROVE RowTypes'
        <2>1. hand[f] \in Seq(Entries)
            BY DEF MemoryTypes
        <2>2. rows' \in SUBSET Rows
            BY <1>1, <2>1, UpsertRows DEF Commit, RowTypes
        <2>3. {ScanOf[e] : e \in Range(hand[f])} \subseteq Scans
            BY <2>1, OfAny, EntryFacts
        <2> QED
            BY <1>1, <2>2, <2>3 DEF Commit, RowTypes
    <1>2. ASSUME NEW s \in Scans, GrowOld(s) PROVE RowTypes'
        <2>1. \A r \in Rows : [r EXCEPT !.old = TRUE] \in Rows
            BY DEF Rows
        <2> QED
            BY <1>2, <2>1 DEF GrowOld, RowTypes
    <1>3. CASE Prune
        BY <1>3 DEF Prune, RowTypes
    <1> QED
        BY <1>1, <1>2, <1>3 DEF TableSteps, RowTypes

(* GrowOld changes no key. *)
LEMMA GrownKeys ==
    ASSUME RowTypes, NEW s \in Scans, GrowOld(s)
    PROVE  /\ \A r \in rows' : \E q \in rows :
                  /\ r.scan = q.scan /\ r.entry = q.entry
                  /\ r = IF q.scan = s THEN [q EXCEPT !.old = TRUE] ELSE q
           /\ \A q \in rows : \E r \in rows' : r.scan = q.scan /\ r.entry = q.entry
           /\ UNCHANGED <<parts, stored>>
    <1>1. rows' = {IF r.scan = s THEN [r EXCEPT !.old = TRUE] ELSE r : r \in rows}
        BY DEF GrowOld
    <1>2. ASSUME NEW q \in rows
          PROVE  LET r == IF q.scan = s THEN [q EXCEPT !.old = TRUE] ELSE q
                 IN  r.scan = q.scan /\ r.entry = q.entry
        BY DEF RowTypes, Rows
    <1> QED
        BY ZenonT(40), <1>1, <1>2 DEF GrowOld

LEMMA RowsAreKeyedNext ==
    ASSUME MemoryTypes, RowTypes, RowsAreKeyed, TableSteps
    PROVE  RowsAreKeyed'
    <1>1. ASSUME NEW f \in Flushers, Commit(hand[f]) PROVE RowsAreKeyed'
        <2> DEFINE b == hand[f]
                   written == {ScanOf[e] : e \in Range(b)}
                   new(s) == [scan |-> s, entry |-> LastOf(b, s),
                              old |-> \E q \in rows : q.scan = s /\ q.old]
        <2>1. b \in Seq(Entries) /\ rows \in SUBSET Rows
            BY DEF MemoryTypes, RowTypes
        <2>2. rows' = Upsert(rows, b) /\ parts' = parts \cup written
            BY <1>1 DEF Commit
        <2> HIDE DEF b
        <2>3. \A r \in rows' : r.scan = ScanOf[r.entry]
            BY <2>1, <2>2, UpsertRows DEF RowsAreKeyed
        <2>4. ASSUME NEW r \in rows', NEW q \in rows', r.scan = q.scan PROVE r = q
            <3>1. CASE \A e \in Range(b) : ScanOf[e] # r.scan
                BY <2>1, <2>2, <2>4, <3>1, UpsertRows DEF RowsAreKeyed
            <3>2. CASE \E e \in Range(b) : ScanOf[e] = r.scan
                <4>1. r = new(r.scan) /\ q = new(q.scan)
                    BY <2>1, <2>2, <2>4, <3>2, UpsertRows
                <4> HIDE DEF new
                <4> QED
                    BY <2>4, <4>1
            <3> QED
                BY <3>1, <3>2
        <2>5. parts' = {r.scan : r \in rows'}
            <3>1. \A r \in rows' : r.scan \in parts'
                BY <2>1, <2>2, UpsertRows DEF RowsAreKeyed
            <3>2. ASSUME NEW s \in written PROVE \E r \in rows' : r.scan = s
                <4>1. new(s) \in rows' /\ new(s).scan = s
                    BY <2>2 DEF Upsert
                <4> HIDE DEF new
                <4> QED
                    BY <4>1
            <3>3. ASSUME NEW q \in rows, q.scan \notin written PROVE q \in rows'
                BY <2>2, <3>3 DEF Upsert
            <3>4. \A s \in parts : \E q \in rows : q.scan = s
                BY DEF RowsAreKeyed
            <3>5. \A s \in parts' : \E r \in rows' : r.scan = s
                BY <2>2, <3>2, <3>3, <3>4
            <3> QED
                BY <3>1, <3>5
        <2> QED
            BY <2>3, <2>4, <2>5 DEF RowsAreKeyed
    <1>2. ASSUME NEW s \in Scans, GrowOld(s) PROVE RowsAreKeyed'
        <2>1. ASSUME NEW r \in rows', NEW q \in rows', r.scan = q.scan PROVE r = q
            <3>1. PICK x \in rows : /\ r.scan = x.scan
                                   /\ r = IF x.scan = s THEN [x EXCEPT !.old = TRUE] ELSE x
                BY <1>2, GrownKeys
            <3>2. PICK y \in rows : /\ q.scan = y.scan
                                   /\ q = IF y.scan = s THEN [y EXCEPT !.old = TRUE] ELSE y
                BY <1>2, GrownKeys
            <3>3. x = y
                BY <2>1, <3>1, <3>2 DEF RowsAreKeyed
            <3> QED
                BY <3>1, <3>2, <3>3
        <2>2. \A r \in rows' : r.scan = ScanOf[r.entry]
            BY <1>2, GrownKeys DEF RowsAreKeyed
        <2>3. parts' = {r.scan : r \in rows'}
            BY <1>2, GrownKeys DEF RowsAreKeyed
        <2> QED
            BY <2>1, <2>2, <2>3 DEF RowsAreKeyed
    <1>3. CASE Prune
        BY <1>3 DEF Prune, RowsAreKeyed
    <1> QED
        BY <1>1, <1>2, <1>3 DEF TableSteps, RowsAreKeyed

(* A batch that is committed in order shows its last records, and they are *)
(* newer than what was stored before. *)
LEMMA RowShowsTheLatestNext ==
    ASSUME MemoryTypes, BookTypes, RowTypes, overlap \in BOOLEAN, ~overlap => HeldInOrder,
           RowShowsTheLatest, [WriterNext]_writerVars, WriterShapes
    PROVE  RowShowsTheLatest'
    <1> SUFFICES ASSUME ~overlap' PROVE RowShowsTheLatest'
        BY DEF RowShowsTheLatest
    <1>1. ~overlap
        BY DEF WriterShapes, Rests, Fetches, Skips, Gathers, GathersAndTakes, Dies,
           Takes, Commits, Returns, Acks, Drops, Hold
    <1>2. TableSteps /\ (UNCHANGED stored \/ \E f \in Flushers : Commit(hand[f]))
        BY TableShapes
    <1>3. ASSUME NEW f \in Flushers, Commit(hand[f]) PROVE RowShowsTheLatest'
        <2> DEFINE b == hand[f]
        <2>1. /\ b \in Seq(Entries) /\ Increasing(b) /\ NewerThanStored(Range(b))
              /\ rows \in SUBSET Rows
            BY <1>1 DEF MemoryTypes, HeldInOrder, RowTypes
        <2>2. rows' = Upsert(rows, b) /\ stored' = stored \cup Range(b)
            BY <1>3 DEF Commit
        <2> HIDE DEF b
        <2> SUFFICES ASSUME NEW r \in rows', NEW e \in stored', ScanOf[e] = r.scan
                     PROVE  e <= r.entry
            BY DEF RowShowsTheLatest
        <2>3. CASE r \in rows /\ \A x \in Range(b) : ScanOf[x] # r.scan
            BY <1>1, <2>2, <2>3 DEF RowShowsTheLatest
        <2>4. CASE /\ \E x \in Range(b) : ScanOf[x] = r.scan
                   /\ r.entry = LastOf(b, r.scan) /\ r.entry \in Range(b)
            <3>1. \A x \in Range(b) : ScanOf[x] = r.scan => x <= r.entry
                BY <2>1, <2>4, LastOfIsLast
            <3>2. e \notin Range(b) => e < r.entry
                BY <2>1, <2>2, <2>4 DEF NewerThanStored
            <3>3. e \in Nat /\ r.entry \in Nat
                BY <2>1, <2>2, <2>4, OfAny, EntryFacts DEF BookTypes
            <3> QED
                BY <3>1, <3>2, <3>3
        <2> QED
            BY <2>1, <2>2, <2>3, <2>4, UpsertRows
    <1>4. ASSUME NEW s \in Scans, GrowOld(s) PROVE RowShowsTheLatest'
        BY <1>1, <1>4, GrownKeys DEF RowShowsTheLatest
    <1>5. CASE Prune
        BY <1>1, <1>5 DEF Prune, RowShowsTheLatest
    <1>6. CASE UNCHANGED <<rows, stored>>
        BY <1>1, <1>6 DEF RowShowsTheLatest
    <1> QED
        BY <1>2, <1>3, <1>4, <1>5, <1>6 DEF TableSteps, Prune, GrowOld

-----------------------------------------------------------------------------
(* The theorems                                                            *)

LEMMA WithinOnce ==
    ASSUME NEW s \in Seq(Entries), NEW e
    PROVE  /\ e \notin Range(s) => Within(s, e) = 0
           /\ e \in Range(s) /\ Distinct(s) => Within(s, e) = 1
    <1> DEFINE where == {i \in DOMAIN s : s[i] = e}
    <1>1. e \notin Range(s) => where = {}
        BY DEF Range
    <1>2. ASSUME e \in Range(s), Distinct(s) PROVE \E i : where = {i}
        <2>1. PICK i \in DOMAIN s : s[i] = e
            BY <1>2 DEF Range
        <2>2. where = {i}
            BY <1>2, <2>1 DEF Distinct
        <2> QED
            BY <2>2
    <1>3. Within(s, e) = Cardinality(where)
        BY DEF Within
    <1> HIDE DEF where
    <1> QED
        BY <1>1, <1>2, <1>3, FS_EmptySet, FS_Singleton

LEMMA ApartIsOnce == ASSUME MemoryTypes, HeldApart PROVE HeldOnce
    <1> SUFFICES ASSUME NEW e \in InMemory PROVE CopiesHeld(e) = 1
        BY DEF HeldOnce
    <1>1. Flushers = {"reader", "timer"}
        BY DEF Flushers
    <1>2. /\ fetched \in Seq(Entries) /\ batch \in Seq(Entries)
          /\ hand["reader"] \in Seq(Entries) /\ hand["timer"] \in Seq(Entries)
        BY <1>1 DEF MemoryTypes
    <1>3. /\ Distinct(fetched) /\ Distinct(batch)
          /\ Distinct(hand["reader"]) /\ Distinct(hand["timer"])
        BY <1>1 DEF HeldApart
    <1>4. \/ e \in Range(fetched) \/ e \in Range(batch)
          \/ e \in Range(hand["reader"]) \/ e \in Range(hand["timer"])
        BY <1>1 DEF InMemory
    <1>5. /\ e \in Range(fetched) => e \notin Range(batch)
          /\ e \in Range(hand["reader"]) => e \notin Range(fetched) \cup Range(batch)
          /\ e \in Range(hand["timer"]) => e \notin Range(fetched) \cup Range(batch)
          /\ e \in Range(hand["reader"]) => e \notin Range(hand["timer"])
        BY <1>1 DEF HeldApart
    <1>6. /\ Within(fetched, e) = IF e \in Range(fetched) THEN 1 ELSE 0
          /\ Within(batch, e) = IF e \in Range(batch) THEN 1 ELSE 0
          /\ Within(hand["reader"], e) = IF e \in Range(hand["reader"]) THEN 1 ELSE 0
          /\ Within(hand["timer"], e) = IF e \in Range(hand["timer"]) THEN 1 ELSE 0
        BY <1>2, <1>3, WithinOnce
    <1> QED
        BY <1>4, <1>5, <1>6 DEF CopiesHeld

(* As many rows as scans with a row: a scan is the key of its row, and the *)
(* entry that wrote it keeps the rows finite. *)
LEMMA KeyedIsBilledOnce == ASSUME RowTypes, RowsAreKeyed PROVE BilledOnce
    <1>1. ASSUME NEW t \in Tenants
          PROVE  ScansOf(t) = Cardinality({r.scan : r \in rows} \cap {s \in Scans : TenantOf[s] = t})
        <2> DEFINE R == {r \in rows : TenantOf[r.scan] = t}
                   S == {r.scan : r \in rows} \cap {s \in Scans : TenantOf[s] = t}
                   entryOf == [r \in R |-> r.entry]
                   scan == [r \in R |-> r.scan]
        <2>1. \A r \in R : r.entry \in Entries /\ r.scan \in S
            BY DEF RowTypes, Rows
        <2>2. \A r, q \in R : r.scan = q.scan => r = q
            BY DEF RowsAreKeyed
        <2>3. \A r, q \in R : r.entry = q.entry => r = q
            BY <2>2 DEF RowsAreKeyed
        <2>4. entryOf \in Injection(R, Entries)
            BY <2>1, <2>3 DEF Injection, IsInjective
        <2>5. IsFiniteSet(Entries)
            BY EntryFacts, FS_Interval
        <2>6. IsFiniteSet(R)
            BY <2>4, <2>5, FS_Injection
        <2>7. scan \in Bijection(R, S)
            <3>1. scan \in Injection(R, S)
                BY <2>1, <2>2 DEF Injection, IsInjective
            <3>2. \A s \in S : \E r \in R : scan[r] = s
                OBVIOUS
            <3> QED
                BY <2>1, <3>1, <3>2 DEF Bijection, Surjection
        <2>8. Cardinality(R) = Cardinality(S)
            BY <2>6, <2>7, FS_Bijection DEF ExistsBijection
        <2> QED
            BY <2>8 DEF ScansOf
    <1> QED
        BY <1>1 DEF BilledOnce, RowsAreKeyed

LEMMA TypesSplit ==
    WriterTypeOK <=> MemoryTypes /\ BookTypes /\ ProcessTypes /\ RowTypes
    BY DEF WriterTypeOK, MemoryTypes, BookTypes, ProcessTypes, RowTypes

LEMMA WriterIInvInit == WriterInit => WriterIInv
    <1> SUFFICES ASSUME WriterInit PROVE WriterIInv
        OBVIOUS
    <1>1. Flushers = {"reader", "timer"}
        BY DEF Flushers
    <1>2. MemoryTypes
        BY EmptySeq DEF WriterInit, MemoryTypes, FlusherPlaces
    <1>3. BookTypes
        BY EntryFacts DEF WriterInit, BookTypes
    <1>4. ProcessTypes
        <2>1. /\ kills = 0 /\ stops = 0 /\ raises = 0 /\ overlap = FALSE
              /\ leaving = FALSE /\ life = "up" /\ pool = "open"
            BY DEF WriterInit
        <2>2. 0 \in 0 .. KillBudget /\ 0 \in 0 .. StopBudget /\ 0 \in 0 .. RaiseBudget
            BY BudgetFacts
        <2>3. /\ kills \in 0 .. KillBudget
              /\ stops \in 0 .. StopBudget
              /\ raises \in 0 .. RaiseBudget
            BY <2>1, <2>2, Zenon
        <2>4. overlap \in BOOLEAN /\ leaving \in BOOLEAN
            BY <2>1, Zenon
        <2> QED
            BY <2>1, <2>3, <2>4, Zenon DEF ProcessTypes
    <1>5. RowTypes /\ RowsAreKeyed
        BY DEF WriterInit, RowTypes, RowsAreKeyed
    <1>6. HandsFit
        BY DEF WriterInit, HandsFit
    <1>7. /\ fetched = <<>> /\ batch = <<>> /\ \A f \in Flushers : hand[f] = <<>>
          /\ stored = {} /\ acked = {} /\ delivered = 0 /\ rows = {}
        BY DEF WriterInit
    <1>8. HeldIsDelivered
        BY <1>7, OfNone DEF HeldIsDelivered, InMemory
    <1>9. HeldApart
        BY <1>1, <1>7, OfNone DEF HeldApart
    <1>10. HeldInOrder
        BY <1>1, <1>7, OfNone DEF HeldInOrder, Below, NewerThanStored
    <1>11. AckedIsStored /\ ReadIsAccountedFor /\ RowShowsTheLatest
        BY <1>7 DEF AckedIsStored, ReadIsAccountedFor, RowShowsTheLatest
    <1> QED
        BY <1>2, <1>3, <1>4, <1>5, <1>6, <1>8, <1>9, <1>10, <1>11, TypesSplit
           DEF WriterIInv

LEMMA WriterIInvNext == WriterIInv /\ [WriterNext]_writerVars => WriterIInv'
    <1> SUFFICES ASSUME WriterIInv, [WriterNext]_writerVars PROVE WriterIInv'
        OBVIOUS
    <1>1. /\ MemoryTypes /\ BookTypes /\ ProcessTypes /\ RowTypes /\ HandsFit /\ HeldIsDelivered
          /\ HeldApart /\ RowsAreKeyed /\ AckedIsStored /\ ReadIsAccountedFor
          /\ (~overlap => HeldInOrder) /\ RowShowsTheLatest
        BY TypesSplit DEF WriterIInv
    <1>2. WriterShapes /\ TableSteps
        BY WriterStepShapes, TableShapes DEF WriterIInv
    <1>3. MemoryTypes' /\ BookTypes' /\ ProcessTypes' /\ RowTypes'
        BY <1>1, <1>2, MemoryTypesNext, BookTypesNext, ProcessTypesNext,
           RowTypesNext
    <1>4. HandsFit' /\ HeldIsDelivered' /\ HeldApart'
        BY <1>1, <1>2, HandsFitNext, HeldIsDeliveredNext, HeldApartNext
    <1>5. RowsAreKeyed' /\ AckedIsStored' /\ ReadIsAccountedFor'
        BY <1>1, <1>2, RowsAreKeyedNext, BooksNext
    <1>6. (~overlap => HeldInOrder)' /\ RowShowsTheLatest'
        BY <1>1, <1>2, HeldInOrderNext, RowShowsTheLatestNext DEF ProcessTypes
    <1>7. WriterTypeOK'
        BY <1>3 DEF WriterTypeOK, MemoryTypes, BookTypes, ProcessTypes,
           RowTypes
    <1> QED
        BY <1>4, <1>5, <1>6, <1>7 DEF WriterIInv

(* The inductive invariant: what the runs check of the writer, with who    *)
(* holds which entries, apart and in order, and what keys a row. *)
THEOREM WriterInvariance == WriterSpec => []WriterIInv
    BY WriterIInvInit, WriterIInvNext, PTL DEF WriterSpec

(* The books balance: only what is stored is acknowledged, what was handed *)
(* out is accounted for, no entry is in the memory twice and no scan is    *)
(* billed twice, whatever fails and whenever the process ends (_flush,     *)
(* _flush_pending, usage.collect). *)
THEOREM BooksBalance == WriterSpec => []WriterInv
    <1>1. WriterIInv => WriterInv
        BY TypesSplit, ApartIsOnce, KeyedIsBilledOnce DEF WriterIInv, WriterInv
    <1> QED
        BY <1>1, WriterInvariance, PTL

(* Until both flushers had a batch at once, a row shows the last record of *)
(* its scan, also where a batch was stored twice (_store_one, _flush).     *)
THEOREM RowsShowTheLatest == WriterSpec => []RowShowsTheLatest
    BY WriterInvariance, PTL DEF WriterIInv
-----------------------------------------------------------------------------
(***************************************************************************)
(* Notifier                                                                *)
(***************************************************************************)

Busy == {"send", "deliver", "file", "manifest", "reschedule", "give up"}

Left(l) == loop[l].left

Read(t) == entry[t] \in {"pending", "acked"}

-----------------------------------------------------------------------------
(* The inductive invariant *)

(* What a loop has in its hands fits the place it is at. *)
LoopFits ==
  \A l \in Loops :
    /\ loop[l].pc \in {"read", "stopped"} => Left(l) = {}
    /\ loop[l].pc \in Busy \cup {"ack"} => loop[l].item \in Items
    /\ At(l, "send") => Task(l) \in Callbacks
    /\ loop[l].pc \in {"deliver", "file", "manifest"} => Task(l) \in Deliveries
    /\ At(l, "file") => Task(l) \in Copies
    /\ At(l, "take") => Retries(l)

(* The attempt that a retry is for is one that is left: the last failure    *)
(* gives up. *)
AttemptsFit ==
  /\ \A i \in retry : i.attempt < MaxAttempts
  /\ \A l \in Loops :
       /\ \A i \in Left(l) : i.attempt < MaxAttempts
       /\ loop[l].pc \in Busy => Attempt(l) < MaxAttempts
       /\ At(l, "reschedule") => Attempt(l) + 1 < MaxAttempts

(* Whoever puts the manifest has put the file. *)
FileIsFirst ==
  \A l \in Loops : At(l, "manifest") /\ Task(l) \in Copies => Task(l) \in files

(* A task that a loop or the retries know of was read from its stream. *)
KnownIsRead ==
  /\ \A i \in retry : Read(i.task)
  /\ \A l \in Loops :
       /\ \A i \in Left(l) : Read(i.task)
       /\ loop[l].pc \in Busy \cup {"ack"} => Read(Task(l))

(* The attempts that may follow from an attempt number a: itself and, when *)
(* it fails, one of every process that takes the retry.                    *)
Follow(a) == MostTries[MaxAttempts - a]
FollowRetry(a) == Cardinality(Notifiers) * Follow(a + 1)

(* The attempts at a task that are still to be made, as tokens: those of a *)
(* retry that a loop may still take, those of what a loop has read, and    *)
(* those after an attempt that is not yet decided. A token is the number   *)
(* of an attempt with the loop and the item from which it would follow.    *)
Hopes == {"ahead", "held", "after"}
Counts(hope, l, i) ==
  \/ hope = "ahead" /\ Retries(l) /\ (i \in retry \/ (At(l, "take") /\ i \in Left(l)))
  \/ hope = "held" /\ ~At(l, "take") /\ i \in Left(l)
  \/ hope = "after" /\ loop[l].pc \in Busy \ {"give up"} /\ i = loop[l].item
Worth(hope, i) == IF hope = "after" THEN FollowRetry(i.attempt) ELSE Follow(i.attempt)

Tokens(t) ==
  {x \in (Hopes \X Loops \X Items) \X Nat :
     /\ x[1][3].task = t
     /\ Counts(x[1][1], x[1][2], x[1][3])
     /\ x[2] \in 1 .. Worth(x[1][1], x[1][3])}

(* No task ever has more attempts, made or to be made, than the bound. *)
TriesAreCounted ==
  \A t \in Tasks :
    /\ IsFiniteSet(Tokens(t))
    /\ tries[t] + Cardinality(Tokens(t)) <= Follow(0)
    /\ ~Read(t) => tries[t] = 0

NotifierIInv ==
  /\ TypeOK /\ LoopFits /\ AttemptsFit /\ FileIsFirst /\ KnownIsRead
  /\ ManifestHasFile /\ NothingIsForgotten /\ TriesAreCounted

-----------------------------------------------------------------------------
(* The constants *)

LEMMA TaskFacts ==
  /\ MaxAttempts \in Nat \ {0}
  /\ Cardinality(Notifiers) \in Nat
  /\ Copies \subseteq Deliveries /\ Callbacks \subseteq Tasks /\ Deliveries \subseteq Tasks
  /\ NoTask \notin Tasks
  BY AttemptsAssumption, NotifiersAssumption, TasksAssumption, FS_CardinalityType DEF Tasks

LEMMA ItemFacts ==
  /\ \A t \in Tasks, a \in 0 .. MaxAttempts :
       /\ Item(t, a) \in Items
       /\ Item(t, a).task = t /\ Item(t, a).attempt = a
  /\ \A i \in Items : /\ i.task \in Tasks /\ i.attempt \in 0 .. MaxAttempts
                      /\ i = Item(i.task, i.attempt)
  /\ NoItem \notin Items
  BY TaskFacts DEF Items, Item, NoItem

-----------------------------------------------------------------------------
(* What a step does to the loops, in the words of the invariants. *)

Moves(l, place) ==
  /\ loop' \in [Loops -> LoopStates]
  /\ loop'[l].pc = place /\ loop'[l].left = loop[l].left /\ loop'[l].item = loop[l].item
  /\ \A m \in Loops \ {l} : loop'[m] = loop[m]

(* The loops of L start again with empty hands. *)
Resets(L) ==
  /\ loop' \in [Loops -> LoopStates]
  /\ \A l \in L : loop'[l].pc \in {"read", "stopped"} /\ loop'[l].left = {}
  /\ \A m \in Loops \ L : loop'[m] = loop[m]
  /\ dropped' = dropped \cup UNION {HeldBy(l) : l \in L}

StreamIsRead(l) ==
  \E new \in SUBSET Tasks :
    /\ loop[l].pc = "read" /\ ~Retries(l)
    /\ \A t \in new : entry[t] = "new"
    /\ entry' = [t \in Tasks |-> IF t \in new THEN "pending" ELSE entry[t]]
    /\ loop' \in [Loops -> LoopStates]
    /\ loop'[l].pc = "next" /\ loop'[l].left = {Item(t, 0) : t \in new}
    /\ \A m \in Loops \ {l} : loop'[m] = loop[m]
    /\ UNCHANGED <<retry, due, letters, clients, ghosts, budgets>>

DueIsRead(l) ==
  /\ Retries(l) /\ loop[l].pc = "read"
  /\ loop' \in [Loops -> LoopStates]
  /\ \/ loop'[l].pc = "read" /\ loop'[l].left = loop[l].left
     \/ loop'[l].pc = "take" /\ loop'[l].left \subseteq due
  /\ \A m \in Loops \ {l} : loop'[m] = loop[m]
  /\ UNCHANGED <<stores, clients, ghosts, budgets>>

IsTaken(l) ==
  /\ loop[l].pc = "take"
  /\ Moves(l, "next")
  /\ retry' = retry \ Left(l) /\ due' = due \ Left(l)
  /\ UNCHANGED <<entry, letters, clients, ghosts, budgets>>

IsAttempted(l, i) ==
  /\ loop[l].pc = "next" /\ i \in Left(l)
  /\ loop' \in [Loops -> LoopStates]
  /\ loop'[l].pc = (IF i.task \in Callbacks THEN "send" ELSE "deliver")
  /\ loop'[l].left = Left(l) \ {i} /\ loop'[l].item = i
  /\ \A m \in Loops \ {l} : loop'[m] = loop[m]
  /\ tries' = [tries EXCEPT ![i.task] = @ + 1]
  /\ UNCHANGED <<stores, clients, closed, dropped, budgets>>

IsIdle(l) ==
  /\ loop[l].pc = "next" /\ Left(l) = {}
  /\ loop' \in [Loops -> LoopStates]
  /\ loop'[l].pc = "read" /\ loop'[l].left = {}
  /\ \A m \in Loops \ {l} : loop'[m] = loop[m]
  /\ UNCHANGED <<stores, clients, ghosts, budgets>>

GoesOn(l) ==
  \E place \in {"file", "manifest", "give up", "reschedule"} :
    /\ loop[l].pc \in {"deliver", "file"}
    /\ Moves(l, place)
    /\ files' \in {files, files \cup {Task(l)}}
    /\ loop[l].pc = "deliver" => files' = files
    /\ place = "file" => Task(l) \in Copies
    /\ place = "manifest" /\ Task(l) \in Copies => Task(l) \in files'
    /\ place = "reschedule" => Attempt(l) + 1 < MaxAttempts
    /\ UNCHANGED <<stores, manifests, received, ghosts, budgets>>

Ends(l) ==
  \E place \in {"next", "ack", "give up", "reschedule"} :
    /\ loop[l].pc \in {"send", "manifest"}
    /\ Moves(l, place)
    /\ \/ loop[l].pc = "send" /\ UNCHANGED manifests
          /\ received' \in {received, received \cup {Task(l)}}
       \/ loop[l].pc = "manifest" /\ UNCHANGED received
          /\ manifests' \in {manifests, manifests \cup {Task(l)}}
    /\ \/ place \in {"next", "ack"} /\ closed' = closed \cup {Task(l)}
       \/ place \in {"give up", "reschedule"} /\ UNCHANGED closed
    /\ place = "reschedule" => Attempt(l) + 1 < MaxAttempts
    /\ UNCHANGED <<stores, files, tries, dropped, budgets>>

IsRescheduled(l) ==
  \E place \in {"next", "ack"} :
    /\ loop[l].pc = "reschedule"
    /\ Moves(l, place)
    /\ retry' = retry \cup {Item(Task(l), Attempt(l) + 1)}
    /\ due' = due \ {Item(Task(l), Attempt(l) + 1)}
    /\ UNCHANGED <<entry, letters, clients, ghosts, budgets>>

IsGivenUp(l) ==
  \E place \in {"next", "ack"} :
    /\ loop[l].pc = "give up"
    /\ Moves(l, place)
    /\ letters' \in {letters, letters \cup {Task(l)}}
    /\ closed' = closed \cup {Task(l)}
    /\ UNCHANGED <<entry, retry, due, clients, tries, dropped, budgets>>

IsAcked(l) ==
  /\ loop[l].pc = "ack"
  /\ Moves(l, "next")
  /\ entry' = [entry EXCEPT ![Task(l)] = "acked"]
  /\ UNCHANGED <<retry, due, letters, clients, ghosts, budgets>>

Fails ==
  \E L \in SUBSET Loops :
    /\ Resets(L)
    /\ crashes' \in {crashes, crashes + 1} /\ faults' \in {faults, faults + 1}
    /\ UNCHANGED <<stores, clients, tries, closed>>

LoopShapes(l) ==
  \/ StreamIsRead(l) \/ DueIsRead(l) \/ IsTaken(l) \/ (\E i \in Left(l) : IsAttempted(l, i))
  \/ IsIdle(l) \/ GoesOn(l) \/ Ends(l) \/ IsRescheduled(l) \/ IsGivenUp(l) \/ IsAcked(l)

Shapes ==
  \/ \E t \in Tasks : Enqueue(t)
  \/ \E l \in Loops : LoopShapes(l)
  \/ Fails
  \/ \E i \in retry : FallDue(i)
  \/ UNCHANGED vars

LEMMA GotoMoves ==
  ASSUME loop \in [Loops -> LoopStates], NEW l \in Loops, NEW place \in Places, Goto(l, place)
  PROVE  Moves(l, place)
  BY DEF Goto, Moves, LoopStates

LEMMA FreshIs ==
  ASSUME NEW l \in Loops
  PROVE  /\ Fresh(l) \in LoopStates
         /\ [Fresh(l) EXCEPT !.pc = "stopped"] \in LoopStates
         /\ [Fresh(l) EXCEPT !.pc = "read"] \in LoopStates
         /\ Fresh(l).pc = "read" /\ Fresh(l).left = {}
         /\ \A p : [Fresh(l) EXCEPT !.pc = p].pc = p /\ [Fresh(l) EXCEPT !.pc = p].left = {}
  BY DEF Fresh, LoopStates, Places, Streams

LEMMA DieResets ==
  ASSUME loop \in [Loops -> LoopStates], NEW n \in Notifiers, Die(n)
  PROVE  \E L \in SUBSET Loops : Resets(L)
  <1> DEFINE L == {n} \X Kinds
  <1>1. L \subseteq Loops
    BY DEF Loops
  <1>2. \A l \in Loops : l[1] = n <=> l \in L
    BY DEF Loops
  <1>3. loop' \in [Loops -> LoopStates]
    BY FreshIs DEF Die
  <1>4. \A l \in L : loop'[l] = Fresh(l)
    BY <1>1, <1>2 DEF Die
  <1>5. \A m \in Loops \ L : loop'[m] = loop[m]
    BY <1>2 DEF Die
  <1>6. Resets(L)
    BY <1>1, <1>3, <1>4, <1>5, FreshIs DEF Resets, Die
  <1> QED
    BY <1>1, <1>6

LEMMA LoopStepShapes ==
  ASSUME TypeOK, LoopFits, NEW l \in Loops, LoopStep(l)
  PROVE  LoopShapes(l)
  <1>1. /\ loop \in [Loops -> LoopStates]
        /\ loop[l] \in LoopStates
        /\ retry \subseteq Items /\ due \subseteq retry
    BY DEF TypeOK
  <1>2. /\ {"next", "ack", "give up", "reschedule", "file", "manifest"} \subseteq Places
        /\ Back(l) \in {"next", "ack"}
        /\ AfterFailure(Attempt(l)) \in {"give up", "reschedule"}
        /\ FirstPut(Task(l)) \in {"file", "manifest"}
    BY DEF Places, Back, AfterFailure, FirstPut
  <1>3. ASSUME loop[l].pc \in Busy PROVE Attempt(l) \in 0 .. MaxAttempts
    BY <1>3, ItemFacts DEF LoopFits, Attempt
  <1>4. ASSUME loop[l].pc \in Busy, AfterFailure(Attempt(l)) = "reschedule"
        PROVE  Attempt(l) + 1 < MaxAttempts
    BY <1>3, <1>4, TaskFacts DEF AfterFailure
  <1>5. CASE ReadStream(l)
    <2> DEFINE new == {t \in TasksOf(loop[l].turn) : entry[t] = "new"}
    <2>1. new \in SUBSET Tasks
      BY DEF TasksOf, Tasks
    <2>2. {Item(t, 0) : t \in new} \in SUBSET Items
      BY <2>1, ItemFacts, TaskFacts
    <2>3. /\ loop' = [loop EXCEPT ![l].pc = "next", ![l].left = {Item(t, 0) : t \in new}]
          /\ entry' = [t \in Tasks |-> IF t \in new THEN "pending" ELSE entry[t]]
          /\ loop[l].pc = "read" /\ ~Retries(l)
          /\ UNCHANGED <<retry, due, letters, clients, ghosts, budgets>>
      BY <1>5 DEF ReadStream, At
    <2>4. \A t \in new : entry[t] = "new"
      OBVIOUS
    <2> HIDE DEF new
    <2>5. /\ loop' \in [Loops -> LoopStates]
          /\ loop'[l].pc = "next" /\ loop'[l].left = {Item(t, 0) : t \in new}
          /\ \A m \in Loops \ {l} : loop'[m] = loop[m]
      BY <1>1, <2>2, <2>3 DEF LoopStates, Places
    <2>6. StreamIsRead(l)
      BY <2>1, <2>3, <2>4, <2>5 DEF StreamIsRead
    <2> QED
      BY <2>6 DEF LoopShapes
  <1>6. CASE ReadDue(l)
    <2> DEFINE found == {i \in due : i.task \in TasksOf(loop[l].turn)}
    <2>1. found \subseteq due /\ found \in SUBSET Items
      BY <1>1
    <2>2. /\ \/ loop' = [loop EXCEPT ![l].turn = Other(loop[l].turn)]
             \/ loop' = [loop EXCEPT ![l].pc = "take", ![l].left = found]
          /\ loop[l].pc = "read" /\ Retries(l)
          /\ UNCHANGED <<stores, clients, ghosts, budgets>>
      BY <1>6 DEF ReadDue, At
    <2> HIDE DEF found
    <2>3. Other(loop[l].turn) \in Streams
      BY DEF Other, Streams
    <2>4. CASE loop' = [loop EXCEPT ![l].turn = Other(loop[l].turn)]
      BY <1>1, <2>2, <2>3, <2>4 DEF LoopStates, LoopShapes, DueIsRead
    <2>5. CASE loop' = [loop EXCEPT ![l].pc = "take", ![l].left = found]
      BY <1>1, <2>1, <2>2, <2>5 DEF LoopStates, Places, LoopShapes, DueIsRead
    <2> QED
      BY <2>2, <2>4, <2>5
  <1>7. CASE Take(l)
    <2>1. Moves(l, "next")
      BY <1>1, <1>2, <1>7, GotoMoves DEF Take
    <2> QED
      BY <1>7, <2>1 DEF Take, At, Left, LoopShapes, IsTaken
  <1>8. CASE NextTask(l)
    <2>1. ASSUME NEW i \in Left(l),
                 loop' = [loop EXCEPT ![l].pc = IF i.task \in Callbacks THEN "send"
                                                ELSE "deliver",
                                      ![l].left = loop[l].left \ {i},
                                      ![l].item = i],
                 tries' = [tries EXCEPT ![i.task] = @ + 1]
          PROVE  IsAttempted(l, i)
      <3>1. i \in Items /\ (loop[l].left \ {i}) \in SUBSET Items
        BY <1>1 DEF Left, LoopStates
      <3>2. (IF i.task \in Callbacks THEN "send" ELSE "deliver") \in Places
        BY DEF Places
      <3>3. /\ loop' \in [Loops -> LoopStates]
            /\ loop'[l].pc = (IF i.task \in Callbacks THEN "send" ELSE "deliver")
            /\ loop'[l].left = Left(l) \ {i} /\ loop'[l].item = i
            /\ \A m \in Loops \ {l} : loop'[m] = loop[m]
        BY <1>1, <2>1, <3>1, <3>2 DEF LoopStates, Left
      <3> QED
        BY <1>8, <2>1, <3>3 DEF NextTask, At, IsAttempted
    <2>2. ASSUME loop[l].left = {},
                 loop' = [loop EXCEPT ![l].pc = "read", ![l].item = NoItem,
                            ![l].turn = IF Retries(l) THEN Other(@) ELSE @],
                 UNCHANGED tries
          PROVE  IsIdle(l)
      <3>1. loop[l].turn \in Streams /\ Other(loop[l].turn) \in Streams
        BY <1>1 DEF LoopStates, Other, Streams
      <3>2. /\ loop' \in [Loops -> LoopStates]
            /\ loop'[l].pc = "read" /\ loop'[l].left = {}
            /\ \A m \in Loops \ {l} : loop'[m] = loop[m]
        BY <1>1, <2>2, <3>1 DEF LoopStates, Places
      <3> QED
        BY <1>8, <2>2, <3>2 DEF NextTask, At, Left, ghosts, IsIdle
    <2> QED
      BY <1>8, <2>1, <2>2 DEF NextTask, Left, LoopShapes
  <1>9. CASE Deliver(l)
    <2>1. PICK place \in {"file", "manifest", "give up"} :
             Goto(l, place) /\ place \in {"give up", FirstPut(Task(l))}
      BY <1>2, <1>9 DEF Deliver
    <2>2. Moves(l, place)
      BY <1>1, <1>2, <2>1, GotoMoves
    <2>3. GoesOn(l)
      BY <1>9, <2>1, <2>2 DEF Deliver, At, FirstPut, GoesOn, clients
    <2> QED
      BY <2>3 DEF LoopShapes
  <1>10. CASE PutFile(l)
    <2>1. PICK place \in {"manifest", "give up", "reschedule"} :
             /\ Goto(l, place)
             /\ place = "manifest" => files' = files \cup {Task(l)}
             /\ place = "reschedule" => AfterFailure(Attempt(l)) = "reschedule"
      BY <1>2, <1>10 DEF PutFile
    <2>2. Moves(l, place)
      BY <1>1, <1>2, <2>1, GotoMoves
    <2>3. GoesOn(l)
      BY <1>4, <1>10, <2>1, <2>2 DEF PutFile, At, Busy, GoesOn
    <2> QED
      BY <2>3 DEF LoopShapes
  <1>11. CASE Send(l)
    <2>1. PICK place \in {"next", "ack", "give up", "reschedule"} :
             /\ Goto(l, place)
             /\ \/ place \in {"next", "ack"} /\ closed' = closed \cup {Task(l)}
                \/ place \in {"give up", "reschedule"} /\ UNCHANGED closed
             /\ place = "reschedule" => AfterFailure(Attempt(l)) = "reschedule"
      BY <1>2, <1>11 DEF Send, Close
    <2>2. Moves(l, place)
      BY <1>1, <1>2, <2>1, GotoMoves
    <2>3. Ends(l)
      BY <1>4, <1>11, <2>1, <2>2 DEF Send, At, Busy, Ends
    <2> QED
      BY <2>3 DEF LoopShapes
  <1>12. CASE PutManifest(l)
    <2>1. PICK place \in {"next", "ack", "give up", "reschedule"} :
             /\ Goto(l, place)
             /\ \/ place \in {"next", "ack"} /\ closed' = closed \cup {Task(l)}
                \/ place \in {"give up", "reschedule"} /\ UNCHANGED closed
             /\ place = "reschedule" => AfterFailure(Attempt(l)) = "reschedule"
      BY <1>2, <1>12 DEF PutManifest, Close
    <2>2. Moves(l, place)
      BY <1>1, <1>2, <2>1, GotoMoves
    <2>3. Ends(l)
      BY <1>4, <1>12, <2>1, <2>2 DEF PutManifest, At, Busy, Ends
    <2> QED
      BY <2>3 DEF LoopShapes
  <1>13. CASE Reschedule(l)
    <2>1. PICK place \in {"next", "ack"} : Goto(l, place)
      BY <1>2, <1>13 DEF Reschedule
    <2>2. Moves(l, place)
      BY <1>1, <1>2, <2>1, GotoMoves
    <2>3. IsRescheduled(l)
      BY <1>13, <2>2 DEF Reschedule, At, IsRescheduled
    <2> QED
      BY <2>3 DEF LoopShapes
  <1>14. CASE GiveUp(l)
    <2>1. PICK place \in {"next", "ack"} : Goto(l, place)
      BY <1>2, <1>14 DEF GiveUp
    <2>2. Moves(l, place)
      BY <1>1, <1>2, <2>1, GotoMoves
    <2>3. IsGivenUp(l)
      BY <1>14, <2>2 DEF GiveUp, Close, At, IsGivenUp
    <2> QED
      BY <2>3 DEF LoopShapes
  <1>15. CASE Ack(l)
    <2>1. Moves(l, "next")
      BY <1>1, <1>2, <1>15, GotoMoves DEF Ack
    <2> QED
      BY <1>15, <2>1 DEF Ack, At, LoopShapes, IsAcked
  <1> QED
    BY <1>5, <1>6, <1>7, <1>8, <1>9, <1>10, <1>11, <1>12, <1>13, <1>14, <1>15 DEF LoopStep

LEMMA StepShapes ==
  ASSUME TypeOK, LoopFits, [Next]_vars
  PROVE  Shapes
  <1>1. loop \in [Loops -> LoopStates]
    BY DEF TypeOK
  <1>2. ASSUME NEW l \in Loops, CommandRaises(l) PROVE Fails
    <2>1. CASE l[2] = "callbacks" /\ Die(l[1])
      <3>1. l[1] \in Notifiers
        BY DEF Loops
      <3>2. \E L \in SUBSET Loops : Resets(L)
        BY <1>1, <2>1, <3>1, DieResets
      <3> QED
        BY <1>2, <3>2 DEF CommandRaises, Fails
    <2>2. CASE /\ dropped' = dropped \cup HeldBy(l)
               /\ loop' = [loop EXCEPT ![l] =
                             [Fresh(l) EXCEPT !.pc = IF Retries(l) THEN "read" ELSE "stopped"]]
      <3> DEFINE place == IF Retries(l) THEN "read" ELSE "stopped"
                 state == [Fresh(l) EXCEPT !.pc = place]
      <3>1. /\ place \in {"read", "stopped"} /\ state \in LoopStates
            /\ state.pc = place /\ state.left = {}
        <4>1. CASE Retries(l)
          <5>1. place = "read" /\ state = [Fresh(l) EXCEPT !.pc = "read"]
            BY <4>1
          <5> QED
            BY ZenonT(40), <5>1, FreshIs
        <4>2. CASE ~Retries(l)
          BY <4>2, FreshIs
        <4> QED
          BY <4>1, <4>2
      <3>2. loop' = [loop EXCEPT ![l] = state]
        BY <2>2
      <3> HIDE DEF state, place
      <3>3. /\ loop' \in [Loops -> LoopStates]
            /\ loop'[l].pc \in {"read", "stopped"} /\ loop'[l].left = {}
            /\ \A m \in Loops \ {l} : loop'[m] = loop[m]
        BY <1>1, <3>1, <3>2
      <3>4. UNION {HeldBy(m) : m \in {l}} = HeldBy(l)
        OBVIOUS
      <3>5. Resets({l})
        BY <2>2, <3>3, <3>4 DEF Resets
      <3> QED
        BY <1>2, <3>5 DEF CommandRaises, Fails
    <2> QED
      BY <1>2, <2>1, <2>2 DEF CommandRaises
  <1>3. ASSUME NEW n \in Notifiers, Crash(n) PROVE Fails
    BY <1>1, <1>3, DieResets DEF Crash, Fails
  <1> QED
    BY <1>2, <1>3, LoopStepShapes DEF Next, Shapes

-----------------------------------------------------------------------------
(* What each part of the invariant says after a step *)

LEMMA TypesNext ==
  ASSUME TypeOK, LoopFits, AttemptsFit, Shapes
  PROVE  TypeOK'
  <1>1. /\ entry \in [Tasks -> {"absent", "new", "pending", "acked"}]
        /\ retry \subseteq Items /\ due \subseteq retry
        /\ letters \subseteq Tasks /\ received \subseteq Callbacks
        /\ manifests \subseteq Deliveries /\ files \subseteq Copies
        /\ loop \in [Loops -> LoopStates]
        /\ tries \in [Tasks -> Nat] /\ closed \subseteq Tasks /\ dropped \subseteq Tasks
        /\ crashes \in Nat /\ faults \in Nat
    BY DEF TypeOK
  <1>2. \A l \in Loops : loop[l].pc \in Busy \cup {"ack"} => loop[l].item \in Items /\ Task(l) \in Tasks
    BY ItemFacts DEF LoopFits, Task
  <1>3. \A l \in Loops : Left(l) \subseteq Items
    BY <1>1 DEF Left, LoopStates
  <1>4. ASSUME NEW l \in Loops, StreamIsRead(l) PROVE TypeOK'
    BY <1>1, <1>4 DEF StreamIsRead, TypeOK, clients, ghosts, budgets
  <1>5. ASSUME NEW l \in Loops, DueIsRead(l) \/ IsTaken(l) \/ IsIdle(l) PROVE TypeOK'
    BY <1>1, <1>5 DEF DueIsRead, IsTaken, IsIdle, Moves, TypeOK, stores, clients, ghosts, budgets
  <1>6. ASSUME NEW l \in Loops, NEW i \in Left(l), IsAttempted(l, i) PROVE TypeOK'
    <2>1. i.task \in Tasks
      BY <1>3, ItemFacts
    <2>2. tries' \in [Tasks -> Nat]
      BY <1>1, <1>6, <2>1 DEF IsAttempted
    <2> QED
      BY <1>1, <1>6, <2>2 DEF IsAttempted, TypeOK, stores, clients, budgets
  <1>7. ASSUME NEW l \in Loops, GoesOn(l) PROVE TypeOK'
    BY <1>1, <1>7 DEF GoesOn, Moves, LoopFits, At, TypeOK, stores, ghosts, budgets
  <1>8. ASSUME NEW l \in Loops, Ends(l) PROVE TypeOK'
    BY <1>1, <1>2, <1>8 DEF Ends, Moves, LoopFits, At, Busy, TypeOK, stores, budgets
  <1>9. ASSUME NEW l \in Loops, IsRescheduled(l) PROVE TypeOK'
    <2>1. /\ Task(l) \in Tasks
          /\ Attempt(l) \in 0 .. MaxAttempts /\ Attempt(l) + 1 < MaxAttempts
      BY <1>2, <1>9, ItemFacts DEF IsRescheduled, AttemptsFit, At, Busy, Attempt
    <2>2. Item(Task(l), Attempt(l) + 1) \in Items
      BY <2>1, ItemFacts, TaskFacts
    <2> QED
      BY <1>1, <1>9, <2>2 DEF IsRescheduled, Moves, TypeOK, clients, ghosts, budgets
  <1>10. ASSUME NEW l \in Loops, IsGivenUp(l) \/ IsAcked(l) PROVE TypeOK'
    BY <1>1, <1>2, <1>10 DEF IsGivenUp, IsAcked, Moves, Busy, TypeOK, clients, ghosts, budgets
  <1>11. CASE Fails
    <2>1. PICK L \in SUBSET Loops :
             /\ Resets(L)
             /\ crashes' \in {crashes, crashes + 1} /\ faults' \in {faults, faults + 1}
             /\ UNCHANGED <<stores, clients, tries, closed>>
      BY <1>11 DEF Fails
    <2>2. ASSUME NEW l \in Loops PROVE HeldBy(l) \subseteq Tasks
      <3>1. {i.task : i \in loop[l].left} \subseteq Tasks
        BY <1>3, ItemFacts DEF Left
      <3> QED
        BY <1>2, <3>1 DEF HeldBy, Busy
    <2>3. dropped' \subseteq Tasks
      BY <1>1, <2>1, <2>2 DEF Resets
    <2> QED
      BY <1>1, <2>1, <2>3 DEF Resets, TypeOK, stores, clients
  <1>12. ASSUME NEW t \in Tasks, Enqueue(t) PROVE TypeOK'
    BY <1>1, <1>12 DEF Enqueue, TypeOK, clients, ghosts, budgets
  <1>13. ASSUME NEW i \in retry, FallDue(i) PROVE TypeOK'
    BY <1>1, <1>13 DEF FallDue, TypeOK, clients, ghosts, budgets
  <1>14. CASE UNCHANGED vars
    BY <1>1, <1>14 DEF vars, stores, clients, ghosts, budgets, TypeOK
  <1> QED
    BY <1>4, <1>5, <1>6, <1>7, <1>8, <1>9, <1>10, <1>11, <1>12, <1>13, <1>14
       DEF Shapes, LoopShapes

LEMMA LoopFitsNext ==
  ASSUME TypeOK, LoopFits, Shapes
  PROVE  LoopFits'
  <1> DEFINE Fits(l, s) ==
        /\ s.pc \in {"read", "stopped"} => s.left = {}
        /\ s.pc \in Busy \cup {"ack"} => s.item \in Items
        /\ s.pc = "send" => s.item.task \in Callbacks
        /\ s.pc \in {"deliver", "file", "manifest"} => s.item.task \in Deliveries
        /\ s.pc = "file" => s.item.task \in Copies
        /\ s.pc = "take" => Retries(l)
  <1>1. LoopFits <=> \A l \in Loops : Fits(l, loop[l])
    BY DEF LoopFits, At, Left, Task
  <1>2. (\A l \in Loops : Fits(l, loop'[l])) => LoopFits'
    BY DEF LoopFits, At, Left, Task
  <1>3. \A l \in Loops : loop[l].left \subseteq Items
    BY DEF TypeOK, LoopStates
  <1>4. ASSUME NEW l \in Loops, LoopShapes(l) PROVE LoopFits'
    <2>1. \A m \in Loops \ {l} : Fits(m, loop'[m])
      <3>1. \A m \in Loops \ {l} : loop'[m] = loop[m]
        BY <1>4 DEF LoopShapes, StreamIsRead, DueIsRead, IsTaken, IsAttempted, IsIdle, GoesOn,
           Ends, IsRescheduled, IsGivenUp, IsAcked, Moves
      <3> QED
        BY <1>1, <3>1
    <2>2. Fits(l, loop[l])
      BY <1>1
    <2>3. StreamIsRead(l) => Fits(l, loop'[l])
      BY DEF StreamIsRead, Busy
    <2>4. DueIsRead(l) \/ IsTaken(l) \/ IsIdle(l) => Fits(l, loop'[l])
      BY <2>2 DEF DueIsRead, IsTaken, IsIdle, Moves, Busy
    <2>5. ASSUME NEW i \in Left(l), IsAttempted(l, i) PROVE Fits(l, loop'[l])
      <3>2. i \in Items /\ i.task \in Tasks
        BY <1>3, ItemFacts DEF Left
      <3> QED
        BY <2>5, <3>2 DEF IsAttempted, Tasks, Busy
    <2>6. GoesOn(l) => Fits(l, loop'[l])
      BY <2>2 DEF GoesOn, Moves, Task, Busy
    <2>7. Ends(l) \/ IsRescheduled(l) \/ IsGivenUp(l) \/ IsAcked(l) => Fits(l, loop'[l])
      BY <2>2 DEF Ends, IsRescheduled, IsGivenUp, IsAcked, Moves, Task, Busy
    <2>8. Fits(l, loop'[l])
      BY <1>4, <2>3, <2>4, <2>5, <2>6, <2>7 DEF LoopShapes
    <2> QED
      BY <1>2, <2>1, <2>8
  <1>5. CASE Fails
    <2>1. PICK L \in SUBSET Loops : Resets(L)
      BY <1>5 DEF Fails
    <2>2. ASSUME NEW l \in Loops PROVE Fits(l, loop'[l])
      BY <1>1, <2>1 DEF Resets, Busy
    <2> QED
      BY <1>2, <2>2
  <1>6. ASSUME loop' = loop PROVE LoopFits'
    BY <1>1, <1>2, <1>6
  <1> QED
    BY <1>4, <1>5, <1>6 DEF Shapes, Enqueue, FallDue, vars

LEMMA OthersStay ==
  ASSUME NEW l \in Loops, LoopShapes(l)
  PROVE  \A m \in Loops \ {l} : loop'[m] = loop[m]
  BY DEF LoopShapes, StreamIsRead, DueIsRead, IsTaken, IsAttempted, IsIdle, GoesOn, Ends,
     IsRescheduled, IsGivenUp, IsAcked, Moves

LEMMA AttemptsFitNext ==
  ASSUME TypeOK, LoopFits, AttemptsFit, Shapes
  PROVE  AttemptsFit'
  <1> DEFINE Fits(s) ==
        /\ \A i \in s.left : i.attempt < MaxAttempts
        /\ s.pc \in Busy => s.item.attempt < MaxAttempts
        /\ s.pc = "reschedule" => s.item.attempt + 1 < MaxAttempts
  <1>1. /\ \A i \in retry : i.attempt < MaxAttempts
        /\ \A l \in Loops : Fits(loop[l])
    BY DEF AttemptsFit, At, Left, Attempt
  <1>2. ASSUME \A i \in retry' : i.attempt < MaxAttempts, \A l \in Loops : Fits(loop'[l])
        PROVE  AttemptsFit'
    BY <1>2 DEF AttemptsFit, At, Left, Attempt
  <1>3. ASSUME NEW l \in Loops, LoopShapes(l) PROVE AttemptsFit'
    <2>1. \A m \in Loops \ {l} : Fits(loop'[m])
      BY <1>1, <1>3, OthersStay
    <2>2. Fits(loop[l])
      BY <1>1
    <2>3. ASSUME StreamIsRead(l) PROVE Fits(loop'[l]) /\ retry' = retry
      <3>1. PICK new \in SUBSET Tasks : /\ loop'[l].left = {Item(t, 0) : t \in new}
                                        /\ loop'[l].pc = "next" /\ retry' = retry
        BY <2>3 DEF StreamIsRead
      <3>2. \A i \in loop'[l].left : i.attempt = 0
        BY <3>1, ItemFacts, TaskFacts
      <3> QED
        BY <3>1, <3>2, TaskFacts DEF Busy
    <2>4. DueIsRead(l) => Fits(loop'[l]) /\ retry' = retry
      BY <1>1, <2>2 DEF DueIsRead, TypeOK, stores, Busy
    <2>5. IsTaken(l) => Fits(loop'[l]) /\ retry' \subseteq retry
      BY <2>2 DEF IsTaken, Moves, Busy
    <2>6. ASSUME NEW i \in Left(l), IsAttempted(l, i) PROVE Fits(loop'[l]) /\ retry' = retry
      BY <2>2, <2>6 DEF IsAttempted, Left, stores
    <2>7. IsIdle(l) => Fits(loop'[l]) /\ retry' = retry
      BY DEF IsIdle, Busy, stores
    <2>8. GoesOn(l) \/ Ends(l) => Fits(loop'[l]) /\ retry' = retry
      BY <2>2 DEF GoesOn, Ends, Moves, Busy, Attempt, stores
    <2>9. IsGivenUp(l) \/ IsAcked(l) => Fits(loop'[l]) /\ retry' = retry
      BY <2>2 DEF IsGivenUp, IsAcked, Moves, Busy
    <2>10. ASSUME IsRescheduled(l)
           PROVE  Fits(loop'[l]) /\ \A i \in retry' : i.attempt < MaxAttempts
      <3>1. Item(Task(l), Attempt(l) + 1).attempt < MaxAttempts
        BY <2>2, <2>10 DEF IsRescheduled, Item, Attempt
      <3> QED
        BY <1>1, <2>2, <2>10, <3>1 DEF IsRescheduled, Moves, Busy
    <2>11. Fits(loop'[l]) /\ \A i \in retry' : i.attempt < MaxAttempts
      BY <1>1, <1>3, <2>3, <2>4, <2>5, <2>6, <2>7, <2>8, <2>9, <2>10 DEF LoopShapes
    <2> QED
      BY <1>2, <2>1, <2>11
  <1>4. CASE Fails
    <2>1. PICK L \in SUBSET Loops : Resets(L) /\ retry' = retry
      BY <1>4 DEF Fails, stores
    <2>2. ASSUME NEW l \in Loops PROVE Fits(loop'[l])
      BY <1>1, <2>1 DEF Resets, Busy
    <2> QED
      BY <1>1, <1>2, <2>1, <2>2
  <1>5. ASSUME loop' = loop, retry' = retry PROVE AttemptsFit'
    BY <1>1, <1>2, <1>5
  <1> QED
    BY <1>3, <1>4, <1>5 DEF Shapes, Enqueue, FallDue, vars, stores

LEMMA FileIsFirstNext ==
  ASSUME TypeOK, LoopFits, FileIsFirst, ManifestHasFile, Shapes
  PROVE  FileIsFirst' /\ ManifestHasFile'
  <1>1. \A l \in Loops : loop[l].pc = "manifest" /\ loop[l].item.task \in Copies => loop[l].item.task \in files
    BY DEF FileIsFirst, At, Task
  <1>2. ASSUME files \subseteq files',
               \A l \in Loops : loop'[l].pc = "manifest" =>
                 \/ loop'[l] = loop[l]
                 \/ loop'[l].item.task \in Copies => loop'[l].item.task \in files'
        PROVE  FileIsFirst'
    BY <1>1, <1>2 DEF FileIsFirst, At, Task
  <1>3. ASSUME NEW l \in Loops, LoopShapes(l) PROVE FileIsFirst'
    <2>1. \A m \in Loops \ {l} : loop'[m] = loop[m]
      BY <1>3, OthersStay
    <2>2. GoesOn(l) =>
            /\ files \subseteq files'
            /\ loop'[l].pc = "manifest" /\ loop'[l].item.task \in Copies => loop'[l].item.task \in files'
      BY DEF GoesOn, Moves, Task
    <2>3. ~GoesOn(l) => files' = files /\ loop'[l].pc # "manifest"
      BY <1>3 DEF LoopShapes, StreamIsRead, DueIsRead, IsTaken, IsAttempted, IsIdle, Ends,
         IsRescheduled, IsGivenUp, IsAcked, Moves, clients
    <2> QED
      BY <1>2, <2>1, <2>2, <2>3
  <1>4. ASSUME Fails PROVE FileIsFirst'
    <2>1. PICK L \in SUBSET Loops : Resets(L) /\ files' = files
      BY <1>4 DEF Fails, clients
    <2>2. ASSUME NEW l \in Loops, loop'[l].pc = "manifest" PROVE loop'[l] = loop[l]
      BY <2>1, <2>2 DEF Resets
    <2>3. \A l \in Loops : loop'[l].pc = "manifest" =>
            \/ loop'[l] = loop[l]
            \/ loop'[l].item.task \in Copies => loop'[l].item.task \in files'
      BY <2>2
    <2>4. files \subseteq files'
      BY <2>1
    <2> QED
      BY <1>2, <2>3, <2>4
  <1>5. ASSUME loop' = loop, files' = files PROVE FileIsFirst'
    BY <1>2, <1>5
  <1>6. FileIsFirst'
    BY <1>3, <1>4, <1>5 DEF Shapes, Enqueue, FallDue, vars, clients
  <1>7. ASSUME files \subseteq files',
               \/ manifests' = manifests
               \/ \E t : manifests' \subseteq manifests \cup {t} /\ (t \in Copies => t \in files)
        PROVE  ManifestHasFile'
    BY <1>7 DEF ManifestHasFile
  <1>8. ASSUME NEW l \in Loops, LoopShapes(l) PROVE ManifestHasFile'
    <2>1. ASSUME Ends(l) PROVE ManifestHasFile'
      <3>1. files' = files
        BY <2>1 DEF Ends
      <3>2. CASE manifests' = manifests
        BY <1>7, <3>1, <3>2
      <3>3. CASE manifests' # manifests
        <4>1. loop[l].pc = "manifest" /\ manifests' \subseteq manifests \cup {Task(l)}
          BY <2>1, <3>3 DEF Ends
        <4>2. Task(l) \in Copies => Task(l) \in files
          BY <4>1 DEF FileIsFirst, At
        <4> QED
          BY <1>7, <3>1, <4>1, <4>2
      <3> QED
        BY <3>2, <3>3
    <2>2. ~Ends(l) => files \subseteq files' /\ manifests' = manifests
      BY <1>8 DEF LoopShapes, StreamIsRead, DueIsRead, IsTaken, IsAttempted, IsIdle, GoesOn,
         IsRescheduled, IsGivenUp, IsAcked, clients
    <2> QED
      BY <1>7, <2>1, <2>2
  <1>9. ManifestHasFile'
    BY <1>7, <1>8 DEF Shapes, Fails, Enqueue, FallDue, vars, clients
  <1> QED
    BY <1>6, <1>9

LEMMA KnownIsReadNext ==
  ASSUME TypeOK, LoopFits, AttemptsFit, KnownIsRead, Shapes
  PROVE  KnownIsRead'
  <1> DEFINE Known(s, e) ==
        /\ \A i \in s.left : e[i.task] \in {"pending", "acked"}
        /\ s.pc \in Busy \cup {"ack"} => e[s.item.task] \in {"pending", "acked"}
  <1>1. /\ \A i \in retry : entry[i.task] \in {"pending", "acked"}
        /\ \A l \in Loops : Known(loop[l], entry)
    BY DEF KnownIsRead, Read, Left, Task
  <1>2. ASSUME \A i \in retry' : entry'[i.task] \in {"pending", "acked"},
               \A l \in Loops : Known(loop'[l], entry')
        PROVE  KnownIsRead'
    BY <1>2 DEF KnownIsRead, Read, Left, Task
  <1>3. /\ loop \in [Loops -> LoopStates] /\ retry \subseteq Items /\ due \subseteq retry
        /\ entry \in [Tasks -> {"absent", "new", "pending", "acked"}]
    BY DEF TypeOK
  <1>4. \A l \in Loops : loop[l].left \subseteq Items
    BY <1>3 DEF LoopStates
  <1>5. \A l \in Loops : loop[l].pc \in Busy \cup {"ack"} => loop[l].item \in Items
    BY DEF LoopFits
  <1>6. ASSUME \A t \in Tasks : entry[t] \in {"pending", "acked"} => entry'[t] \in {"pending", "acked"}
        PROVE  /\ \A i \in retry : entry'[i.task] \in {"pending", "acked"}
               /\ \A l \in Loops : Known(loop[l], entry')
    BY <1>1, <1>3, <1>4, <1>5, <1>6, ItemFacts
  <1>7. ASSUME NEW l \in Loops, LoopShapes(l) PROVE KnownIsRead'
    <2>1. \A m \in Loops \ {l} : loop'[m] = loop[m]
      BY <1>7, OthersStay
    <2>2. ASSUME \A t \in Tasks : Read(t) => entry'[t] \in {"pending", "acked"},
                 Known(loop[l], entry') => Known(loop'[l], entry'),
                 \A i \in retry' : i \in retry \/ entry'[i.task] \in {"pending", "acked"}
          PROVE  KnownIsRead'
      BY <1>2, <1>6, <2>1, <2>2 DEF Read
    <2>3. ASSUME StreamIsRead(l) PROVE KnownIsRead'
      <3>1. PICK new \in SUBSET Tasks :
               /\ entry' = [t \in Tasks |-> IF t \in new THEN "pending" ELSE entry[t]]
               /\ loop'[l].left = {Item(t, 0) : t \in new}
               /\ loop'[l].pc = "next" /\ retry' = retry
        BY <2>3 DEF StreamIsRead
      <3>2. \A t \in Tasks : Read(t) => entry'[t] \in {"pending", "acked"}
        BY <3>1 DEF Read
      <3>3. \A i \in loop'[l].left : entry'[i.task] \in {"pending", "acked"}
        BY <3>1, ItemFacts, TaskFacts
      <3> QED
        BY <2>2, <3>1, <3>2, <3>3 DEF Busy
    <2>4. ASSUME DueIsRead(l) PROVE KnownIsRead'
      <3>1. entry' = entry /\ retry' = retry
        BY <2>4 DEF DueIsRead, stores
      <3>2. Known(loop[l], entry) => Known(loop'[l], entry)
        BY <1>1, <1>3, <2>4 DEF DueIsRead, Busy
      <3> QED
        BY <2>2, <3>1, <3>2 DEF Read
    <2>5. ASSUME IsTaken(l) \/ IsGivenUp(l) \/ IsIdle(l) \/ GoesOn(l) \/ Ends(l) PROVE KnownIsRead'
      <3>1. entry' = entry /\ retry' \subseteq retry
        BY <2>5 DEF IsTaken, IsGivenUp, IsIdle, GoesOn, Ends, stores
      <3>2. Known(loop[l], entry) => Known(loop'[l], entry)
        BY <2>5 DEF IsTaken, IsGivenUp, IsIdle, GoesOn, Ends, Moves, Busy
      <3> QED
        BY <2>2, <3>1, <3>2 DEF Read
    <2>6. ASSUME NEW i \in Left(l), IsAttempted(l, i) PROVE KnownIsRead'
      <3>1. entry' = entry /\ retry' = retry
        BY <2>6 DEF IsAttempted, stores
      <3>2. Known(loop[l], entry) => Known(loop'[l], entry)
        BY <2>6 DEF IsAttempted, Left
      <3> QED
        BY <2>2, <3>1, <3>2 DEF Read
    <2>7. ASSUME IsRescheduled(l) PROVE KnownIsRead'
      <3>1. entry' = entry /\ retry' = retry \cup {Item(Task(l), Attempt(l) + 1)}
        BY <2>7 DEF IsRescheduled
      <3>2. Known(loop[l], entry) => Known(loop'[l], entry)
        BY <2>7 DEF IsRescheduled, Moves, Busy
      <3>3. entry[Item(Task(l), Attempt(l) + 1).task] \in {"pending", "acked"}
        BY <1>1, <2>7 DEF IsRescheduled, Item, Task, Busy
      <3> QED
        BY <2>2, <3>1, <3>2, <3>3 DEF Read
    <2>8. ASSUME IsAcked(l) PROVE KnownIsRead'
      <3>1. entry' = [entry EXCEPT ![Task(l)] = "acked"] /\ retry' = retry
        BY <2>8 DEF IsAcked
      <3>2. \A t \in Tasks : Read(t) => entry'[t] \in {"pending", "acked"}
        BY <1>3, <3>1 DEF Read
      <3>3. loop'[l].pc = "next" /\ loop'[l].left = loop[l].left
        BY <2>8 DEF IsAcked, Moves
      <3> QED
        BY <2>2, <3>1, <3>2, <3>3 DEF Busy
    <2> QED
      BY <1>7, <2>3, <2>4, <2>5, <2>6, <2>7, <2>8 DEF LoopShapes
  <1>8. CASE Fails
    <2>1. PICK L \in SUBSET Loops : Resets(L) /\ retry' = retry /\ entry' = entry
      BY <1>8 DEF Fails, stores
    <2>2. ASSUME NEW l \in Loops PROVE Known(loop'[l], entry)
      BY <1>1, <2>1 DEF Resets, Busy
    <2> QED
      BY <1>1, <1>2, <2>1, <2>2
  <1>9. ASSUME NEW t \in Tasks, Enqueue(t) PROVE KnownIsRead'
    <2>1. /\ entry[t] = "absent" /\ entry' = [entry EXCEPT ![t] = "new"]
          /\ loop' = loop /\ retry' = retry
      BY <1>9 DEF Enqueue
    <2>2. \A u \in Tasks : entry[u] \in {"pending", "acked"} => entry'[u] \in {"pending", "acked"}
      BY <1>3, <2>1
    <2> QED
      BY <1>2, <1>6, <2>1, <2>2
  <1>10. ASSUME loop' = loop, retry' = retry, entry' = entry PROVE KnownIsRead'
    BY <1>1, <1>2, <1>10
  <1> QED
    BY <1>7, <1>8, <1>9, <1>10 DEF Shapes, FallDue, vars, stores

(* Who holds a task, as far as its loop state says it. *)
HeldIn(s) ==
  (IF s.pc = "take" THEN {} ELSE {i.task : i \in s.left})
    \cup (IF s.pc \in Busy THEN {s.item.task} ELSE {})

LEMMA HeldByIs == \A l \in Loops : HeldBy(l) = HeldIn(loop[l])
  BY DEF HeldBy, HeldIn, Task, Busy

Queued(t) == \E i \in retry : i.task = t

Kept(t) ==
  \/ entry[t] \in {"absent", "new"}
  \/ \E l \in Loops : t \in HeldIn(loop[l])
  \/ Queued(t)

LEMMA NothingIsForgottenNext ==
  ASSUME TypeOK, LoopFits, AttemptsFit, KnownIsRead, NothingIsForgotten, Shapes
  PROVE  NothingIsForgotten'
  <1>1. \A t \in Tasks \ (closed \cup dropped) : Kept(t)
    BY HeldByIs DEF NothingIsForgotten, Kept, Queued
  <1>2. ASSUME \A t \in Tasks \ (closed' \cup dropped') : Kept(t)'
        PROVE  NothingIsForgotten'
    <2>1. \A l \in Loops : HeldBy(l)' = HeldIn(loop'[l])
      BY DEF HeldBy, HeldIn, Task, Busy
    <2> QED
      BY <1>2, <2>1 DEF NothingIsForgotten, Kept, Queued
  <1>3. /\ loop \in [Loops -> LoopStates] /\ retry \subseteq Items /\ due \subseteq retry
        /\ entry \in [Tasks -> {"absent", "new", "pending", "acked"}]
    BY DEF TypeOK
  <1>4. \A l \in Loops : loop[l].left \subseteq Items
    BY <1>3 DEF LoopStates
  (* What a step has to show of a loop: who it let go is held elsewhere. *)
  <1>5. ASSUME NEW l \in Loops, LoopShapes(l), closed \subseteq closed', dropped' = dropped,
               \A t \in Tasks : /\ entry[t] \in {"absent", "new"} =>
                                      entry'[t] \in {"absent", "new"} \/ t \in HeldIn(loop'[l])
                                /\ t \in HeldIn(loop[l]) =>
                                      t \in HeldIn(loop'[l]) \/ Queued(t)' \/ t \in closed'
                                /\ Queued(t) => Queued(t)' \/ t \in HeldIn(loop'[l])
        PROVE  NothingIsForgotten'
    <2>1. \A m \in Loops \ {l} : loop'[m] = loop[m]
      BY <1>5, OthersStay
    <2>2. ASSUME NEW t \in Tasks \ (closed' \cup dropped') PROVE Kept(t)'
      <3>1. t \in Tasks \ (closed \cup dropped)
        BY <1>5
      <3>2. CASE entry[t] \in {"absent", "new"}
        BY <1>5, <3>2 DEF Kept
      <3>3. CASE \E m \in Loops : t \in HeldIn(loop[m])
        BY <1>5, <2>1, <3>3 DEF Kept
      <3>4. CASE Queued(t)
        BY <1>5, <3>4 DEF Kept
      <3> QED
        BY <1>1, <3>1, <3>2, <3>3, <3>4 DEF Kept
    <2> QED
      BY <1>2, <2>2
  <1>6. ASSUME NEW l \in Loops, StreamIsRead(l) PROVE NothingIsForgotten'
    <2>1. PICK new \in SUBSET Tasks :
             /\ loop[l].pc = "read"
             /\ entry' = [t \in Tasks |-> IF t \in new THEN "pending" ELSE entry[t]]
             /\ loop'[l].left = {Item(t, 0) : t \in new}
             /\ loop'[l].pc = "next"
             /\ UNCHANGED <<retry, closed, dropped>>
      BY <1>6 DEF StreamIsRead, ghosts
    <2>2. \A t \in new : t \in HeldIn(loop'[l])
      <3>1. ASSUME NEW t \in new PROVE t \in {i.task : i \in loop'[l].left}
        <4>1. Item(t, 0) \in loop'[l].left /\ Item(t, 0).task = t
          BY <2>1, ItemFacts, TaskFacts
        <4> QED
          BY <4>1
      <3> QED
        BY <2>1, <3>1 DEF HeldIn
    <2>3. HeldIn(loop[l]) = {}
      BY <2>1 DEF HeldIn, LoopFits, Left, Busy
    <2>4. \A t \in Tasks : entry[t] \in {"absent", "new"} =>
                             entry'[t] \in {"absent", "new"} \/ t \in HeldIn(loop'[l])
      BY <2>1, <2>2
    <2> QED
      BY <1>5, <1>6, <2>1, <2>3, <2>4 DEF LoopShapes, Queued
  <1>7. ASSUME NEW l \in Loops, DueIsRead(l) \/ IsIdle(l) PROVE NothingIsForgotten'
    <2>1. HeldIn(loop[l]) = {}
      BY <1>7 DEF DueIsRead, IsIdle, HeldIn, LoopFits, Left, Busy
    <2>2. UNCHANGED <<entry, retry, closed, dropped>>
      BY <1>7 DEF DueIsRead, IsIdle, stores, ghosts
    <2> QED
      BY <1>5, <1>7, <2>1, <2>2 DEF LoopShapes, Queued
  <1>8. ASSUME NEW l \in Loops, IsTaken(l) PROVE NothingIsForgotten'
    <2>1. HeldIn(loop[l]) = {} /\ HeldIn(loop'[l]) = {i.task : i \in loop[l].left}
      BY <1>8 DEF IsTaken, Moves, HeldIn, Busy
    <2>2. /\ retry' = retry \ loop[l].left
          /\ UNCHANGED <<entry, closed, dropped>>
      BY <1>8 DEF IsTaken, Left, ghosts
    <2>3. ASSUME NEW t \in Tasks, Queued(t) PROVE Queued(t)' \/ t \in HeldIn(loop'[l])
      BY <2>1, <2>2, <2>3 DEF Queued
    <2> QED
      BY <1>5, <1>8, <2>1, <2>2, <2>3 DEF LoopShapes
  <1>9. ASSUME NEW l \in Loops, NEW i \in Left(l), IsAttempted(l, i) PROVE NothingIsForgotten'
    <2>1. /\ HeldIn(loop[l]) = {j.task : j \in loop[l].left}
          /\ HeldIn(loop'[l]) = {j.task : j \in loop[l].left \ {i}} \cup {i.task}
      BY <1>9 DEF IsAttempted, HeldIn, Busy, Left
    <2>2. UNCHANGED <<entry, retry, closed, dropped>>
      BY <1>9 DEF IsAttempted, stores
    <2> QED
      BY <1>5, <1>9, <2>1, <2>2 DEF LoopShapes, Queued
  <1>10. ASSUME NEW l \in Loops, GoesOn(l) PROVE NothingIsForgotten'
    <2>1. /\ HeldIn(loop'[l]) = HeldIn(loop[l])
          /\ UNCHANGED <<entry, retry, closed, dropped>>
      BY <1>10 DEF GoesOn, Moves, HeldIn, Busy, stores, ghosts
    <2> QED
      BY <1>5, <1>10, <2>1 DEF LoopShapes, Queued
  <1>11. ASSUME NEW l \in Loops, Ends(l) \/ IsGivenUp(l) PROVE NothingIsForgotten'
    <2>1. \/ HeldIn(loop'[l]) = HeldIn(loop[l])
          \/ /\ Task(l) \in closed'
             /\ HeldIn(loop[l]) = HeldIn(loop'[l]) \cup {Task(l)}
      BY <1>11 DEF Ends, IsGivenUp, Moves, HeldIn, Busy, Task
    <2>2. closed \subseteq closed' /\ UNCHANGED <<entry, retry, dropped>>
      BY <1>11 DEF Ends, IsGivenUp, stores
    <2> QED
      BY <1>5, <1>11, <2>1, <2>2 DEF LoopShapes, Queued
  <1>12. ASSUME NEW l \in Loops, IsRescheduled(l) PROVE NothingIsForgotten'
    <2>1. HeldIn(loop[l]) = HeldIn(loop'[l]) \cup {Task(l)}
      BY <1>12 DEF IsRescheduled, Moves, HeldIn, Busy, Task
    <2>2. /\ retry' = retry \cup {Item(Task(l), Attempt(l) + 1)}
          /\ UNCHANGED <<entry, closed, dropped>>
      BY <1>12 DEF IsRescheduled, ghosts
    <2>3. ASSUME NEW t, t = Task(l) PROVE Queued(t)'
      <3>1. Item(t, Attempt(l) + 1) \in retry' /\ Item(t, Attempt(l) + 1).task = t
        BY <2>2, <2>3 DEF Item
      <3> QED
        BY <3>1 DEF Queued
    <2>4. \A t \in Tasks : Queued(t) => Queued(t)'
      BY <2>2 DEF Queued
    <2> QED
      BY <1>5, <1>12, <2>1, <2>2, <2>3, <2>4 DEF LoopShapes
  <1>13. ASSUME NEW l \in Loops, IsAcked(l) PROVE NothingIsForgotten'
    <2>1. HeldIn(loop'[l]) = HeldIn(loop[l])
      BY <1>13 DEF IsAcked, Moves, HeldIn, Busy
    <2>2. /\ entry' = [entry EXCEPT ![Task(l)] = "acked"] /\ entry[Task(l)] \in {"pending", "acked"}
          /\ UNCHANGED <<retry, closed, dropped>>
      BY <1>13 DEF IsAcked, ghosts, KnownIsRead, Read
    <2>3. \A t \in Tasks : entry[t] \in {"absent", "new"} => entry'[t] = entry[t]
      BY <1>3, <2>2
    <2> QED
      BY <1>5, <1>13, <2>1, <2>2, <2>3 DEF LoopShapes, Queued
  <1>14. CASE Fails
    <2>1. PICK L \in SUBSET Loops : Resets(L) /\ UNCHANGED <<entry, retry, closed>>
      BY <1>14 DEF Fails, stores
    <2>2. dropped' = dropped \cup UNION {HeldBy(l) : l \in L}
      BY <2>1 DEF Resets
    <2>3. ASSUME NEW t \in Tasks \ (closed' \cup dropped') PROVE Kept(t)'
      <3>1. t \in Tasks \ (closed \cup dropped) /\ \A l \in L : t \notin HeldIn(loop[l])
        BY <2>1, <2>2, HeldByIs
      <3>2. \A l \in Loops \ L : loop'[l] = loop[l]
        BY <2>1 DEF Resets
      <3> QED
        BY <1>1, <2>1, <3>1, <3>2 DEF Kept, Queued
    <2> QED
      BY <1>2, <2>3
  <1>15. ASSUME NEW u \in Tasks, Enqueue(u) PROVE NothingIsForgotten'
    <2>1. /\ entry' = [entry EXCEPT ![u] = "new"]
          /\ UNCHANGED <<loop, retry, closed, dropped>>
      BY <1>15 DEF Enqueue, ghosts
    <2>2. \A t \in Tasks : Kept(t) => Kept(t)'
      BY <1>3, <2>1 DEF Kept, Queued
    <2> QED
      BY <1>1, <1>2, <2>1, <2>2
  <1>16. ASSUME UNCHANGED <<entry, loop, retry, closed, dropped>> PROVE NothingIsForgotten'
    BY <1>1, <1>2, <1>16 DEF Kept, Queued
  <1> QED
    BY <1>6, <1>7, <1>8, <1>9, <1>10, <1>11, <1>12, <1>13, <1>14, <1>15, <1>16
       DEF Shapes, LoopShapes, FallDue, vars, stores, ghosts

-----------------------------------------------------------------------------
(* The bound on the attempts: MostTries is defined by recursion, so that   *)
(* the function that its equation asks for exists has to be shown, by the  *)
(* least argument for which it would not.                                  *)

LEMMA LeastNumber ==
  ASSUME NEW S \in SUBSET Nat, S # {}
  PROVE  \E x \in S : \A y \in S : x <= y
  <1>1. \E x \in S : \A y \in S : ~ (<<y, x>> \in OpToRel(<, Nat))
    BY WFMin, NatLessThanWellFounded
  <1>2. PICK x \in S : \A y \in S : ~ (y < x)
    BY <1>1 DEF OpToRel
  <1>3. \A y \in S : x <= y
    BY <1>2
  <1> QED
    BY <1>3

MostTriesStep(g, k) == IF k = 0 THEN 0 ELSE 1 + Cardinality(Notifiers) * g[k - 1]

UpTo(m, g) == g \in [0 .. m -> Nat] /\ \A k \in 0 .. m : g[k] = MostTriesStep(g, k)

LEMMA ProductIsNat == \A x \in Nat : Cardinality(Notifiers) * x \in Nat
  BY TaskFacts

LEMMA UpToExists == \A m \in Nat : \E g : UpTo(m, g)
  <1> DEFINE Bad == {m \in Nat : ~ \E g : UpTo(m, g)}
  <1>1. SUFFICES ASSUME Bad # {} PROVE FALSE
    OBVIOUS
  <1>2. PICK b \in Bad : \A y \in Bad : b <= y
    BY <1>1, LeastNumber
  <1>3. CASE b = 0
    <2> DEFINE g == [k \in 0 .. 0 |-> 0]
    <2>1. UpTo(0, g)
      BY DEF UpTo, MostTriesStep
    <2> QED
      BY <1>2, <1>3, <2>1
  <1>4. CASE b # 0
    <2>1. b - 1 \in Nat /\ b \in Nat /\ b - 1 \notin Bad
      BY <1>2, <1>4
    <2>2. PICK g : UpTo(b - 1, g)
      BY <2>1
    <2> DEFINE h == [k \in 0 .. b |-> IF k = b THEN 1 + Cardinality(Notifiers) * g[b - 1] ELSE g[k]]
    <2>3. g[b - 1] \in Nat /\ \A k \in 0 .. b : k # b => k \in 0 .. (b - 1) /\ g[k] \in Nat
      BY <2>1, <2>2 DEF UpTo
    <2>4. h \in [0 .. b -> Nat]
      BY <2>3, ProductIsNat
    <2>5. ASSUME NEW k \in 0 .. b PROVE h[k] = MostTriesStep(h, k)
      <3>1. CASE k = b
        <4>1. b - 1 \in 0 .. b /\ b - 1 # b
          BY <2>1
        <4>2. h[b - 1] = g[b - 1] /\ h[b] = 1 + Cardinality(Notifiers) * g[b - 1]
          BY <4>1
        <4> HIDE DEF h
        <4> QED
          BY <1>4, <3>1, <4>2 DEF MostTriesStep
      <3>2. CASE k # b
        <4>1. k \in 0 .. (b - 1) /\ h[k] = g[k] /\ g[k] = MostTriesStep(g, k)
          BY <2>2, <2>3, <3>2 DEF UpTo
        <4>2. k # 0 => k - 1 \in 0 .. b /\ k - 1 # b
          BY <2>1, <4>1
        <4>3. k # 0 => h[k - 1] = g[k - 1]
          BY <4>2
        <4> HIDE DEF h
        <4> QED
          BY <4>1, <4>3 DEF MostTriesStep
      <3> QED
        BY <3>1, <3>2
    <2> HIDE DEF h
    <2>6. UpTo(b, h)
      BY <2>4, <2>5 DEF UpTo
    <2> QED
      BY <1>2, <2>6
  <1> QED
    BY <1>3, <1>4

LEMMA UpToAgree ==
  ASSUME NEW m \in Nat, NEW q \in Nat, NEW g, NEW h, UpTo(m, g), UpTo(q, h),
         NEW k \in Nat, k <= m, k <= q
  PROVE  g[k] = h[k]
  <1> DEFINE Bad == {j \in 0 .. k : g[j] # h[j]}
  <1>1. SUFFICES ASSUME Bad # {} PROVE FALSE
    OBVIOUS
  <1>2. PICK b \in Bad : \A y \in Bad : b <= y
    <2>1. Bad \in SUBSET Nat
      OBVIOUS
    <2> QED
      BY <1>1, <2>1, LeastNumber
  <1>3. b \in 0 .. m /\ b \in 0 .. q /\ b \in 0 .. k
    OBVIOUS
  <1>4. g[b] = MostTriesStep(g, b) /\ h[b] = MostTriesStep(h, b)
    BY <1>3 DEF UpTo
  <1>5. b # 0 => b - 1 \in 0 .. k /\ b - 1 \notin Bad
    BY <1>2, <1>3
  <1>6. b # 0 => g[b - 1] = h[b - 1]
    BY <1>5
  <1> QED
    BY <1>2, <1>4, <1>6 DEF MostTriesStep

LEMMA MostTriesIs ==
  /\ MostTries \in [Nat -> Nat]
  /\ MostTries[0] = 0
  /\ \A k \in Nat : MostTries[k + 1] = 1 + Cardinality(Notifiers) * MostTries[k]
  <1> DEFINE upTo(m) == CHOOSE g : UpTo(m, g)
             F == [k \in Nat |-> upTo(k)[k]]
  <1>1. \A m \in Nat : UpTo(m, upTo(m))
    BY UpToExists
  <1> HIDE DEF upTo
  <1>2. ASSUME NEW k \in Nat PROVE F[k] = MostTriesStep(F, k)
    <2>1. F[k] = MostTriesStep(upTo(k), k)
      BY <1>1 DEF UpTo
    <2>2. CASE k = 0
      BY <2>1, <2>2 DEF MostTriesStep
    <2>3. CASE k # 0
      <3>1. k - 1 \in Nat /\ k - 1 <= k /\ k - 1 <= k - 1
        BY <2>3
      <3>2. upTo(k)[k - 1] = upTo(k - 1)[k - 1]
        BY <1>1, <3>1, UpToAgree
      <3>3. F[k - 1] = upTo(k - 1)[k - 1]
        BY <3>1
      <3> HIDE DEF F
      <3> QED
        BY <2>1, <2>3, <3>2, <3>3 DEF MostTriesStep
    <2> QED
      BY <2>2, <2>3
  <1>3. F = [k \in Nat |-> F[k]]
    OBVIOUS
  <1> HIDE DEF F
  <1>4. F = [k \in Nat |-> IF k = 0 THEN 0 ELSE 1 + Cardinality(Notifiers) * F[k - 1]]
    BY <1>2, <1>3 DEF MostTriesStep
  <1>5. MostTries = [k \in Nat |-> IF k = 0 THEN 0 ELSE 1 + Cardinality(Notifiers) * MostTries[k - 1]]
    BY <1>4 DEF MostTries
  <1>6. \A k \in Nat : MostTries[k] = IF k = 0 THEN 0 ELSE 1 + Cardinality(Notifiers) * MostTries[k - 1]
    BY <1>5
  <1>7. MostTries = [k \in Nat |-> MostTries[k]]
    BY <1>5
  <1> HIDE DEF MostTries
  <1>8. \A k \in Nat : MostTries[k] \in Nat
    <2> DEFINE Bad == {m \in Nat : MostTries[m] \notin Nat}
    <2>1. SUFFICES ASSUME Bad # {} PROVE FALSE
      OBVIOUS
    <2>2. PICK b \in Bad : \A y \in Bad : b <= y
      BY <2>1, LeastNumber
    <2>3. b # 0
      BY <1>6
    <2>4. b - 1 \in Nat /\ b - 1 \notin Bad
      BY <2>2, <2>3
    <2>5. MostTries[b] = 1 + Cardinality(Notifiers) * MostTries[b - 1]
      BY <1>6, <2>3
    <2> QED
      BY <2>4, <2>5, ProductIsNat
  <1>9. \A k \in Nat : k + 1 \in Nat /\ k + 1 # 0 /\ (k + 1) - 1 = k
    OBVIOUS
  <1> QED
    BY <1>6, <1>7, <1>8, <1>9

LEMMA FollowIs ==
  /\ Follow(0) = MostTries[MaxAttempts]
  /\ \A i \in Items : i.attempt < MaxAttempts =>
       /\ Follow(i.attempt) \in Nat /\ FollowRetry(i.attempt) \in Nat
       /\ Follow(i.attempt) = 1 + FollowRetry(i.attempt)
  /\ Follow(0) \in Nat
  <1>1. MaxAttempts - 0 = MaxAttempts
    BY TaskFacts
  <1>2. ASSUME NEW i \in Items, i.attempt < MaxAttempts
        PROVE  /\ Follow(i.attempt) \in Nat /\ FollowRetry(i.attempt) \in Nat
               /\ Follow(i.attempt) = 1 + FollowRetry(i.attempt)
    <2>1. PICK k \in Nat : k = MaxAttempts - (i.attempt + 1)
      BY <1>2, ItemFacts, TaskFacts
    <2>2. MaxAttempts - i.attempt = k + 1
      BY <2>1, <1>2, ItemFacts, TaskFacts
    <2>3. /\ MostTries[k + 1] = 1 + Cardinality(Notifiers) * MostTries[k]
          /\ MostTries[k] \in Nat /\ MostTries[k + 1] \in Nat
      BY <2>1, MostTriesIs
    <2> QED
      BY <2>1, <2>2, <2>3, ProductIsNat DEF Follow, FollowRetry
  <1> QED
    BY <1>1, <1>2, TaskFacts, MostTriesIs DEF Follow

-----------------------------------------------------------------------------
(* Tokens *)

LEMMA Exchange ==
  ASSUME NEW S, IsFiniteSet(S), NEW R, R \subseteq S, NEW A, IsFiniteSet(A),
         NEW T, T \subseteq (S \ R) \cup A
  PROVE  /\ IsFiniteSet(T)
         /\ Cardinality(T) \in Nat
         /\ Cardinality(T) <= Cardinality(S) - Cardinality(R) + Cardinality(A)
  <1>1. /\ IsFiniteSet(S \ R)
        /\ Cardinality(S \ R) = Cardinality(S) - Cardinality(S \cap R)
    BY FS_Difference
  <1>2. S \cap R = R
    OBVIOUS
  <1>3. /\ IsFiniteSet((S \ R) \cup A)
        /\ Cardinality((S \ R) \cup A)
             = Cardinality(S \ R) + Cardinality(A) - Cardinality((S \ R) \cap A)
    BY <1>1, FS_Union
  <1>4. IsFiniteSet((S \ R) \cap A) /\ IsFiniteSet(R)
    BY <1>1, FS_Intersection, FS_Subset
  <1>5. IsFiniteSet(T) /\ Cardinality(T) <= Cardinality((S \ R) \cup A)
    BY <1>3, FS_Subset
  <1>6. /\ Cardinality((S \ R) \cap A) \in Nat /\ Cardinality(S \ R) \in Nat
        /\ Cardinality(S) \in Nat /\ Cardinality(R) \in Nat /\ Cardinality(A) \in Nat
        /\ Cardinality(T) \in Nat /\ Cardinality((S \ R) \cup A) \in Nat
    BY <1>1, <1>3, <1>4, <1>5, FS_CardinalityType
  <1> QED
    BY <1>1, <1>2, <1>3, <1>5, <1>6

LEMMA ImageIsSmall ==
  ASSUME NEW S, IsFiniteSet(S), NEW f, f = [x \in S |-> f[x]], NEW T, T = {f[x] : x \in S}
  PROVE  IsFiniteSet(T) /\ Cardinality(T) <= Cardinality(S)
  <1>1. f \in Surjection(S, T)
    BY DEF Surjection
  <1> QED
    BY <1>1, FS_Surjection

Row(key, m) == {key} \X (1 .. m)

LEMMA RowSize ==
  ASSUME NEW key, NEW m \in Nat
  PROVE  IsFiniteSet(Row(key, m)) /\ Cardinality(Row(key, m)) = m
  <1>1. IsFiniteSet({key}) /\ Cardinality({key}) = 1
    BY FS_Singleton
  <1>2. IsFiniteSet(1 .. m) /\ Cardinality(1 .. m) = m
    BY FS_Interval
  <1>3. /\ IsFiniteSet({key} \X (1 .. m))
        /\ Cardinality({key} \X (1 .. m)) = Cardinality({key}) * Cardinality(1 .. m)
    BY <1>1, <1>2, FS_Product
  <1>4. Cardinality({key} \X (1 .. m)) = 1 * m
    BY <1>1, <1>2, <1>3
  <1>5. 1 * m = m
    OBVIOUS
  <1> QED
    BY <1>3, <1>4, <1>5 DEF Row

LEMMA TokenIs ==
  ASSUME NEW t, NEW x \in Tokens(t)
  PROVE  \E hope \in Hopes, l \in Loops, i \in Items, k \in Nat :
           /\ x = <<<<hope, l, i>>, k>>
           /\ i.task = t /\ Counts(hope, l, i) /\ k \in 1 .. Worth(hope, i)
  <1>1. /\ x = <<<<x[1][1], x[1][2], x[1][3]>>, x[2]>>
        /\ x[1][1] \in Hopes /\ x[1][2] \in Loops /\ x[1][3] \in Items /\ x[2] \in Nat
    BY DEF Tokens
  <1> QED
    BY <1>1 DEF Tokens

LEMMA TokenIn ==
  ASSUME NEW t, NEW hope \in Hopes, NEW l \in Loops, NEW i \in Items, NEW k \in Nat,
         i.task = t, Counts(hope, l, i), k \in 1 .. Worth(hope, i)
  PROVE  <<<<hope, l, i>>, k>> \in Tokens(t)
  BY DEF Tokens

(* Tokens of new keys come, those of old keys go. *)
LEMMA TokensChange ==
  ASSUME NEW t, NEW old, NEW new,
         \A hope \in Hopes, l \in Loops, i \in Items :
           i.task = t /\ Counts(hope, l, i)' =>
             \/ Counts(hope, l, i) /\ <<hope, l, i>> \notin old
             \/ <<hope, l, i>> \in new
  PROVE  Tokens(t)' \subseteq {x \in Tokens(t) : x[1] \notin old}
                      \cup {x \in new \X Nat : x[2] \in 1 .. Worth(x[1][1], x[1][3])}
  <1> SUFFICES ASSUME NEW x \in Tokens(t)'
               PROVE  \/ x \in Tokens(t) /\ x[1] \notin old
                      \/ x \in new \X Nat /\ x[2] \in 1 .. Worth(x[1][1], x[1][3])
    OBVIOUS
  <1>1. /\ x = <<<<x[1][1], x[1][2], x[1][3]>>, x[2]>>
        /\ x[1] = <<x[1][1], x[1][2], x[1][3]>>
        /\ x[1][1] \in Hopes /\ x[1][2] \in Loops /\ x[1][3] \in Items /\ x[2] \in Nat
    BY DEF Tokens
  <1>2. PICK hope \in Hopes, l \in Loops, i \in Items, k \in Nat :
           x[1][1] = hope /\ x[1][2] = l /\ x[1][3] = i /\ x[2] = k
    BY <1>1
  <1>3. i.task = t /\ Counts(hope, l, i)' /\ k \in 1 .. Worth(hope, i)
    BY <1>2 DEF Tokens, Worth
  <1>4. CASE Counts(hope, l, i) /\ <<hope, l, i>> \notin old
    BY <1>1, <1>2, <1>3, <1>4, TokenIn
  <1>5. CASE <<hope, l, i>> \in new
    BY <1>1, <1>2, <1>3, <1>5
  <1> QED
    BY <1>3, <1>4, <1>5

Counted(t) ==
  /\ IsFiniteSet(Tokens(t))
  /\ tries[t] + Cardinality(Tokens(t)) <= Follow(0)
  /\ ~Read(t) => tries[t] = 0

LEMMA FewerTokens ==
  ASSUME NEW t \in Tasks, Counted(t), tries \in [Tasks -> Nat], tries' = tries,
         Tokens(t)' \subseteq Tokens(t), ~Read(t)' => ~Read(t)
  PROVE  Counted(t)'
  <1>1. /\ IsFiniteSet(Tokens(t)')
        /\ Cardinality(Tokens(t)') <= Cardinality(Tokens(t))
    BY FS_Subset DEF Counted
  <1>2. Cardinality(Tokens(t)) \in Nat /\ Cardinality(Tokens(t)') \in Nat
    BY <1>1, FS_CardinalityType DEF Counted
  <1>3. tries[t] \in Nat /\ Follow(0) \in Nat
    BY FollowIs
  <1> QED
    BY <1>1, <1>2, <1>3 DEF Counted

LEMMA TokensStay ==
  ASSUME NEW t, \A hope \in Hopes, l \in Loops, i \in Items :
                  i.task = t /\ Counts(hope, l, i)' => Counts(hope, l, i)
  PROVE  Tokens(t)' \subseteq Tokens(t)
  <1>1. \A hope \in Hopes, l \in Loops, i \in Items :
          i.task = t /\ Counts(hope, l, i)' =>
            \/ Counts(hope, l, i) /\ <<hope, l, i>> \notin {}
            \/ <<hope, l, i>> \in {}
    OBVIOUS
  <1>2. Tokens(t)' \subseteq {x \in Tokens(t) : x[1] \notin {}}
                   \cup {x \in {} \X Nat : x[2] \in 1 .. Worth(x[1][1], x[1][3])}
    BY <1>1, TokensChange
  <1> QED
    BY <1>2

(* Who has only lost hopes, at its loops. *)
Weaker(l) ==
  /\ At(l, "take")' => At(l, "take") /\ Left(l)' \subseteq Left(l)
  /\ ~At(l, "take")' => Left(l)' = {} \/ (~At(l, "take") /\ Left(l)' \subseteq Left(l))
  /\ loop'[l].pc \in Busy \ {"give up"} =>
       loop[l].pc \in Busy \ {"give up"} /\ loop'[l].item = loop[l].item

LEMMA WeakerStays ==
  ASSUME retry' \subseteq retry, \A l \in Loops : Weaker(l)
  PROVE  \A hope \in Hopes, l \in Loops, i \in Items :
           Counts(hope, l, i)' => Counts(hope, l, i)
  <1> SUFFICES ASSUME NEW hope \in Hopes, NEW l \in Loops, NEW i \in Items, Counts(hope, l, i)'
               PROVE  Counts(hope, l, i)
    OBVIOUS
  <1>1. Weaker(l)
    OBVIOUS
  <1> QED
    BY <1>1 DEF Counts, Weaker, At, Left, Retries

LEMMA CountedReads ==
  ASSUME TypeOK, LoopFits, AttemptsFit, KnownIsRead, TriesAreCounted,
         NEW l \in Loops, StreamIsRead(l), NEW t \in Tasks
  PROVE  Counted(t)'
  <1>1. PICK new \in SUBSET Tasks :
           /\ loop[l].pc = "read"
           /\ \A u \in new : entry[u] = "new"
           /\ entry' = [u \in Tasks |-> IF u \in new THEN "pending" ELSE entry[u]]
           /\ loop'[l].left = {Item(u, 0) : u \in new}
           /\ loop'[l].pc = "next"
           /\ \A m \in Loops \ {l} : loop'[m] = loop[m]
           /\ UNCHANGED <<retry, tries>>
    BY DEF StreamIsRead, ghosts
  <1>2. Counted(t) /\ tries \in [Tasks -> Nat]
    BY DEF TriesAreCounted, Counted, TypeOK
  <1>3. ASSUME NEW hope \in Hopes, NEW m \in Loops, NEW i \in Items, Counts(hope, m, i)'
        PROVE  Counts(hope, m, i) \/ (hope = "held" /\ m = l /\ i \in loop'[l].left)
    <2>1. CASE m = l
      BY <1>1, <1>3, <2>1 DEF Counts, At, Left, Retries, Busy
    <2>2. CASE m # l
      <3>1. loop'[m] = loop[m]
        BY <1>1, <2>2
      <3> QED
        BY <1>1, <1>3, <3>1 DEF Counts, At, Left, Retries
    <2> QED
      BY <2>1, <2>2
  <1>4. CASE t \notin new
    <2>1. \A i \in loop'[l].left : i.task # t
      BY <1>1, <1>4, ItemFacts, TaskFacts
    <2>2. Tokens(t)' \subseteq Tokens(t)
      BY <1>3, <2>1, TokensStay
    <2>3. ~Read(t)' => ~Read(t)
      BY <1>1, <1>4 DEF Read
    <2> QED
      BY <1>1, <1>2, <2>2, <2>3, FewerTokens
  <1>5. CASE t \in new
    <2>1. ~Read(t) /\ tries[t] = 0
      BY <1>1, <1>2, <1>5 DEF Read, Counted
    <2> DEFINE key == <<"held", l, Item(t, 0)>>
               row == Row(key, Follow(0))
    <2>2. Item(t, 0) \in Items /\ Item(t, 0).task = t /\ Item(t, 0).attempt = 0
      BY ItemFacts, TaskFacts
    <2>3. \A hope \in Hopes, m \in Loops, i \in Items :
            i.task = t /\ Counts(hope, m, i)' =>
              \/ Counts(hope, m, i) /\ <<hope, m, i>> \notin {}
              \/ <<hope, m, i>> \in {key}
      <3>1. \A i \in loop'[l].left : i.task = t => i = Item(t, 0)
        BY <1>1, ItemFacts, TaskFacts
      <3> QED
        BY <1>3, <3>1
    <2>4. Tokens(t)' \subseteq {x \in Tokens(t) : x[1] \notin {}}
                     \cup {x \in {key} \X Nat : x[2] \in 1 .. Worth(x[1][1], x[1][3])}
      <3> HIDE DEF key
      <3> QED
        BY <2>3, TokensChange
    <2>5. Tokens(t) = {}
      <3> SUFFICES ASSUME NEW x \in Tokens(t) PROVE FALSE
        OBVIOUS
      <3>1. PICK hope \in Hopes, m \in Loops, i \in Items : i.task = t /\ Counts(hope, m, i)
        BY TokenIs
      <3> QED
        BY <2>1, <3>1 DEF Counts, KnownIsRead, Busy, Task
    <2>6. \A x \in {key} \X Nat : x[2] \in 1 .. Worth(x[1][1], x[1][3]) => x \in row
      BY <2>2 DEF Row, Worth
    <2>7. Tokens(t)' \subseteq row
      <3> HIDE DEF key, row
      <3> QED
        BY <2>4, <2>5, <2>6
    <2>8. IsFiniteSet(row) /\ Cardinality(row) = Follow(0)
      BY RowSize, FollowIs
    <2>9. IsFiniteSet(Tokens(t)') /\ Cardinality(Tokens(t)') <= Follow(0)
      <3> HIDE DEF row
      <3> QED
        BY <2>7, <2>8, FS_Subset
    <2>10. Cardinality(Tokens(t)') \in Nat /\ Follow(0) \in Nat /\ tries'[t] = 0
      BY <1>1, <2>1, <2>9, FollowIs, FS_CardinalityType
    <2> QED
      BY <2>9, <2>10 DEF Counted
  <1> QED
    BY <1>4, <1>5

LEMMA CountedAttempts ==
  ASSUME TypeOK, LoopFits, AttemptsFit, KnownIsRead, TriesAreCounted,
         NEW l \in Loops, NEW i \in Left(l), IsAttempted(l, i), NEW t \in Tasks
  PROVE  Counted(t)'
  <1>1. /\ loop[l].pc = "next"
        /\ loop'[l].pc \in {"send", "deliver"}
        /\ loop'[l].left = Left(l) \ {i} /\ loop'[l].item = i
        /\ \A m \in Loops \ {l} : loop'[m] = loop[m]
        /\ tries' = [tries EXCEPT ![i.task] = @ + 1]
        /\ entry' = entry /\ retry' = retry
    BY DEF IsAttempted, stores
  <1>2. Counted(t) /\ tries \in [Tasks -> Nat]
    BY DEF TriesAreCounted, Counted, TypeOK
  <1>3. i \in Items /\ i.task \in Tasks /\ i.attempt < MaxAttempts /\ Read(i.task)
    BY ItemFacts DEF TypeOK, LoopStates, Left, AttemptsFit, KnownIsRead
  <1>4. ASSUME NEW hope \in Hopes, NEW m \in Loops, NEW j \in Items, Counts(hope, m, j)'
        PROVE  \/ Counts(hope, m, j) /\ <<hope, m, j>> # <<"held", l, i>>
               \/ <<hope, m, j>> = <<"after", l, i>>
    <2>1. CASE m = l
      BY <1>1, <1>4, <2>1 DEF Counts, At, Left, Retries, Busy
    <2>2. CASE m # l
      <3>1. loop'[m] = loop[m]
        BY <1>1, <2>2
      <3> QED
        BY <1>1, <1>4, <2>2, <3>1 DEF Counts, At, Left, Retries
    <2> QED
      BY <2>1, <2>2
  <1>5. CASE t # i.task
    <2>1. Tokens(t)' \subseteq Tokens(t)
      BY <1>4, <1>5, TokensStay
    <2>2. tries'[t] = tries[t]
      BY <1>1, <1>2, <1>5
    <2>3. /\ IsFiniteSet(Tokens(t)')
          /\ Cardinality(Tokens(t)') <= Cardinality(Tokens(t))
      BY <1>2, <2>1, FS_Subset DEF Counted
    <2>4. Cardinality(Tokens(t)) \in Nat /\ Cardinality(Tokens(t)') \in Nat
      BY <1>2, <2>3, FS_CardinalityType DEF Counted
    <2>5. tries[t] \in Nat /\ Follow(0) \in Nat
      BY <1>2, FollowIs
    <2>6. Read(t)' <=> Read(t)
      BY <1>1 DEF Read
    <2> QED
      BY <1>2, <2>2, <2>3, <2>4, <2>5, <2>6 DEF Counted
  <1>6. CASE t = i.task
    <2> DEFINE old == <<"held", l, i>>
               new == <<"after", l, i>>
               R == Row(old, Follow(i.attempt))
               A == Row(new, FollowRetry(i.attempt))
    <2>1. Tokens(t)' \subseteq {x \in Tokens(t) : x[1] \notin {old}}
                     \cup {x \in {new} \X Nat : x[2] \in 1 .. Worth(x[1][1], x[1][3])}
      <3>1. \A hope \in Hopes, m \in Loops, j \in Items :
              j.task = t /\ Counts(hope, m, j)' =>
                \/ Counts(hope, m, j) /\ <<hope, m, j>> \notin {old}
                \/ <<hope, m, j>> \in {new}
        BY <1>4
      <3> HIDE DEF old, new
      <3> QED
        BY <3>1, TokensChange
    <2>2. R \subseteq Tokens(t)
      <3>1. Counts("held", l, i)
        BY <1>1 DEF Counts, At
      <3>2. \A k \in 1 .. Follow(i.attempt) : <<old, k>> \in Tokens(t)
        BY <1>3, <1>6, <3>1, TokenIn, FollowIs DEF Worth, Hopes
      <3> QED
        BY <3>2 DEF Row
    <2>3. \A x \in {new} \X Nat : x[2] \in 1 .. Worth(x[1][1], x[1][3]) => x \in A
      BY DEF Row, Worth
    <2>4. \A x \in R : x[1] = old
      BY DEF Row
    <2>5. /\ IsFiniteSet(R) /\ Cardinality(R) = Follow(i.attempt)
          /\ IsFiniteSet(A) /\ Cardinality(A) = FollowRetry(i.attempt)
      BY <1>3, RowSize, FollowIs
    <2>6. Tokens(t)' \subseteq (Tokens(t) \ R) \cup A
      <3> HIDE DEF old, new, R, A
      <3> QED
        BY <2>1, <2>3, <2>4
    <2> HIDE DEF R, A
    <2>7. /\ IsFiniteSet(Tokens(t)')
          /\ Cardinality(Tokens(t)') \in Nat
          /\ Cardinality(Tokens(t)') <= Cardinality(Tokens(t)) - Cardinality(R) + Cardinality(A)
      BY <1>2, <2>2, <2>5, <2>6, Exchange DEF Counted
    <2>8. tries'[t] = tries[t] + 1 /\ tries[t] \in Nat
      BY <1>1, <1>2, <1>6
    <2>9. /\ Cardinality(Tokens(t)) \in Nat /\ Follow(0) \in Nat
          /\ Follow(i.attempt) = 1 + FollowRetry(i.attempt)
          /\ FollowRetry(i.attempt) \in Nat
      BY <1>2, <1>3, FollowIs, FS_CardinalityType DEF Counted
    <2>10. Read(t)'
      BY <1>1, <1>3, <1>6 DEF Read
    <2>11. tries[t] + Cardinality(Tokens(t)) <= Follow(0)
      BY <1>2 DEF Counted
    <2>12. tries'[t] + Cardinality(Tokens(t)') <= Follow(0)
      BY <2>5, <2>7, <2>8, <2>9, <2>11
    <2> QED
      BY <2>7, <2>10, <2>12 DEF Counted
  <1> QED
    BY <1>5, <1>6

LEMMA CountedTakes ==
  ASSUME TypeOK, LoopFits, TriesAreCounted, NEW l \in Loops, IsTaken(l), NEW t \in Tasks
  PROVE  Counted(t)'
  <1>1. /\ loop[l].pc = "take" /\ Retries(l)
        /\ loop'[l].pc = "next" /\ loop'[l].left = Left(l) /\ loop'[l].item = loop[l].item
        /\ \A m \in Loops \ {l} : loop'[m] = loop[m]
        /\ retry' \subseteq retry /\ entry' = entry /\ tries' = tries
    BY DEF IsTaken, Moves, Left, ghosts, LoopFits, At
  <1>2. retry' = retry \ Left(l)
    BY DEF IsTaken
  <1>3. Counted(t) /\ tries \in [Tasks -> Nat]
    BY DEF TriesAreCounted, Counted, TypeOK
  <1> DEFINE old == {<<"ahead", l, i>> : i \in Left(l)}
             new == {<<"held", l, i>> : i \in Left(l)}
             R == {x \in Tokens(t) : x[1] \in old}
             twin == [x \in R |-> <<<<"held", x[1][2], x[1][3]>>, x[2]>>]
             A == {twin[x] : x \in R}
  <1>4. ASSUME NEW hope \in Hopes, NEW m \in Loops, NEW i \in Items, Counts(hope, m, i)'
        PROVE  \/ Counts(hope, m, i) /\ <<hope, m, i>> \notin old
               \/ <<hope, m, i>> \in new
    <2>1. CASE m = l
      <3>1. (i \in retry' => i \notin Left(l) /\ i \in retry)
        BY <1>2
      <3> QED
        BY <1>1, <1>4, <2>1, <3>1 DEF Counts, At, Left, Retries, Busy
    <2>2. CASE m # l
      <3>1. loop'[m] = loop[m]
        BY <1>1, <2>2
      <3> QED
        BY <1>1, <1>4, <2>2, <3>1 DEF Counts, At, Left, Retries
    <2> QED
      BY <2>1, <2>2
  <1>5. Tokens(t)' \subseteq {x \in Tokens(t) : x[1] \notin old}
                   \cup {x \in new \X Nat : x[2] \in 1 .. Worth(x[1][1], x[1][3])}
    <2> HIDE DEF old, new
    <2> QED
      BY <1>4, TokensChange
  <1>6. ASSUME NEW x \in Tokens(t)', x \in new \X Nat, x[2] \in 1 .. Worth(x[1][1], x[1][3])
        PROVE  x \in A
    <2>1. PICK i \in Left(l), k \in Nat : x = <<<<"held", l, i>>, k>>
      BY <1>6
    <2>2. i \in Items /\ i.task = t /\ k \in 1 .. Worth("ahead", i)
      <3>1. i \in Items
        BY DEF TypeOK, LoopStates, Left
      <3>2. i.task = t
        BY <1>6, <2>1 DEF Tokens
      <3> QED
        BY <1>6, <2>1, <3>1, <3>2 DEF Worth
    <2>3. Counts("ahead", l, i)
      BY <1>1 DEF Counts, At
    <2>4. <<<<"ahead", l, i>>, k>> \in R
      BY <2>2, <2>3, TokenIn DEF Hopes
    <2>5. twin[<<<<"ahead", l, i>>, k>>] = x
      BY <2>1, <2>4
    <2> HIDE DEF twin, R
    <2> QED
      BY <2>4, <2>5
  <1>7. R \subseteq Tokens(t) /\ IsFiniteSet(R)
    BY <1>3, FS_Subset DEF Counted
  <1>8. IsFiniteSet(A) /\ Cardinality(A) <= Cardinality(R)
    <2>1. twin = [x \in R |-> twin[x]]
      OBVIOUS
    <2> HIDE DEF twin, R
    <2> QED
      BY <1>7, <2>1, ImageIsSmall
  <1>9. Tokens(t)' \subseteq (Tokens(t) \ R) \cup A
    <2> HIDE DEF A, new, old
    <2> QED
      BY <1>5, <1>6
  <1> HIDE DEF A, R
  <1>10. /\ IsFiniteSet(Tokens(t)')
         /\ Cardinality(Tokens(t)') \in Nat
         /\ Cardinality(Tokens(t)') <= Cardinality(Tokens(t)) - Cardinality(R) + Cardinality(A)
    BY <1>3, <1>7, <1>8, <1>9, Exchange DEF Counted
  <1>11. /\ Cardinality(Tokens(t)) \in Nat /\ Cardinality(R) \in Nat /\ Cardinality(A) \in Nat
         /\ tries[t] \in Nat /\ Follow(0) \in Nat
    BY <1>3, <1>7, <1>8, FollowIs, FS_CardinalityType DEF Counted
  <1>12. tries[t] + Cardinality(Tokens(t)) <= Follow(0)
    BY <1>3 DEF Counted
  <1>13. tries[t] + Cardinality(Tokens(t)') <= Follow(0)
    BY <1>8, <1>10, <1>11, <1>12
  <1>14. ~Read(t)' => tries[t] = 0
    BY <1>1, <1>3 DEF Counted, Read
  <1> QED
    BY <1>1, <1>10, <1>13, <1>14 DEF Counted

LEMMA CountedReschedules ==
  ASSUME TypeOK, LoopFits, AttemptsFit, KnownIsRead, TriesAreCounted,
         NEW l \in Loops, IsRescheduled(l), NEW t \in Tasks
  PROVE  Counted(t)'
  <1>1. PICK i \in Items : i = loop[l].item
    BY DEF IsRescheduled, LoopFits, Busy
  <1>2. PICK again : again = Item(i.task, i.attempt + 1)
    OBVIOUS
  <1>3. /\ i.attempt + 1 < MaxAttempts
        /\ again \in Items /\ again.task = i.task /\ again.attempt = i.attempt + 1
    <2>1. i.attempt + 1 < MaxAttempts
      BY <1>1 DEF IsRescheduled, AttemptsFit, At, Attempt
    <2> QED
      BY <1>2, <2>1, ItemFacts, TaskFacts
  <1>4. /\ loop[l].pc = "reschedule"
        /\ loop'[l].pc \in {"next", "ack"} /\ loop'[l].left = Left(l)
        /\ \A m \in Loops \ {l} : loop'[m] = loop[m]
        /\ retry' = retry \cup {again} /\ entry' = entry /\ tries' = tries
    BY <1>1, <1>2 DEF IsRescheduled, Moves, Left, ghosts, Task, Attempt
  <1>5. Counted(t) /\ tries \in [Tasks -> Nat]
    BY DEF TriesAreCounted, Counted, TypeOK
  <1> DEFINE old == <<"after", l, i>>
             new == {<<"ahead", <<n, "retries">>, again>> : n \in Notifiers}
             R == Row(old, FollowRetry(i.attempt))
             A == new \X (1 .. Follow(again.attempt))
  <1>6. ASSUME NEW hope \in Hopes, NEW m \in Loops, NEW j \in Items, Counts(hope, m, j)'
        PROVE  \/ Counts(hope, m, j) /\ <<hope, m, j>> # old
               \/ <<hope, m, j>> \in new
    <2>1. CASE j = again /\ hope = "ahead" /\ Retries(m)
      <3>1. PICK n \in Notifiers : m = <<n, "retries">>
        BY <2>1 DEF Loops, Retries
      <3> QED
        BY <2>1, <3>1
    <2>2. CASE ~(j = again /\ hope = "ahead" /\ Retries(m))
      <3>1. j \in retry' /\ hope = "ahead" /\ Retries(m) => j \in retry
        BY <1>4, <2>2
      <3>2. CASE m = l
        BY <1>4, <1>6, <3>1, <3>2 DEF Counts, At, Left, Retries, Busy
      <3>3. CASE m # l
        <4>1. loop'[m] = loop[m]
          BY <1>4, <3>3
        <4> QED
          BY <1>6, <3>1, <3>3, <4>1 DEF Counts, At, Left, Retries
      <3> QED
        BY <3>2, <3>3
    <2> QED
      BY <2>1, <2>2
  <1>7. CASE t # i.task
    <2>1. \A hope \in Hopes, m \in Loops, j \in Items :
            j.task = t /\ Counts(hope, m, j)' => Counts(hope, m, j)
      BY <1>3, <1>6, <1>7
    <2>2. Tokens(t)' \subseteq Tokens(t)
      BY <2>1, TokensStay
    <2>3. ~Read(t)' => ~Read(t)
      BY <1>4 DEF Read
    <2> QED
      BY <1>4, <1>5, <2>2, <2>3, FewerTokens
  <1>8. CASE t = i.task
    <2>1. Tokens(t)' \subseteq {x \in Tokens(t) : x[1] \notin {old}}
                     \cup {x \in new \X Nat : x[2] \in 1 .. Worth(x[1][1], x[1][3])}
      <3>1. \A hope \in Hopes, m \in Loops, j \in Items :
              j.task = t /\ Counts(hope, m, j)' =>
                \/ Counts(hope, m, j) /\ <<hope, m, j>> \notin {old}
                \/ <<hope, m, j>> \in new
        BY <1>6
      <3> HIDE DEF old, new
      <3> QED
        BY <3>1, TokensChange
    <2>2. FollowRetry(i.attempt) \in Nat /\ Follow(again.attempt) \in Nat
      BY <1>3, FollowIs, ItemFacts, TaskFacts
    <2>3. R \subseteq Tokens(t)
      <3>1. Counts("after", l, i)
        BY <1>1, <1>4 DEF Counts, Busy
      <3>2. \A k \in 1 .. FollowRetry(i.attempt) : <<old, k>> \in Tokens(t)
        BY <1>8, <2>2, <3>1, TokenIn DEF Worth, Hopes
      <3> QED
        BY <3>2 DEF Row
    <2>4. \A x \in new \X Nat : x[2] \in 1 .. Worth(x[1][1], x[1][3]) => x \in A
      BY DEF Worth
    <2>5. \A x \in R : x[1] = old
      BY DEF Row
    <2>6. Tokens(t)' \subseteq (Tokens(t) \ R) \cup A
      <3> HIDE DEF old, new, R, A
      <3> QED
        BY <2>1, <2>4, <2>5
    <2>7. IsFiniteSet(R) /\ Cardinality(R) = FollowRetry(i.attempt)
      BY <2>2, RowSize
    <2>8. IsFiniteSet(new) /\ Cardinality(new) <= Cardinality(Notifiers)
      <3> DEFINE f == [n \in Notifiers |-> <<"ahead", <<n, "retries">>, again>>]
      <3>1. IsFiniteSet(Notifiers)
        BY NotifiersAssumption
      <3>2. f = [n \in Notifiers |-> f[n]] /\ new = {f[n] : n \in Notifiers}
        OBVIOUS
      <3> HIDE DEF f, new
      <3> QED
        BY <3>1, <3>2, ImageIsSmall
    <2>9. /\ IsFiniteSet(1 .. Follow(again.attempt))
          /\ Cardinality(1 .. Follow(again.attempt)) = Follow(again.attempt)
      BY <2>2, FS_Interval
    <2>10. /\ IsFiniteSet(A)
           /\ Cardinality(A) = Cardinality(new) * Follow(again.attempt)
      <3> HIDE DEF new
      <3> QED
        BY <2>8, <2>9, FS_Product
    <2>11. Cardinality(A) <= FollowRetry(i.attempt)
      <3>1. FollowRetry(i.attempt) = Cardinality(Notifiers) * Follow(again.attempt)
        BY <1>3 DEF FollowRetry
      <3>2. \A x, y, z \in Nat : x <= y => x * z <= y * z
        OBVIOUS
      <3>3. Cardinality(new) \in Nat /\ Cardinality(Notifiers) \in Nat
        BY <2>8, FS_CardinalityType, TaskFacts
      <3> HIDE DEF new, A
      <3> QED
        BY <2>2, <2>8, <2>10, <3>1, <3>2, <3>3
    <2> HIDE DEF R, A
    <2>12. /\ IsFiniteSet(Tokens(t)')
           /\ Cardinality(Tokens(t)') \in Nat
           /\ Cardinality(Tokens(t)') <= Cardinality(Tokens(t)) - Cardinality(R) + Cardinality(A)
      BY <1>5, <2>3, <2>6, <2>10, Exchange DEF Counted
    <2>13. /\ Cardinality(Tokens(t)) \in Nat /\ Cardinality(A) \in Nat
           /\ tries[t] \in Nat /\ Follow(0) \in Nat
      BY <1>5, <2>10, FollowIs, FS_CardinalityType DEF Counted
    <2>14. tries[t] + Cardinality(Tokens(t)) <= Follow(0)
      BY <1>5 DEF Counted
    <2>15. tries[t] + Cardinality(Tokens(t)') <= Follow(0)
      BY <2>2, <2>7, <2>11, <2>12, <2>13, <2>14
    <2>16. ~Read(t)' => tries[t] = 0
      BY <1>4, <1>5 DEF Counted, Read
    <2> QED
      BY <1>4, <2>12, <2>15, <2>16 DEF Counted
  <1> QED
    BY <1>7, <1>8

LEMMA TriesAreCountedNext ==
  ASSUME TypeOK, LoopFits, AttemptsFit, KnownIsRead, TriesAreCounted, Shapes
  PROVE  TriesAreCounted'
  <1>1. SUFFICES ASSUME NEW t \in Tasks PROVE Counted(t)'
    BY DEF TriesAreCounted, Counted
  <1>2. Counted(t) /\ tries \in [Tasks -> Nat]
        /\ entry \in [Tasks -> {"absent", "new", "pending", "acked"}]
    BY DEF TriesAreCounted, Counted, TypeOK
  <1>3. ASSUME retry' \subseteq retry, \A l \in Loops : Weaker(l), tries' = tries,
               ~Read(t)' => ~Read(t)
        PROVE  Counted(t)'
    <2>1. Tokens(t)' \subseteq Tokens(t)
      BY <1>3, WeakerStays, TokensStay
    <2> QED
      BY <1>2, <1>3, <2>1, FewerTokens
  <1>4. ASSUME NEW l \in Loops, Weaker(l), \A m \in Loops \ {l} : loop'[m] = loop[m]
        PROVE  \A m \in Loops : Weaker(m)
    BY <1>4 DEF Weaker, At, Left
  <1>5. ASSUME NEW l \in Loops, GoesOn(l) \/ Ends(l) \/ IsGivenUp(l) \/ IsIdle(l)
        PROVE  Counted(t)'
    <2>1. Weaker(l)
      BY <1>5 DEF GoesOn, Ends, IsGivenUp, IsIdle, Moves, Weaker, At, Left, Busy
    <2>2. \A m \in Loops \ {l} : loop'[m] = loop[m]
      BY <1>5, OthersStay DEF LoopShapes
    <2>3. retry' = retry /\ tries' = tries /\ entry' = entry
      BY <1>5 DEF GoesOn, Ends, IsGivenUp, IsIdle, stores, ghosts
    <2> QED
      BY <1>3, <1>4, <2>1, <2>2, <2>3 DEF Read
  <1>6. ASSUME NEW l \in Loops, IsAcked(l) PROVE Counted(t)'
    <2>1. Weaker(l)
      BY <1>6 DEF IsAcked, Moves, Weaker, At, Left, Busy
    <2>2. /\ \A m \in Loops \ {l} : loop'[m] = loop[m]
          /\ retry' = retry /\ tries' = tries
          /\ entry' = [entry EXCEPT ![Task(l)] = "acked"]
      BY <1>6 DEF IsAcked, Moves, ghosts
    <2>3. ~Read(t)' => ~Read(t)
      BY <1>2, <2>2 DEF Read
    <2> QED
      BY <1>3, <1>4, <2>1, <2>2, <2>3
  <1>7. ASSUME NEW l \in Loops, DueIsRead(l) PROVE Counted(t)'
    <2>1. /\ loop[l].pc = "read" /\ Retries(l) /\ Left(l) = {}
          /\ \/ loop'[l].pc = "read" /\ loop'[l].left = loop[l].left
             \/ loop'[l].pc = "take" /\ loop'[l].left \subseteq retry
          /\ \A m \in Loops \ {l} : loop'[m] = loop[m]
          /\ retry' = retry /\ tries' = tries /\ entry' = entry
      BY <1>7 DEF DueIsRead, LoopFits, TypeOK, stores, ghosts
    <2>2. \A hope \in Hopes, m \in Loops, i \in Items :
            i.task = t /\ Counts(hope, m, i)' => Counts(hope, m, i)
      <3> SUFFICES ASSUME NEW hope \in Hopes, NEW m \in Loops, NEW i \in Items, Counts(hope, m, i)'
                   PROVE  Counts(hope, m, i)
        OBVIOUS
      <3>1. CASE m = l
        BY <2>1, <3>1 DEF Counts, At, Left, Retries, Busy
      <3>2. CASE m # l
        <4>1. loop'[m] = loop[m]
          BY <2>1, <3>2
        <4> QED
          BY <2>1, <4>1 DEF Counts, At, Left, Retries
      <3> QED
        BY <3>1, <3>2
    <2>3. Tokens(t)' \subseteq Tokens(t)
      BY <2>2, TokensStay
    <2> QED
      BY <1>2, <2>1, <2>3, FewerTokens DEF Read
  <1>8. CASE Fails
    <2>1. PICK L \in SUBSET Loops : Resets(L) /\ UNCHANGED <<entry, retry, tries>>
      BY <1>8 DEF Fails, stores
    <2>2. ASSUME NEW m \in Loops PROVE Weaker(m)
      <3>1. CASE m \in L
        BY <2>1, <3>1 DEF Resets, Weaker, At, Left, Busy
      <3>2. CASE m \notin L
        BY <2>1, <3>2 DEF Resets, Weaker, At, Left
      <3> QED
        BY <3>1, <3>2
    <2> QED
      BY <1>3, <2>1, <2>2 DEF Read
  <1>9. ASSUME loop' = loop, retry' = retry, tries' = tries, ~Read(t)' => ~Read(t)
        PROVE  Counted(t)'
    <2>1. \A m \in Loops : Weaker(m)
      BY <1>9 DEF Weaker, At, Left
    <2> QED
      BY <1>3, <1>9, <2>1
  <1>10. ASSUME NEW u \in Tasks, Enqueue(u) PROVE Counted(t)'
    <2>1. /\ entry[u] = "absent" /\ entry' = [entry EXCEPT ![u] = "new"]
          /\ UNCHANGED <<loop, retry, tries>>
      BY <1>10 DEF Enqueue, ghosts
    <2>2. ~Read(t)' => ~Read(t)
      BY <1>2, <2>1 DEF Read
    <2> QED
      BY <1>9, <2>1, <2>2
  <1>11. ASSUME (\E i \in retry : FallDue(i)) \/ UNCHANGED vars PROVE Counted(t)'
    BY <1>9, <1>11 DEF FallDue, vars, stores, ghosts, Read
  <1> QED
    BY <1>5, <1>6, <1>7, <1>8, <1>10, <1>11, CountedReads, CountedAttempts, CountedTakes,
       CountedReschedules DEF Shapes, LoopShapes

-----------------------------------------------------------------------------
(* The theorems *)

LEMMA NotifierIInvInit == Init => NotifierIInv
  <1> SUFFICES ASSUME Init PROVE NotifierIInv
    OBVIOUS
  <1>1. /\ entry = [t \in Tasks |-> "absent"] /\ tries = [t \in Tasks |-> 0]
        /\ retry = {} /\ due = {} /\ letters = {} /\ closed = {} /\ dropped = {}
        /\ files = {} /\ manifests = {} /\ received = {}
        /\ loop = [l \in Loops |-> Fresh(l)]
        /\ crashes = 0 /\ faults = 0
    BY DEF Init
  <1>2. loop \in [Loops -> LoopStates]
    BY <1>1, FreshIs
  <1>3. \A l \in Loops : loop[l].pc = "read" /\ loop[l].left = {}
    BY <1>1, FreshIs
  <1>4. TypeOK
    BY <1>1, <1>2 DEF TypeOK
  <1>5. LoopFits
    BY <1>3 DEF LoopFits, At, Left, Busy
  <1>6. AttemptsFit
    BY <1>1, <1>3 DEF AttemptsFit, At, Left, Busy
  <1>7. FileIsFirst /\ ManifestHasFile
    BY <1>1, <1>3 DEF FileIsFirst, ManifestHasFile, At
  <1>8. KnownIsRead
    BY <1>1, <1>3 DEF KnownIsRead, Left, Busy
  <1>9. NothingIsForgotten
    BY <1>1 DEF NothingIsForgotten
  <1>10. TriesAreCounted
    <2> SUFFICES ASSUME NEW t \in Tasks
                 PROVE  /\ IsFiniteSet(Tokens(t))
                        /\ tries[t] + Cardinality(Tokens(t)) <= Follow(0)
                        /\ ~Read(t) => tries[t] = 0
      BY DEF TriesAreCounted
    <2>1. \A hope \in Hopes, l \in Loops, i \in Items : ~Counts(hope, l, i)
      BY <1>1, <1>3 DEF Counts, At, Left, Busy
    <2>2. Tokens(t) = {}
      <3> SUFFICES ASSUME NEW x \in Tokens(t) PROVE FALSE
        OBVIOUS
      <3> QED
        BY <2>1, TokenIs
    <2>3. tries[t] = 0
      BY <1>1
    <2>4. IsFiniteSet(Tokens(t)) /\ Cardinality(Tokens(t)) = 0
      BY <2>2, FS_EmptySet
    <2> QED
      BY <2>3, <2>4, FollowIs
  <1> QED
    BY <1>4, <1>5, <1>6, <1>7, <1>8, <1>9, <1>10 DEF NotifierIInv

LEMMA NotifierIInvNext == NotifierIInv /\ [Next]_vars => NotifierIInv'
  <1> SUFFICES ASSUME NotifierIInv, [Next]_vars PROVE NotifierIInv'
    OBVIOUS
  <1>1. /\ TypeOK /\ LoopFits /\ AttemptsFit /\ FileIsFirst /\ KnownIsRead
        /\ ManifestHasFile /\ NothingIsForgotten /\ TriesAreCounted
    BY DEF NotifierIInv
  <1>2. Shapes
    BY <1>1, StepShapes
  <1>3. TypeOK' /\ LoopFits' /\ AttemptsFit'
    BY <1>1, <1>2, TypesNext, LoopFitsNext, AttemptsFitNext
  <1>4. FileIsFirst' /\ ManifestHasFile'
    BY <1>1, <1>2, FileIsFirstNext
  <1>5. KnownIsRead' /\ NothingIsForgotten'
    BY <1>1, <1>2, KnownIsReadNext, NothingIsForgottenNext
  <1>6. TriesAreCounted'
    BY <1>1, <1>2, TriesAreCountedNext
  <1> QED
    BY <1>3, <1>4, <1>5, <1>6 DEF NotifierIInv

LEMMA CountedIsBounded ==
  ASSUME TypeOK, TriesAreCounted
  PROVE  TriesAreBounded
  <1> SUFFICES ASSUME NEW t \in Tasks PROVE tries[t] <= MostTries[MaxAttempts]
    BY DEF TriesAreBounded
  <1>1. /\ IsFiniteSet(Tokens(t))
        /\ tries[t] + Cardinality(Tokens(t)) <= Follow(0)
        /\ tries[t] \in Nat
    BY DEF TriesAreCounted, TypeOK
  <1>2. Cardinality(Tokens(t)) \in Nat
    BY <1>1, FS_CardinalityType
  <1> QED
    BY <1>1, <1>2, FollowIs

(* The inductive invariant: what the runs check of the notifier, with what *)
(* a loop holds at which place, and the attempts that may still follow.    *)
THEOREM NotifierInvariance == Spec => []NotifierIInv
  BY NotifierIInvInit, NotifierIInvNext, PTL DEF Spec

(* No manifest announces a file that is not in the client's storage, and a *)
(* task is attempted no more often than max_attempts and the number of     *)
(* processes allow, whatever dies, raises or races (_put, _reschedule,     *)
(* due_retries).                                                           *)
THEOREM AttemptsAreBounded == Spec => []NotifierInv
  <1>1. NotifierIInv => NotifierInv
    BY CountedIsBounded DEF NotifierIInv, NotifierInv
  <1> QED
    BY <1>1, NotifierInvariance, PTL

(* Every task that is not closed is in its stream, in a loop's hands or    *)
(* among the retries, unless a loop that ended had it in memory            *)
(* (_reschedule before the acknowledgement, due_retries).                  *)
THEOREM TasksAreKept == Spec => []NothingIsForgotten
  <1>1. NotifierIInv => NothingIsForgotten
    BY DEF NotifierIInv
  <1> QED
    BY <1>1, NotifierInvariance, PTL
=============================================================================
