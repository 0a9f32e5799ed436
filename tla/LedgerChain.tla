---------------------------- MODULE LedgerChain ----------------------------
(***************************************************************************)
(* The public ledger: processes append hash-chained events to Postgres     *)
(* under an advisory transaction lock, the API verifies and pages through  *)
(* the chain, and pages that are open in a browser follow it live.         *)
(*                                                                         *)
(* A step is one statement of a transaction, one HTTP answer or one frame. *)
(* A hash is the list of what was hashed: equal hashes have equal origins. *)
(* An event's actor and type, and what it says, are left out but for the   *)
(* company and for the address the redaction pass looks for.               *)
(***************************************************************************)
EXTENDS Integers, Sequences, FiniteSets, SequencesExt

CONSTANTS
  Writers,               \* processes that append
  Companies,
  Texts,                 \* addresses that what is appended may hold
  Terminals, Feeds,      \* open pages: companies whose terminal is open, global feeds
  Snapshot, Keep,        \* rows a page starts with, rows it keeps
  Chunk,                 \* events verify takes at a time
  Limit,                 \* events in a page of /api/ledger
  MaxCalls, MaxFaults    \* bounds of the model: appends, faults

ASSUME LedgerChainAssumption ==
  /\ Texts \subseteq {"none", "third_party"}
  /\ Companies # {} /\ Terminals \subseteq Companies /\ Terminals \cap Feeds = {}
  /\ Snapshot \in Nat \ {0} /\ Keep \in Nat \ {0} /\ Chunk \in Nat \ {0} /\ Limit \in Nat \ {0}
  /\ MaxCalls \in Nat /\ MaxFaults \in Nat

Viewers == Terminals \cup Feeds
NoWriter == "none"
ASSUME NoWriterAssumption == NoWriter \notin Writers

VARIABLES
  events,      \* ledger_events, committed rows in seq order
  lock,        \* who holds the advisory lock
  writer,      \* per process: where its append is, and the row it is about to commit
  answered,    \* history: the appends whose caller was told the event
  doubtful,    \* history: the appends whose commit's answer was lost
  page,        \* per viewer: open, listening, rows shown (seqs), lookups in flight
  heard,       \* history: what was committed while the viewer's connection listened
  missed,      \* history: what the viewer's connection lost to a failed lookup
  pager,       \* a client of /api/ledger: what it has read, where it goes on
  calls, faults

feed == <<page, heard, missed>>
vars == <<events, lock, writer, answered, doubtful, feed, pager, calls, faults>>

----------------------------------------------------------------------------
(* chain.ts, redact.ts, audit.ts.                                          *)

Addresses == {"none", "third_party", "hashed"}
Call == 1..MaxCalls
Payload == [call : Call, company : Companies, address : Addresses]

GENESIS_HASH == <<>>
computeHash(prevHash, payload, seq) == Append(prevHash, [payload |-> payload, seq |-> seq])

redact(payload) == IF payload.address = "third_party" THEN [payload EXCEPT !.address = "hashed"] ELSE payload
auditPayload(payload) == payload.address = "third_party"

\* A slice of the chain, the first event anchored at a hash.
verifyChain(slice, anchor) ==
  \A i \in 1..Len(slice) :
    /\ i > 1 => slice[i].seq = slice[i - 1].seq + 1
    /\ slice[i].prevHash = IF i = 1 THEN anchor ELSE slice[i - 1].hash
    /\ slice[i].hash = computeHash(slice[i].prevHash, slice[i].payload, slice[i].seq)

\* The rows at the positions I, in their order.
RowsAt(I) ==
  [k \in 1..Cardinality(I) |-> events[CHOOSE i \in I : Cardinality({j \in I : j <= i}) = k]]
range(from, to) == RowsAt({i \in 1..Len(events) : from <= events[i].seq /\ events[i].seq <= to})

\* Ledger.verify: the predecessor's hash anchors the first chunk, a chunk's last hash the next.
AnchorOf(from) ==
  LET before == range(from - 1, from - 1)
  IN IF from > 1 /\ before # <<>> THEN before[1].hash ELSE GENESIS_HASH
verify(from, to) ==
  LET slice == range(from, to)
      last(k) == IF k * Chunk < Len(slice) THEN k * Chunk ELSE Len(slice)
  IN \A k \in 1..(Len(slice) \div Chunk + 1) :
       verifyChain(SubSeq(slice, (k - 1) * Chunk + 1, last(k)),
                   IF k = 1 THEN AnchorOf(from) ELSE slice[(k - 1) * Chunk].hash)

----------------------------------------------------------------------------
IdleWriter == [at |-> "idle", call |-> 0, tx |-> <<>>]
ClosedPage == [at |-> "closed", rows |-> <<>>, lookups |-> {}]

Init ==
  /\ events = <<>> /\ lock = NoWriter
  /\ writer = [w \in Writers |-> IdleWriter]
  /\ calls = 0
  /\ answered = {} /\ doubtful = {}
  /\ page = [v \in Viewers |-> ClosedPage]
  /\ heard = [v \in Viewers |-> {}] /\ missed = [v \in Viewers |-> {}]
  /\ pager = [next |-> 1, got |-> <<>>]
  /\ faults = 0

(* PgStore.append.                                                         *)

Goto(w, at) == writer' = [writer EXCEPT ![w].at = at]
Quit(w) == writer' = [writer EXCEPT ![w] = IdleWriter]
Fault == faults < MaxFaults /\ faults' = faults + 1

StartAppend(w) ==
  /\ writer[w].at = "idle" /\ calls < MaxCalls
  /\ calls' = calls + 1
  /\ writer' = [writer EXCEPT ![w].at = "begin", ![w].call = calls + 1]
  /\ UNCHANGED <<events, lock, answered, doubtful, feed, pager, faults>>

\* pg_advisory_xact_lock: a writer that finds the lock taken waits.
AcquireLock(w) ==
  /\ writer[w].at = "begin" /\ lock = NoWriter
  /\ lock' = w /\ Goto(w, "locked")
  /\ UNCHANGED <<events, answered, doubtful, feed, pager, calls, faults>>

PrevHash == IF events = <<>> THEN GENESIS_HASH ELSE events[Len(events)].hash
NextSeq == IF events = <<>> THEN 1 ELSE events[Len(events)].seq + 1
Said(w, company, address) == [call |-> writer[w].call, company |-> company, address |-> address]

RowUnredacted(w, company, address) ==
  LET said == Said(w, company, address)
  IN [seq |-> NextSeq, payload |-> said, prevHash |-> PrevHash,
      hash |-> computeHash(PrevHash, said, NextSeq)]

RowHashedRaw(w, company, address) ==
  LET said == Said(w, company, address)
  IN [seq |-> NextSeq, payload |-> redact(said), prevHash |-> PrevHash,
      hash |-> computeHash(PrevHash, said, NextSeq)]

\* Ledger.append redacts, PgStore.append links to the head and hashes.
Row(w, company, address) ==
  LET payload == redact(Said(w, company, address))
  IN [seq |-> NextSeq, payload |-> payload, prevHash |-> PrevHash,
      hash |-> computeHash(PrevHash, payload, NextSeq)]

\* /api/live: the callback of a connection that listens to the event's company looks the row up.
Follows(v, company) == page[v].at = "live" /\ (v \in Feeds \/ company = v)
Notify(row) ==
  /\ page' = [v \in Viewers |-> IF Follows(v, row.payload.company)
                                THEN [page[v] EXCEPT !.lookups = @ \cup {row.seq}] ELSE page[v]]
  /\ heard' = [v \in Viewers |-> IF Follows(v, row.payload.company)
                                 THEN heard[v] \cup {row.seq} ELSE heard[v]]

InsertAndNotify(w) ==
  /\ writer[w].at = "locked"
  /\ \E company \in Companies, address \in Texts :
       /\ writer' = [writer EXCEPT ![w].at = "inserted", ![w].tx = <<Row(w, company, address)>>]
       /\ Notify(Row(w, company, address))
  /\ UNCHANGED <<events, lock, answered, doubtful, missed, pager, calls, faults>>

\* SELECT the head, hash, INSERT and pg_notify: the row is the transaction's own until COMMIT.
InsertRow(w) ==
  /\ writer[w].at = "locked"
  /\ \E company \in Companies, address \in Texts :
       writer' = [writer EXCEPT ![w].at = "inserted", ![w].tx = <<Row(w, company, address)>>]
  /\ UNCHANGED <<events, lock, answered, doubtful, feed, pager, calls, faults>>

\* COMMIT: the row is visible, its notification goes out and the lock is free, at once.
\* seq is the primary key: a row whose seq another one has is never committed.
Commit(w) ==
  /\ writer[w].at = "inserted"
  /\ \A i \in 1..Len(events) : events[i].seq # writer[w].tx[1].seq
  /\ events' = Append(events, writer[w].tx[1])
  /\ lock' = NoWriter
  /\ Notify(writer[w].tx[1])
  /\ writer' = [writer EXCEPT ![w].at = "committed", ![w].tx = <<>>]
  /\ UNCHANGED <<answered, doubtful, missed, pager, calls, faults>>

Answer(w) ==
  /\ writer[w].at = "committed"
  /\ answered' = answered \cup {writer[w].call} /\ Quit(w)
  /\ UNCHANGED <<events, lock, doubtful, feed, pager, calls, faults>>

\* The caller appends again (its activity is retried), or lets the error go.
RetryOrQuit(w) == writer' = [writer EXCEPT ![w].at = "begin", ![w].tx = <<>>] \/ Quit(w)

AbortKeepingLock(w) ==
  /\ writer[w].at \in {"locked", "inserted"} /\ Fault
  /\ RetryOrQuit(w)
  /\ UNCHANGED <<events, lock, answered, doubtful, feed, pager, calls>>

AbortKeepingRow(w) ==
  /\ writer[w].at \in {"locked", "inserted"} /\ Fault
  /\ events' = events \o writer[w].tx
  /\ lock' = NoWriter /\ RetryOrQuit(w)
  /\ UNCHANGED <<answered, doubtful, feed, pager, calls>>

\* The process or its connection dies in the transaction: rolled back, the lock goes with it.
Abort(w) ==
  /\ writer[w].at \in {"locked", "inserted"} /\ Fault
  /\ lock' = NoWriter /\ RetryOrQuit(w)
  /\ UNCHANGED <<events, answered, doubtful, feed, pager, calls>>

LoseAnswer(w) ==
  /\ writer[w].at = "committed" /\ Fault
  /\ doubtful' = doubtful \cup {writer[w].call} /\ RetryOrQuit(w)
  /\ UNCHANGED <<events, lock, answered, feed, pager, calls>>

----------------------------------------------------------------------------
(* /api/live and the pages that follow it.                                 *)

Seqs(rows) == [i \in 1..Len(rows) |-> rows[i].seq]
NewestOf(rows) == SubSeq(rows, IF Len(rows) > Snapshot THEN Len(rows) - Snapshot + 1 ELSE 1, Len(rows))

\* The page arrives with its snapshot: a terminal the company's latest events, the
\* feed the first page of /api/ledger, newest first.
OpenPage(v) ==
  /\ page[v].at = "closed"
  /\ page' = [page EXCEPT ![v] =
       [at |-> "connecting", lookups |-> {},
        rows |-> IF v \in Terminals
                 THEN Seqs(NewestOf(RowsAt({i \in 1..Len(events) : events[i].payload.company = v})))
                 ELSE Reverse(Seqs(range(1, Snapshot)))]]
  /\ UNCHANGED <<events, lock, writer, answered, doubtful, heard, missed, pager, calls, faults>>

\* LISTEN on behalf of the page's EventSource; nothing is replayed.
Connect(v) ==
  /\ page[v].at = "connecting"
  /\ page' = [page EXCEPT ![v].at = "live"]
  /\ UNCHANGED <<events, lock, writer, answered, doubtful, heard, missed, pager, calls, faults>>

Cut(v, rows) ==
  IF Len(rows) <= Keep THEN rows
  ELSE IF v \in Feeds THEN SubSeq(rows, 1, Keep) ELSE SubSeq(rows, Len(rows) - Keep + 1, Len(rows))
Shown(v, rows, n) ==
  IF n \in ToSet(rows) THEN rows ELSE Cut(v, IF v \in Feeds THEN <<n>> \o rows ELSE Append(rows, n))

\* A lookup's SELECT is answered, its frame written and shown; a row not found is no frame.
\* Lookups of one connection end in any order.
Frame(v, n) ==
  /\ n \in page[v].lookups
  /\ page' = [page EXCEPT ![v].lookups = @ \ {n},
                          ![v].rows = IF range(n, n) = <<>> THEN @ ELSE Shown(v, @, n)]
  /\ UNCHANGED <<events, lock, writer, answered, doubtful, heard, missed, pager, calls, faults>>

\* The SELECT or the write throws: swallowed, the event is never shown.
LookupFails(v, n) ==
  /\ n \in page[v].lookups /\ Fault
  /\ page' = [page EXCEPT ![v].lookups = @ \ {n}]
  /\ missed' = [missed EXCEPT ![v] = @ \cup {n}]
  /\ UNCHANGED <<events, lock, writer, answered, doubtful, heard, pager, calls>>

\* The connection drops: the rows stay, what was in flight is lost, the browser connects again.
Disconnect(v) ==
  /\ page[v].at = "live" /\ Fault
  /\ page' = [page EXCEPT ![v].at = "connecting", ![v].lookups = {}]
  /\ missed' = [missed EXCEPT ![v] = @ \cup page[v].lookups]
  /\ UNCHANGED <<events, lock, writer, answered, doubtful, heard, pager, calls>>

----------------------------------------------------------------------------
(* GET /api/ledger: a full page names the next one.                        *)

StartPaging ==
  /\ pager.next = 0
  /\ pager' = [next |-> 1, got |-> <<>>]
  /\ UNCHANGED <<events, lock, writer, answered, doubtful, feed, calls, faults>>

PageFrom(n) == Seqs(range(n, n + Limit - 1))
ReadPage ==
  /\ pager.next > 0
  /\ pager' = [got |-> pager.got \o PageFrom(pager.next),
               next |-> IF Len(PageFrom(pager.next)) = Limit THEN pager.next + Limit ELSE 0]
  /\ UNCHANGED <<events, lock, writer, answered, doubtful, feed, calls, faults>>

----------------------------------------------------------------------------
AppendStep(w) == AcquireLock(w) \/ InsertRow(w) \/ Commit(w) \/ Answer(w)
Append1(w) == StartAppend(w) \/ AppendStep(w) \/ Abort(w) \/ LoseAnswer(w)
FrameStep(v) == \E n \in page[v].lookups : Frame(v, n)
Follow(v) ==
  OpenPage(v) \/ Connect(v) \/ FrameStep(v) \/ Disconnect(v) \/ \E n \in page[v].lookups : LookupFails(v, n)

Next ==
  \/ \E w \in Writers : Append1(w)
  \/ \E v \in Viewers : Follow(v)
  \/ StartPaging \/ ReadPage

Spec == Init /\ [][Next]_vars

\* A transaction that is begun goes on: Postgres grants the lock in turn and the process runs.
Fairness == \A w \in Writers : SF_vars(AcquireLock(w)) /\ WF_vars(AppendStep(w))
FairSpec == Spec /\ Fairness

----------------------------------------------------------------------------
(* Properties.                                                             *)

\* The rows are numbered without gap, each hash covers its predecessor's, and redaction
\* came before the hash (store.ts:59-75).
Linked(i) ==
  /\ events[i].seq = i
  /\ events[i].prevHash = IF i = 1 THEN GENESIS_HASH ELSE events[i - 1].hash
  /\ events[i].hash = computeHash(events[i].prevHash, events[i].payload, events[i].seq)
  /\ ~auditPayload(events[i].payload)
ChainLinked == \A i \in 1..Len(events) : Linked(i)

\* Any contiguous slice of the stored chain verifies, whatever was appended or rolled back
\* at the same time, and the audit finds no third party's address in it (ledger.ts:14-42, audit.ts:46-59).
ChainVerifies ==
  ChainLinked /\ \A from, to \in 1..Len(events) : from <= to => verify(from, to)

Count(c) == Cardinality({i \in 1..Len(events) : events[i].payload.call = c})

\* An append that was answered is in the chain; it is there twice only if an answer of
\* it was lost after its commit (store.ts:59-75).
AnsweredIsStored ==
  \A c \in Call : /\ c \in answered => Count(c) > 0
                  /\ Count(c) > 1 => c \in doubtful

\* What was committed while a page listened is on it, on its way, lost to a failed
\* lookup or connection, or pushed out by newer rows; nothing is shown twice or was
\* never committed (index.ts:1063-1104).
LiveIsComplete ==
  \A v \in Viewers :
    /\ \A n \in heard[v] : \/ n \in ToSet(page[v].rows) \cup page[v].lookups \cup missed[v]
                           \/ Len(page[v].rows) = Keep
    /\ IsInjective(page[v].rows) /\ ToSet(page[v].rows) \subseteq 1..Len(events)

\* A client that follows "next" reads every event once, in order, while others append
\* (index.ts:1107-1124).
PagesAreThePrefix == \A i \in 1..Len(pager.got) : pager.got[i] = i

\* Those who append, those who watch and those who read page by page see the same chain.
ReadersSeeTheChain == AnsweredIsStored /\ LiveIsComplete /\ PagesAreThePrefix

\* The chain is an append-only log of redacted payloads: no row is ever changed or
\* removed, and none comes between two that are there (store.ts:55-75).
Log == INSTANCE AppendLog WITH
         Entry <- {redact(p) : p \in Payload},
         log <- [i \in 1..Len(events) |-> events[i].payload]
LedgerIsALog == Log!Spec

\* Every append that is begun ends: no lock outlives its transaction.
AppendsEnd == \A w \in Writers : writer[w].at # "idle" ~> writer[w].at = "idle"
=============================================================================
