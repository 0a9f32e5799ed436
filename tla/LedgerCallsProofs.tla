------------------------- MODULE LedgerCallsProofs -------------------------
(***************************************************************************)
(* Proofs about LedgerChain, for any number of writers, viewers, texts and *)
(* appends, and any sizes of a chunk, a page and a snapshot.               *)
(*                                                                         *)
(* ChainInv: the holder of the lock carries a row that still fits the head *)
(* it read, so the chain stays linked. The rows of a linked chain are      *)
(* numbered by their places, so a range is a slice of it, and every slice  *)
(* verifies in chunks. CallsInv follows an append through its retries,     *)
(* PagerInv a client from page to page, WatchInv what an open page has     *)
(* heard: together they are what readers see.                              *)
(*                                                                         *)
(* And about the model calls that write its plans, of a company set up in  *)
(* any way. PlanningInv: every call that was made is on a tier that the    *)
(* runway its attempt read allows, for an attempt that was free to plan,   *)
(* and a planner that is done has its report among the public ones.        *)
(***************************************************************************)
EXTENDS LedgerCalls, SequenceTheorems, FiniteSetTheorems, TLAPS

Hash == Seq([payload : Payload, seq : Nat])
StoredRow == [seq : Nat, payload : Payload, prevHash : Hash, hash : Hash]
Redacted == {redact(p) : p \in Payload}

\* What the appends work on.
AppendTyped ==
  /\ events \in Seq(StoredRow)
  /\ calls \in 0..MaxCalls
  /\ writer \in [Writers -> [at : {"idle", "begin", "locked", "inserted", "committed"},
                             call : 0..MaxCalls, tx : Seq(StoredRow)]]

\* A call that is under way has a number.
CallsNumbered == \A w \in Writers : writer[w].at # "idle" => writer[w].call \in Call

\* Only the holder of the lock is between reading the head and its commit.
LockHeld == \A w \in Writers : writer[w].at \in {"locked", "inserted"} => lock = w

\* A row that fits the head of the chain.
Fits(row) ==
  /\ row \in StoredRow /\ row.payload \in Redacted
  /\ row.seq = Len(events) + 1 /\ row.prevHash = PrevHash
  /\ row.hash = computeHash(row.prevHash, row.payload, row.seq)

\* The row its writer is about to commit still fits the head it was made from.
RowFits == \A w \in Writers : writer[w].at = "inserted" => Len(writer[w].tx) = 1 /\ Fits(writer[w].tx[1])

ChainInv == AppendTyped /\ CallsNumbered /\ LockHeld /\ RowFits /\ ChainLinked

AppendVars == <<events, lock, writer, calls>>

----------------------------------------------------------------------------
LEMMA RedactedPayload == \A p \in Payload : redact(p) \in Payload
  BY DEF redact, Payload, Addresses

LEMMA InitChain == Init => ChainInv
  <1> SUFFICES ASSUME Init PROVE ChainInv
    OBVIOUS
  <1>1. AppendTyped
    BY LedgerChainAssumption DEF Init, AppendTyped, IdleWriter
  <1>2. CallsNumbered /\ LockHeld /\ RowFits
    BY DEF Init, CallsNumbered, LockHeld, RowFits, IdleWriter
  <1>3. ChainLinked
    BY DEF Init, ChainLinked
  <1> QED
    BY <1>1, <1>2, <1>3 DEF ChainInv

\* What a step leaves alone, the invariant keeps.
LEMMA SameChain == ChainInv /\ UNCHANGED AppendVars => ChainInv'
  <1> SUFFICES ASSUME ChainInv, UNCHANGED AppendVars PROVE ChainInv'
    OBVIOUS
  <1>1. UNCHANGED events /\ UNCHANGED lock /\ UNCHANGED writer /\ UNCHANGED calls
    BY DEF AppendVars
  <1>2. AppendTyped' /\ CallsNumbered' /\ LockHeld'
    BY <1>1 DEF ChainInv, AppendTyped, CallsNumbered, LockHeld
  <1>3. RowFits'
    BY <1>1 DEF ChainInv, RowFits, Fits, PrevHash
  <1>4. ChainLinked'
    BY <1>1 DEF ChainInv, ChainLinked, Linked
  <1> QED
    BY <1>2, <1>3, <1>4 DEF ChainInv

\* The head of a linked chain tells its length.
LEMMA HeadOfChain ==
  ASSUME ChainInv
  PROVE  /\ Len(events) \in Nat /\ NextSeq = Len(events) + 1 /\ PrevHash \in Hash
         /\ PrevHash = IF events = <<>> THEN <<>> ELSE events[Len(events)].hash
  <1>1. events \in Seq(StoredRow) /\ Len(events) \in Nat
    BY DEF ChainInv, AppendTyped
  <1>2. CASE events = <<>>
    BY <1>1, <1>2 DEF NextSeq, PrevHash, GENESIS_HASH, Hash
  <1>3. CASE events # <<>>
    <2>1. Len(events) \in 1..Len(events) /\ events[Len(events)] \in StoredRow
      BY <1>1, <1>3
    <2> QED
      BY <1>1, <1>3, <2>1 DEF NextSeq, PrevHash, StoredRow, ChainInv, ChainLinked, Linked
  <1> QED
    BY <1>2, <1>3

\* A step that leaves the rows alone and moves one writer that carries no row on.
LEMMA WriterMoves ==
  ASSUME ChainInv, NEW w \in Writers, UNCHANGED events,
         calls' \in 0..MaxCalls,
         NEW r \in [at : {"idle", "begin", "locked", "committed"}, call : 0..MaxCalls, tx : Seq(StoredRow)],
         writer' = [writer EXCEPT ![w] = r],
         r.at # "idle" => r.call \in Call,
         r.at = "locked" => lock' = w /\ lock = NoWriter,
         r.at # "locked" => lock' = lock \/ (lock = w /\ lock' = NoWriter)
  PROVE  ChainInv'
  <1>1. AppendTyped'
    BY DEF ChainInv, AppendTyped
  <1>2. CallsNumbered'
    BY DEF ChainInv, AppendTyped, CallsNumbered
  <1>3. LockHeld'
    BY NoWriterAssumption DEF ChainInv, AppendTyped, LockHeld
  <1>4. RowFits'
    BY DEF ChainInv, AppendTyped, RowFits, Fits, PrevHash
  <1>5. ChainLinked'
    BY DEF ChainInv, ChainLinked, Linked
  <1> QED
    BY <1>1, <1>2, <1>3, <1>4, <1>5 DEF ChainInv

LEMMA InsertRowChain ==
  ASSUME ChainInv, NEW w \in Writers, InsertRow(w)
  PROVE  ChainInv'
  <1> USE DEF InsertRow
  <1>1. PICK company \in Companies, address \in Texts :
          writer' = [writer EXCEPT ![w].at = "inserted", ![w].tx = <<Row(w, company, address)>>]
    OBVIOUS
  <1> DEFINE row == Row(w, company, address)
             said == Said(w, company, address)
  <1>2. said \in Payload
    BY LedgerChainAssumption DEF ChainInv, AppendTyped, CallsNumbered, Said, Payload, Addresses
  <1>3. redact(said) \in Payload /\ redact(said) \in Redacted
    BY <1>2, RedactedPayload DEF Redacted
  <1>4. computeHash(PrevHash, redact(said), NextSeq) \in Hash
    <2>1. PrevHash \in Seq([payload : Payload, seq : Nat]) /\ [payload |-> redact(said), seq |-> NextSeq] \in [payload : Payload, seq : Nat]
      BY HeadOfChain, <1>3 DEF Hash
    <2> QED
      BY <2>1, AppendProperties DEF computeHash, Hash
  <1>5. Fits(row)
    BY <1>3, <1>4, HeadOfChain DEF Fits, Row, StoredRow
  <1>6. /\ writer'[w].at = "inserted" /\ writer'[w].tx = <<row>> /\ writer'[w].call = writer[w].call
        /\ \A v \in Writers \ {w} : writer'[v] = writer[v]
    BY <1>1 DEF ChainInv, AppendTyped
  <1> HIDE DEF row
  <1>7. AppendTyped'
    <2>1. <<row>> \in Seq(StoredRow)
      BY <1>5 DEF Fits
    <2>2. writer' = [writer EXCEPT ![w].at = "inserted", ![w].tx = <<row>>]
      BY <1>1 DEF row
    <2> DEFINE WriterRow == [at : {"idle", "begin", "locked", "inserted", "committed"},
                             call : 0..MaxCalls, tx : Seq(StoredRow)]
    <2>3. writer \in [Writers -> WriterRow]
      BY DEF ChainInv, AppendTyped
    <2>4. [[writer[w] EXCEPT !.at = "inserted"] EXCEPT !.tx = <<row>>] \in WriterRow
      BY <2>1, <2>3
    <2>5. writer' = [writer EXCEPT ![w] = [[writer[w] EXCEPT !.at = "inserted"] EXCEPT !.tx = <<row>>]]
      BY <2>2, <2>3
    <2>6. writer' \in [Writers -> WriterRow]
      BY <2>3, <2>4, <2>5
    <2>7. UNCHANGED <<events, calls>>
      BY <1>1
    <2> QED
      BY <2>6, <2>7 DEF ChainInv, AppendTyped
  <1>8. CallsNumbered' /\ LockHeld'
    BY <1>6 DEF ChainInv, CallsNumbered, LockHeld
  <1>9. RowFits'
    <2>1. SUFFICES ASSUME NEW v \in Writers, writer'[v].at = "inserted"
                   PROVE  Len(writer'[v].tx) = 1 /\ Fits(writer'[v].tx[1])
      BY DEF RowFits, Fits, PrevHash
    <2>2. CASE v = w
      <3>1. writer'[v].tx = <<row>> /\ <<row>>[1] = row /\ Len(<<row>>) = 1
        BY <1>6, <2>2
      <3>2. Fits(row)
        BY <1>5
      <3> QED
        BY <3>1, <3>2 DEF Fits
    <2>3. CASE v # w
      BY <1>6, <2>1, <2>3 DEF ChainInv, RowFits
    <2> QED
      BY <2>2, <2>3
  <1>10. ChainLinked'
    BY DEF ChainInv, ChainLinked, Linked
  <1> QED
    BY <1>7, <1>8, <1>9, <1>10 DEF ChainInv

LEMMA CommitChain ==
  ASSUME ChainInv, NEW w \in Writers, Commit(w)
  PROVE  /\ ChainInv'
         /\ \E row \in StoredRow : row.payload \in Redacted /\ events' = Append(events, row)
  <1> USE DEF Commit
  <1> DEFINE row == writer[w].tx[1]
  <1>1. Fits(row) /\ row \in StoredRow
    BY DEF ChainInv, RowFits, Fits
  <1>2. /\ events \in Seq(StoredRow) /\ Len(events) \in Nat
        /\ events' \in Seq(StoredRow) /\ Len(events') = Len(events) + 1
        /\ events'[Len(events) + 1] = row
        /\ \A i \in 1..Len(events) : events'[i] = events[i]
    BY <1>1, AppendProperties DEF ChainInv, AppendTyped
  <1>3. /\ writer'[w].at = "committed" /\ writer'[w].call = writer[w].call
        /\ \A v \in Writers \ {w} : writer'[v] = writer[v]
    BY DEF ChainInv, AppendTyped
  <1>4. \A v \in Writers \ {w} : writer[v].at \notin {"locked", "inserted"}
    BY DEF ChainInv, LockHeld
  <1>5. AppendTyped'
    <2> DEFINE WriterRow == [at : {"idle", "begin", "locked", "inserted", "committed"},
                             call : 0..MaxCalls, tx : Seq(StoredRow)]
    <2>1. <<>> \in Seq(StoredRow)
      OBVIOUS
    <2>2. writer \in [Writers -> WriterRow]
      BY DEF ChainInv, AppendTyped
    <2>3. [[writer[w] EXCEPT !.at = "committed"] EXCEPT !.tx = <<>>] \in WriterRow
      BY <2>1, <2>2
    <2>4. writer' = [writer EXCEPT ![w] = [[writer[w] EXCEPT !.at = "committed"] EXCEPT !.tx = <<>>]]
      BY <2>2
    <2>5. writer' \in [Writers -> WriterRow]
      BY <2>2, <2>3, <2>4
    <2>6. calls' = calls
      OBVIOUS
    <2> QED
      BY <1>2, <2>5, <2>6 DEF ChainInv, AppendTyped
  <1>6. CallsNumbered' /\ LockHeld' /\ RowFits'
    BY <1>3, <1>4 DEF ChainInv, CallsNumbered, LockHeld, RowFits
  <1>7. ChainLinked'
    <2>1. /\ row.seq = Len(events) + 1 /\ row.hash = computeHash(row.prevHash, row.payload, row.seq)
          /\ row.prevHash = IF events = <<>> THEN <<>> ELSE events[Len(events)].hash
          /\ row.payload \in Redacted
      BY <1>1, HeadOfChain DEF Fits
    <2>2. ~auditPayload(row.payload)
      BY <2>1 DEF Redacted, redact, auditPayload, Payload
    <2>3. SUFFICES ASSUME NEW i \in 1..Len(events')
                   PROVE  Linked(i)'
      BY DEF ChainLinked
    <2>4. CASE i \in 1..Len(events)
      <3>1. Linked(i)
        BY <2>4 DEF ChainInv, ChainLinked
      <3>2. events'[i] = events[i] /\ (i > 1 => i - 1 \in 1..Len(events) /\ events'[i - 1] = events[i - 1])
        BY <1>2, <2>4
      <3> QED
        BY <3>1, <3>2 DEF Linked
    <2>5. CASE i = Len(events) + 1
      <3>1. events'[i] = row
        BY <1>2, <2>5
      <3>2. i = 1 <=> events = <<>>
        BY <1>2, <2>5
      <3>3. i > 1 => events'[i - 1] = events[Len(events)]
        BY <1>2, <2>5
      <3> QED
        BY <1>2, <2>1, <2>2, <2>5, <3>1, <3>2, <3>3 DEF Linked, GENESIS_HASH
    <2> QED
      BY <1>2, <2>4, <2>5
  <1>8. row.payload \in Redacted /\ events' = Append(events, row)
    BY <1>1 DEF Fits
  <1> QED
    BY <1>1, <1>5, <1>6, <1>7, <1>8 DEF ChainInv

\* Every step keeps the invariant, and only a commit changes the rows.
LEMMA StepChain ==
  ASSUME ChainInv, [Next]_vars
  PROVE  /\ ChainInv'
         /\ \/ UNCHANGED events
            \/ \E row \in StoredRow : row.payload \in Redacted /\ events' = Append(events, row)
  <1>1. CASE UNCHANGED AppendVars
    BY <1>1, SameChain DEF AppendVars
  <1>2. ASSUME NEW w \in Writers, StartAppend(w) \/ AcquireLock(w) \/ Answer(w) \/ Abort(w) \/ LoseAnswer(w)
        PROVE  ChainInv' /\ UNCHANGED events
    <2> DEFINE Step(r) ==
          /\ r \in [at : {"idle", "begin", "locked", "committed"}, call : 0..MaxCalls, tx : Seq(StoredRow)]
          /\ writer' = [writer EXCEPT ![w] = r]
          /\ r.at # "idle" => r.call \in Call
          /\ r.at = "locked" => lock' = w /\ lock = NoWriter
          /\ r.at # "locked" => lock' = lock \/ (lock = w /\ lock' = NoWriter)
    <2>0. /\ writer[w] \in [at : {"idle", "begin", "locked", "inserted", "committed"},
                            call : 0..MaxCalls, tx : Seq(StoredRow)]
          /\ IdleWriter \in [at : {"idle"}, call : 0..MaxCalls, tx : Seq(StoredRow)]
          /\ MaxCalls \in Nat /\ calls \in 0..MaxCalls
          /\ writer[w].at # "idle" => writer[w].call \in Call
          /\ writer = [v \in Writers |-> writer[v]] /\ <<>> \in Seq(StoredRow)
      BY LedgerChainAssumption DEF ChainInv, AppendTyped, CallsNumbered, IdleWriter
    <2>1. CASE StartAppend(w)
      <3>1. Step([writer[w] EXCEPT !.at = "begin", !.call = calls + 1]) /\ calls' \in 0..MaxCalls
        <4>1. calls + 1 \in 0..MaxCalls /\ calls + 1 \in Call /\ calls' = calls + 1 /\ lock' = lock
          BY <2>0, <2>1 DEF StartAppend, Call
        <4>2. writer' = [writer EXCEPT ![w] = [writer[w] EXCEPT !.at = "begin", !.call = calls + 1]]
          BY <2>0, <2>1 DEF StartAppend
        <4> QED
          BY <2>0, <4>1, <4>2
      <3> QED
        BY <2>1, <3>1, WriterMoves DEF StartAppend
    <2>2. CASE AcquireLock(w)
      <3>1. Step([writer[w] EXCEPT !.at = "locked"])
        BY <2>0, <2>2 DEF AcquireLock, Goto
      <3> QED
        BY <2>0, <2>2, <3>1, WriterMoves DEF AcquireLock
    <2>3. CASE Answer(w)
      <3>1. Step(IdleWriter)
        BY <2>0, <2>3 DEF Answer, Quit
      <3> QED
        BY <2>0, <2>3, <3>1, WriterMoves DEF Answer
    <2>4. CASE Abort(w)
      <3>1. lock = w /\ lock' = NoWriter /\ UNCHANGED <<events, calls>>
        BY <2>4 DEF Abort, ChainInv, LockHeld
      <3>2. Step(IdleWriter) \/ Step([writer[w] EXCEPT !.at = "begin", !.tx = <<>>])
        BY <2>0, <2>4, <3>1 DEF Abort, RetryOrQuit, Quit
      <3> QED
        BY <2>0, <3>1, <3>2, WriterMoves
    <2>5. CASE LoseAnswer(w)
      <3>1. Step(IdleWriter) \/ Step([writer[w] EXCEPT !.at = "begin", !.tx = <<>>])
        BY <2>0, <2>5 DEF LoseAnswer, RetryOrQuit, Quit
      <3> QED
        BY <2>0, <2>5, <3>1, WriterMoves DEF LoseAnswer
    <2> QED
      BY <1>2, <2>1, <2>2, <2>3, <2>4, <2>5
  <1>3. ASSUME NEW w \in Writers, InsertRow(w) PROVE ChainInv' /\ UNCHANGED events
    BY <1>3, InsertRowChain DEF InsertRow
  <1>4. ASSUME NEW v \in Viewers, Follow(v) PROVE UNCHANGED AppendVars
    BY <1>4 DEF Follow, FrameStep, OpenPage, Connect, Frame, LookupFails, Disconnect, AppendVars
  <1>5. CASE StartPaging \/ ReadPage
    BY <1>1, <1>5 DEF StartPaging, ReadPage, AppendVars
  <1>6. UNCHANGED vars => UNCHANGED AppendVars
    BY DEF vars, AppendVars
  <1> QED
    BY <1>1, <1>2, <1>3, <1>4, <1>5, <1>6, CommitChain DEF Next, Append1, AppendStep

----------------------------------------------------------------------------
\* The chain is linked: whoever appends, retries or dies, the rows are numbered without
\* gap, each hash covers its predecessor's, and no third party's address is in one.
THEOREM ChainIsLinked == Spec => []ChainLinked
  <1>1. ChainInv => ChainLinked
    BY DEF ChainInv
  <1> QED
    BY InitChain, StepChain, <1>1, PTL DEF Spec

\* The ledger implements an append-only log of redacted payloads.
THEOREM LedgerImplementsLog == Spec => LedgerIsALog
  <1> DEFINE log == [i \in 1..Len(events) |-> events[i].payload]
  <1>1. Init => Log!Init
    BY DEF Init, Log!Init
  <1>2. ASSUME ChainInv, [Next]_vars PROVE Log!Next \/ UNCHANGED log
    <2>1. CASE UNCHANGED events
      BY <2>1
    <2>2. ASSUME NEW row \in StoredRow, row.payload \in Redacted, events' = Append(events, row)
          PROVE  Log!Next
      <3>1. /\ events \in Seq(StoredRow) /\ Len(events) \in Nat /\ Len(events') = Len(events) + 1
            /\ events'[Len(events) + 1] = row /\ \A i \in 1..Len(events) : events'[i] = events[i]
        BY <1>2, <2>2, AppendProperties DEF ChainInv, AppendTyped
      <3>2. log \in Seq(Payload) /\ Len(log) = Len(events)
        <4>1. ASSUME NEW i \in 1..Len(events) PROVE events[i].payload \in Payload
          <5>1. events[i] \in StoredRow
            BY <3>1, ElementOfSeq
          <5> QED
            BY <5>1 DEF StoredRow
        <4>2. log \in [1..Len(events) -> Payload]
          BY <4>1
        <4> QED
          BY <3>1, <4>2
      <3>3. log' = Append(log, row.payload)
        BY <3>1, <3>2, AppendProperties
      <3> QED
        BY <2>2, <3>3 DEF Log!Next, Log!Append1, Redacted
    <2> QED
      BY <1>2, <2>1, <2>2, StepChain
  <1> QED
    BY InitChain, StepChain, <1>1, <1>2, PTL DEF Spec, LedgerIsALog, Log!Spec

----------------------------------------------------------------------------
\* The number of positions of I up to i, and the position that many are up to.
Rank(I, i) == Cardinality({j \in I : j <= i})
Pos(I, k) == CHOOSE i \in I : Rank(I, i) = k

\* Every row that was selected has its place in the answer.
LEMMA RankReached ==
  ASSUME NEW n \in Nat, NEW I \in SUBSET (1..n), NEW k \in 1..Cardinality(I)
  PROVE  Pos(I, k) \in I /\ Rank(I, Pos(I, k)) = k
  <1>0. IsFiniteSet(1..n)
    BY FS_Interval
  <1>1. IsFiniteSet(I)
    BY <1>0, FS_Subset
  <1>2. Cardinality(I) \in Nat
    BY <1>1, FS_CardinalityType
  <1>3. ASSUME NEW i \in I PROVE Rank(I, i) \in 1..Cardinality(I)
    <2> DEFINE X == {j \in I : j <= i}
    <2>1. X \in SUBSET I /\ i \in X /\ i \in Nat
      OBVIOUS
    <2> HIDE DEF X
    <2>2. IsFiniteSet(X) /\ Cardinality(X) <= Cardinality(I) /\ Cardinality(X) \in Nat
      BY <1>1, <2>1, FS_Subset, FS_CardinalityType
    <2>3. Cardinality(X) # 0
      BY <2>1, <2>2, FS_EmptySet
    <2> QED
      BY <1>2, <2>2, <2>3 DEF Rank, X
  <1>4. ASSUME NEW i \in I, NEW h \in I, i < h PROVE Rank(I, i) < Rank(I, h)
    <2> DEFINE X == {j \in I : j <= i}
               Y == {j \in I : j <= h}
    <2>1. X \in SUBSET I /\ Y \in SUBSET I /\ h \notin X /\ X \cup {h} \in SUBSET Y
      <3>1. \A j \in I : j \in Int
        OBVIOUS
      <3>2. h \notin X
        BY <1>4, <3>1
      <3>3. ASSUME NEW j \in I, j <= i PROVE j <= h
        <4>1. j \in Int /\ i \in Int /\ h \in Int
          BY <3>1
        <4> QED
          BY <1>4, <3>3, <4>1
      <3>4. h \in Y
        BY <3>1
      <3> QED
        BY <3>2, <3>3, <3>4
    <2> HIDE DEF X, Y
    <2>2. IsFiniteSet(X) /\ IsFiniteSet(Y) /\ Cardinality(X) \in Nat /\ Cardinality(Y) \in Nat
      BY <1>1, <2>1, FS_Subset, FS_CardinalityType
    <2>3. Cardinality(X \cup {h}) = Cardinality(X) + 1
      BY <2>1, <2>2, FS_AddElement
    <2>4. Cardinality(X \cup {h}) <= Cardinality(Y)
      BY <2>1, <2>2, FS_Subset
    <2> QED
      BY <2>2, <2>3, <2>4 DEF Rank, X, Y
  <1> DEFINE f == [i \in I |-> Rank(I, i)]
             T == 1..Cardinality(I)
  <1>5. f \in Injection(I, T)
    <2>1. f \in [I -> T]
      BY <1>3
    <2>2. ASSUME NEW a \in I, NEW b \in I, f[a] = f[b] PROVE a = b
      <3>1. a \in Nat /\ b \in Nat
        OBVIOUS
      <3>2. Rank(I, a) = Rank(I, b) /\ Rank(I, a) \in Int
        BY <1>3, <2>2
      <3> QED
        BY <1>4, <3>1, <3>2
    <2> QED
      BY <2>1, <2>2 DEF Injection, IsInjective
  <1>6. IsFiniteSet(T) /\ Cardinality(T) = Cardinality(I)
    <2>1. Cardinality(T) = IF 1 > Cardinality(I) THEN 0 ELSE Cardinality(I) - 1 + 1
      BY <1>2, FS_Interval
    <2> QED
      BY <1>2, <2>1, FS_Interval
  <1> HIDE DEF f, T
  <1>7. f \in Surjection(I, T)
    BY <1>5, <1>6, FS_Injection
  <1>8. \E i \in I : Rank(I, i) = k
    BY <1>7 DEF Surjection, f, T
  <1> QED
    BY <1>8 DEF Pos

\* What RowsAt answers.
LEMMA RowsAtProperties ==
  ASSUME events \in Seq(StoredRow), NEW I \in SUBSET (1..Len(events))
  PROVE  /\ RowsAt(I) \in Seq(StoredRow) /\ Len(RowsAt(I)) = Cardinality(I) /\ Cardinality(I) \in Nat
         /\ \A k \in 1..Cardinality(I) : Pos(I, k) \in I /\ RowsAt(I)[k] = events[Pos(I, k)]
         /\ \A k, m \in 1..Cardinality(I) : Pos(I, k) = Pos(I, m) => k = m
  <1>0. Len(events) \in Nat
    OBVIOUS
  <1>1. Len(events) \in Nat /\ IsFiniteSet(I)
    <2>1. IsFiniteSet(1..Len(events))
      BY <1>0, FS_Interval
    <2> QED
      BY <1>0, <2>1, FS_Subset
  <1>2. Cardinality(I) \in Nat
    BY <1>1, FS_CardinalityType
  <1>3. \A k \in 1..Cardinality(I) : Pos(I, k) \in I /\ Rank(I, Pos(I, k)) = k
    BY <1>1, RankReached
  <1>4. RowsAt(I) = [k \in 1..Cardinality(I) |-> events[Pos(I, k)]]
    BY DEF RowsAt, Pos, Rank
  <1>5. RowsAt(I) \in [1..Cardinality(I) -> StoredRow]
    BY <1>3, <1>4, ElementOfSeq
  <1> QED
    BY <1>2, <1>3, <1>4, <1>5

\* How many rows a range of the chain covers.
Covered(from, to) ==
  LET last == IF to < Len(events) THEN to ELSE Len(events)
  IN  IF last < from THEN 0 ELSE last - from + 1

\* The rows that a range of a linked chain answers lie side by side.
LEMMA RangeIsASlice ==
  ASSUME ChainInv, NEW from \in Nat \ {0}, NEW to \in Int
  PROVE  /\ range(from, to) \in Seq(StoredRow) /\ Len(range(from, to)) = Covered(from, to) /\ Covered(from, to) \in Nat
         /\ \A k \in 1..Covered(from, to) : range(from, to)[k] = events[from + k - 1]
  <1> DEFINE last == IF to < Len(events) THEN to ELSE Len(events)
             size == IF last < from THEN 0 ELSE last - from + 1
             I == from..last
  <1>1. events \in Seq(StoredRow) /\ Len(events) \in Nat /\ last \in Int /\ size \in Nat
    BY DEF ChainInv, AppendTyped
  <1>2. {i \in 1..Len(events) : from <= events[i].seq /\ events[i].seq <= to} = I
    BY <1>1 DEF ChainInv, ChainLinked, Linked
  <1>3. I \in SUBSET (1..Len(events)) /\ range(from, to) = RowsAt(I)
    BY <1>1, <1>2 DEF range
  <1>4. Cardinality(I) = size
    <2>1. \A n \in Int : Cardinality(from..n) = IF from > n THEN 0 ELSE n - from + 1
      BY FS_Interval
    <2> QED
      BY <1>1, <2>1
  <1>5. ASSUME NEW k \in 1..size PROVE Pos(I, k) = from + k - 1
    <2> DEFINE p == Pos(I, k)
    <2>1. p \in I /\ Rank(I, p) = k
      <3> HIDE DEF I, size
      <3> QED
        BY <1>1, <1>3, <1>4, <1>5, RankReached
    <2>2. {j \in I : j <= p} = from..p
      BY <1>1, <2>1
    <2>3. Cardinality(from..p) = p - from + 1
      BY <1>1, <2>1, FS_Interval
    <2>4. Rank(I, p) = p - from + 1
      BY <2>2, <2>3 DEF Rank
    <2>5. p \in Int
      BY <1>1, <2>1
    <2> HIDE DEF p
    <2> QED
      BY <2>1, <2>4, <2>5 DEF p
  <1> HIDE DEF I
  <1>6. /\ RowsAt(I) \in Seq(StoredRow) /\ Len(RowsAt(I)) = size
        /\ \A k \in 1..size : RowsAt(I)[k] = events[Pos(I, k)]
    BY <1>1, <1>3, <1>4, RowsAtProperties
  <1> QED
    BY <1>1, <1>3, <1>5, <1>6 DEF Covered

----------------------------------------------------------------------------
\* Where verify's k-th chunk of n events begins.
LEMMA ChunkBegins ==
  ASSUME NEW c \in Nat \ {0}, NEW n \in Nat, NEW k \in 1..(n \div c + 1)
  PROVE  /\ (k - 1) * c \in 0..n /\ k * c \in Nat
         /\ k = 1 => (k - 1) * c = 0
         /\ k > 1 => (k - 1) * c > 0
  <1> DEFINE q == n \div c
  <1>1. q \in Nat /\ q * c <= n
    OBVIOUS
  <1>2. k \in Nat /\ 1 <= k /\ k - 1 <= q /\ k - 1 \in Nat
    BY <1>1
  <1> HIDE DEF q
  <1>3. \A a, b \in Nat : a <= b => a * c <= b * c /\ a * c \in Nat /\ b * c \in Nat
    OBVIOUS
  <1>4. (k - 1) * c <= q * c /\ (k - 1) * c \in Nat /\ k * c \in Nat /\ q * c \in Nat
    BY <1>1, <1>2, <1>3
  <1>5. k > 1 => (k - 1) * c > 0
    <2>1. \A a \in Nat \ {0} : a * c > 0
      OBVIOUS
    <2> QED
      BY <1>2, <2>1
  <1>6. k = 1 => (k - 1) * c = 0
    OBVIOUS
  <1> QED
    BY <1>1, <1>4, <1>5, <1>6

\* A range that the chain covers has every row of it.
LEMMA RangeWithin ==
  ASSUME ChainInv, NEW from \in 1..Len(events), NEW to \in from..Len(events)
  PROVE  /\ range(from, to) \in Seq(StoredRow) /\ Len(range(from, to)) = to - from + 1
         /\ \A i \in 1..(to - from + 1) : range(from, to)[i] = events[from + i - 1]
  <1>1. Len(events) \in Nat
    BY DEF ChainInv, AppendTyped
  <1>2. from \in Nat \ {0} /\ to \in Int
    BY <1>1
  <1>3. Covered(from, to) = to - from + 1
    BY <1>1, <1>2 DEF Covered
  <1> QED
    BY <1>2, <1>3, RangeIsASlice

\* The hash before a row of a linked chain is the one it was hashed over.
LEMMA AnchorFits ==
  ASSUME ChainInv, NEW from \in 1..Len(events)
  PROVE  AnchorOf(from) = events[from].prevHash
  <1>1. events \in Seq(StoredRow) /\ Len(events) \in Nat
    BY DEF ChainInv, AppendTyped
  <1>2. Linked(from)
    BY DEF ChainInv, ChainLinked
  <1>3. CASE from = 1
    BY <1>2, <1>3 DEF AnchorOf, Linked
  <1>4. CASE from > 1
    <2> DEFINE before == range(from - 1, from - 1)
    <2>1. before \in Seq(StoredRow) /\ Len(before) = 1 /\ before[1] = events[from - 1]
      <3> DEFINE m == from - 1
      <3>1. m \in 1..Len(events) /\ m \in m..Len(events) /\ m - m + 1 = 1 /\ m + 1 - 1 = m
        BY <1>1, <1>4
      <3> HIDE DEF m
      <3>2. /\ range(m, m) \in Seq(StoredRow) /\ Len(range(m, m)) = m - m + 1
            /\ \A i \in 1..(m - m + 1) : range(m, m)[i] = events[m + i - 1]
        BY <3>1, RangeWithin
      <3>3. range(m, m)[1] = events[m]
        BY <3>1, <3>2
      <3> QED
        BY <3>1, <3>2, <3>3 DEF m
    <2>2. before # <<>>
      BY <2>1
    <2> HIDE DEF before
    <2>3. AnchorOf(from) = events[from - 1].hash
      BY <1>4, <2>1, <2>2 DEF AnchorOf, before
    <2> QED
      BY <1>1, <1>2, <1>4, <2>3 DEF Linked
  <1> QED
    BY <1>1, <1>3, <1>4

\* Rows of a linked chain that lie side by side verify, anchored at what comes before them.
LEMMA SliceVerifies ==
  ASSUME ChainInv, NEW slice \in Seq(StoredRow), NEW first \in Nat \ {0},
         first + Len(slice) <= Len(events) + 1,
         \A i \in 1..Len(slice) : slice[i] = events[first + i - 1],
         NEW anchor, slice # <<>> => anchor = events[first].prevHash
  PROVE  verifyChain(slice, anchor)
  <1>1. Len(events) \in Nat /\ Len(slice) \in Nat
    BY DEF ChainInv, AppendTyped
  <1> SUFFICES ASSUME NEW i \in 1..Len(slice)
               PROVE  /\ i > 1 => slice[i].seq = slice[i - 1].seq + 1
                      /\ slice[i].prevHash = IF i = 1 THEN anchor ELSE slice[i - 1].hash
                      /\ slice[i].hash = computeHash(slice[i].prevHash, slice[i].payload, slice[i].seq)
    BY DEF verifyChain
  <1> DEFINE j == first + i - 1
  <1>2. j \in 1..Len(events) /\ slice[i] = events[j] /\ Linked(j)
    BY <1>1 DEF ChainInv, ChainLinked
  <1>3. i > 1 => /\ slice[i - 1] = events[j - 1] /\ j - 1 \in 1..Len(events) /\ Linked(j - 1)
                 /\ j # 1
    <2> SUFFICES ASSUME i > 1 PROVE slice[i - 1] = events[j - 1] /\ j - 1 \in 1..Len(events) /\ j # 1
      BY DEF ChainInv, ChainLinked
    <2>1. i - 1 \in 1..Len(slice) /\ first + (i - 1) - 1 = j - 1
      BY <1>1
    <2> QED
      BY <1>1, <1>2, <2>1
  <1>4. i = 1 => j = first
    OBVIOUS
  <1>5. slice # <<>>
    BY <1>1
  <1>6. j \in Int
    BY <1>2
  <1> HIDE DEF j
  <1> QED
    BY <1>1, <1>2, <1>3, <1>4, <1>5, <1>6 DEF Linked

\* Verify goes through a range chunk by chunk, each anchored at the last hash of the one before.
LEMMA EverySliceVerifies ==
  ASSUME ChainInv, NEW from \in 1..Len(events), NEW to \in 1..Len(events), from <= to
  PROVE  verify(from, to)
  <1> DEFINE slice == range(from, to)
             n == to - from + 1
             last(k) == IF k * Chunk < Len(slice) THEN k * Chunk ELSE Len(slice)
             chunk(k) == SubSeq(slice, (k - 1) * Chunk + 1, last(k))
             anchor(k) == IF k = 1 THEN AnchorOf(from) ELSE slice[(k - 1) * Chunk].hash
  <1>1. Len(events) \in Nat /\ Chunk \in Nat \ {0} /\ n \in Nat /\ n >= 1 /\ from + n - 1 = to
    BY LedgerChainAssumption DEF ChainInv, AppendTyped
  <1>2. slice \in Seq(StoredRow) /\ Len(slice) = n /\ \A i \in 1..n : slice[i] = events[from + i - 1]
    BY <1>1, RangeWithin
  <1> HIDE DEF slice, n
  <1>3. ASSUME NEW k \in 1..(n \div Chunk + 1) PROVE verifyChain(chunk(k), anchor(k))
    <2> DEFINE b == (k - 1) * Chunk
               e == last(k)
    <2>1. /\ b \in 0..n /\ k * Chunk \in Nat /\ (k = 1 => b = 0) /\ (k > 1 => b > 0)
      BY <1>1, ChunkBegins
    <2>2. e \in Nat /\ e <= n
      BY <1>1, <1>2, <2>1
    <2> HIDE DEF b, e
    <2>3. \A i \in b + 1..e : slice[i] \in StoredRow
      BY <1>1, <1>2, <2>1, <2>2
    <2> DEFINE p == SubSeq(slice, b + 1, e)
    <2>4. /\ p \in Seq(StoredRow) /\ Len(p) = (IF b + 1 <= e THEN e - (b + 1) + 1 ELSE 0)
          /\ \A i \in 1..(e - (b + 1) + 1) : p[i] = slice[b + 1 + i - 1]
      BY <1>1, <2>1, <2>2, <2>3, SubSeqProperties
    <2> HIDE DEF p
    <2>5. \A i \in 1..Len(p) : p[i] = events[(from + b) + i - 1]
      <3> SUFFICES ASSUME NEW i \in 1..Len(p) PROVE p[i] = events[(from + b) + i - 1]
        OBVIOUS
      <3>1. b \in Int /\ e \in Int /\ n \in Int /\ from \in Int
        BY <1>1, <2>1, <2>2
      <3>2. i \in 1..(e - (b + 1) + 1) /\ b + i \in 1..n /\ b + 1 + i - 1 = b + i
            /\ from + (b + i) - 1 = (from + b) + i - 1
        BY <2>1, <2>2, <2>4, <3>1
      <3> QED
        BY <1>2, <2>4, <3>2
    <2>6. from + b \in Nat \ {0} /\ (from + b) + Len(p) <= Len(events) + 1
      BY <1>1, <2>1, <2>2, <2>4
    <2>7. p # <<>> => anchor(k) = events[from + b].prevHash
      <3> SUFFICES ASSUME p # <<>> PROVE anchor(k) = events[from + b].prevHash
        OBVIOUS
      <3>1. b + 1 <= e /\ b + 1 <= n
        BY <1>1, <2>1, <2>2, <2>4
      <3>2. CASE k = 1
        BY <1>1, <2>1, <3>2, AnchorFits
      <3>3. CASE k > 1
        <4>1. b \in 1..n /\ b \in Int
          BY <1>1, <2>1, <3>3
        <4>5. slice[b] = events[from + b - 1]
          BY <1>2, <4>1
        <4>2. from + b \in 1..Len(events) /\ from + b # 1 /\ from \in Int
          BY <1>1, <3>1, <4>1
        <4>3. Linked(from + b)
          BY <4>2 DEF ChainInv, ChainLinked
        <4>4. anchor(k) = slice[b].hash
          BY <3>3 DEF b
        <4> QED
          BY <4>1, <4>2, <4>3, <4>4, <4>5 DEF Linked
      <3> QED
        BY <1>1, <3>2, <3>3
    <2> HIDE DEF anchor
    <2>8. verifyChain(p, anchor(k))
      BY <2>4, <2>5, <2>6, <2>7, SliceVerifies
    <2> QED
      BY <2>8 DEF p, b, e
  <1> QED
    BY <1>2, <1>3 DEF verify, slice

\* Any contiguous slice of the stored chain verifies, whatever was appended or rolled back
\* at the same time: the hashes are right, and the audit finds no third party's address.
THEOREM EveryVerifyPasses == Spec => []ChainVerifies
  <1>1. ChainInv => ChainVerifies
    BY EverySliceVerifies DEF ChainVerifies, ChainInv
  <1> QED
    BY InitChain, StepChain, <1>1, PTL DEF Spec

----------------------------------------------------------------------------
\* A client of /api/ledger that has more to read has read all that comes before it.
PagerInv ==
  /\ pager \in [next : Nat, got : Seq(Nat)]
  /\ pager.next > 0 => Len(pager.got) = pager.next - 1
  /\ PagesAreThePrefix

\* A page names the events it shows, from the first one on.
LEMMA PageShows ==
  ASSUME ChainInv, NEW n \in Nat \ {0}
  PROVE  /\ PageFrom(n) \in Seq(Nat) /\ Len(PageFrom(n)) \in Nat
         /\ \A i \in 1..Len(PageFrom(n)) : PageFrom(n)[i] = n + i - 1
  <1>1. Len(events) \in Nat /\ Limit \in Nat \ {0}
    BY LedgerChainAssumption DEF ChainInv, AppendTyped
  <1> DEFINE to == n + Limit - 1
             rows == range(n, to)
             size == Covered(n, to)
  <1>2. to \in Int
    BY <1>1
  <1> HIDE DEF to
  <1>5. /\ rows \in Seq(StoredRow) /\ Len(rows) = size /\ size \in Nat
        /\ \A i \in 1..size : rows[i] = events[n + i - 1]
    BY <1>2, RangeIsASlice
  <1>3. \A i \in 1..size : n + i - 1 \in 1..Len(events)
    BY <1>1, <1>2 DEF Covered
  <1> HIDE DEF size
  <1> HIDE DEF rows
  <1>6. ASSUME NEW i \in 1..size PROVE rows[i].seq = n + i - 1
    <2>1. n + i - 1 \in 1..Len(events)
      BY <1>3
    <2>2. Linked(n + i - 1)
      BY <2>1 DEF ChainInv, ChainLinked
    <2> QED
      BY <1>5, <2>2 DEF Linked
  <1>7. Seqs(rows) = [i \in 1..size |-> rows[i].seq]
    BY <1>5 DEF Seqs
  <1>8. \A i \in 1..size : n + i - 1 \in Nat
    BY <1>5
  <1>9. Seqs(rows) \in [1..size -> Nat]
    BY <1>6, <1>7, <1>8
  <1>10. Seqs(rows) \in Seq(Nat) /\ Len(Seqs(rows)) = size /\ \A i \in 1..size : Seqs(rows)[i] = n + i - 1
    BY <1>5, <1>6, <1>7, <1>9
  <1> QED
    BY <1>5, <1>10 DEF PageFrom, rows, to

\* A page is read: what is shown next starts where what was read ends.
LEMMA ReadPageKeeps ==
  ASSUME ChainInv, PagerInv, ReadPage
  PROVE  PagerInv'
  <1> DEFINE n == pager.next
             p == PageFrom(n)
             g == pager.got
  <1>1. n \in Nat \ {0} /\ g \in Seq(Nat) /\ Len(g) = n - 1 /\ \A i \in 1..Len(g) : g[i] = i
    BY DEF PagerInv, PagesAreThePrefix, ReadPage
  <1>2. p \in Seq(Nat) /\ Len(p) \in Nat /\ \A i \in 1..Len(p) : p[i] = n + i - 1
    BY <1>1, PageShows
  <1>3. /\ g \o p \in Seq(Nat) /\ Len(g \o p) = Len(g) + Len(p)
        /\ \A i \in 1..Len(g) + Len(p) : (g \o p)[i] = IF i <= Len(g) THEN g[i] ELSE p[i - Len(g)]
    <2> HIDE DEF n, p, g
    <2>1. g \in Seq(Nat) /\ p \in Seq(Nat)
      BY <1>1, <1>2
    <2> QED
      BY <2>1, ConcatProperties
  <1>4. pager' = [got |-> g \o p, next |-> IF Len(p) = Limit THEN n + Limit ELSE 0]
    BY DEF ReadPage
  <1>5. Limit \in Nat \ {0}
    BY LedgerChainAssumption
  <1> HIDE DEF n, p, g
  <1>6. ASSUME NEW i \in 1..Len(g \o p) PROVE (g \o p)[i] = i
    <2>1. CASE i <= Len(g)
      BY <1>1, <1>2, <1>3, <2>1
    <2>2. CASE ~(i <= Len(g))
      <3>1. i - Len(g) \in 1..Len(p) /\ n + (i - Len(g)) - 1 = i
        BY <1>1, <1>2, <1>3, <2>2
      <3>2. (g \o p)[i] = p[i - Len(g)]
        BY <1>1, <1>2, <1>3, <2>2
      <3> QED
        BY <1>2, <3>1, <3>2
    <2> QED
      BY <2>1, <2>2
  <1>7. pager' \in [next : Nat, got : Seq(Nat)] /\ pager'.got = g \o p
        /\ pager'.next = IF Len(p) = Limit THEN n + Limit ELSE 0
    BY <1>1, <1>3, <1>4, <1>5
  <1>8. pager'.next > 0 => Len(pager'.got) = pager'.next - 1
    <2>1. CASE Len(p) = Limit
      <3>1. pager'.next = n + Limit
        BY <1>7, <2>1
      <3>2. Len(g \o p) = (n - 1) + Limit /\ (n - 1) + Limit = (n + Limit) - 1
        BY <1>1, <1>3, <1>5, <2>1
      <3> QED
        BY <1>7, <3>1, <3>2
    <2>2. CASE Len(p) # Limit
      BY <1>7, <2>2
    <2> QED
      BY <2>1, <2>2
  <1> QED
    BY <1>6, <1>7, <1>8 DEF PagerInv, PagesAreThePrefix

\* No step makes a client skip an event or read one twice.
LEMMA PagerStep == ChainInv /\ PagerInv /\ [Next]_vars => PagerInv'
  <1> SUFFICES ASSUME ChainInv, PagerInv, [Next]_vars PROVE PagerInv'
    OBVIOUS
  <1>1. CASE UNCHANGED pager
    BY <1>1 DEF PagerInv, PagesAreThePrefix
  <1>2. CASE StartPaging
    <2>1. pager' = [next |-> 1, got |-> <<>>]
      BY <1>2 DEF StartPaging
    <2>2. <<>> \in Seq(Nat) /\ Len(<<>>) = 0
      BY EmptySeq
    <2> QED
      BY <2>1, <2>2 DEF PagerInv, PagesAreThePrefix
  <1>3. CASE ReadPage
    BY <1>3, ReadPageKeeps
  <1>4. ASSUME NEW w \in Writers, Append1(w) PROVE UNCHANGED pager
    BY <1>4 DEF Append1, AppendStep, StartAppend, AcquireLock, InsertRow, Commit, Answer, Abort, LoseAnswer
  <1>5. ASSUME NEW v \in Viewers, Follow(v) PROVE UNCHANGED pager
    BY <1>5 DEF Follow, OpenPage, Connect, FrameStep, Frame, Disconnect, LookupFails
  <1>6. UNCHANGED vars => UNCHANGED pager
    BY DEF vars
  <1> QED
    BY <1>1, <1>2, <1>3, <1>4, <1>5, <1>6 DEF Next

\* A client that has read nothing has read all that comes before event 1.
LEMMA PagerStart == Init => PagerInv
  <1> SUFFICES ASSUME Init PROVE PagerInv
    OBVIOUS
  <1>1. pager = [next |-> 1, got |-> <<>>]
    BY DEF Init
  <1>2. <<>> \in Seq(Nat) /\ Len(<<>>) = 0
    BY EmptySeq
  <1> QED
    BY <1>1, <1>2 DEF PagerInv, PagesAreThePrefix

----------------------------------------------------------------------------
\* An append that was committed, and one that was committed twice.
Stored(c) == \E i \in 1..Len(events) : events[i].payload.call = c
Twice(c) == \E i, j \in 1..Len(events) : i # j /\ events[i].payload.call = c /\ events[j].payload.call = c

\* The number of rows of an append tells no more than that.
LEMMA CountTells ==
  ASSUME Len(events) \in Nat, NEW c
  PROVE  (Count(c) > 0 <=> Stored(c)) /\ (Count(c) > 1 <=> Twice(c))
  <1> DEFINE I == {i \in 1..Len(events) : events[i].payload.call = c}
  <1>1. IsFiniteSet(1..Len(events))
    BY FS_Interval
  <1>2. IsFiniteSet(I) /\ Cardinality(I) \in Nat
    BY <1>1, FS_Subset, FS_CardinalityType
  <1>3. Cardinality(I) = 0 <=> I = {}
    BY <1>2, FS_EmptySet
  <1>4. ASSUME NEW i \in I, NEW j \in I, i # j PROVE Cardinality(I) > 1
    <2> HIDE DEF I
    <2>1. IsFiniteSet(I \ {i}) /\ Cardinality(I \ {i}) = Cardinality(I) - 1
      BY <1>2, FS_RemoveElement
    <2>2. j \in I \ {i}
      BY <1>4
    <2>3. Cardinality(I \ {i}) # 0
      BY <2>1, <2>2, FS_EmptySet
    <2>4. Cardinality(I \ {i}) \in Nat
      BY <2>1, FS_CardinalityType
    <2> QED
      BY <1>2, <2>1, <2>3, <2>4
  <1>5. ASSUME Cardinality(I) > 1 PROVE \E i, j \in I : i # j
    <2> HIDE DEF I
    <2>1. PICK i \in I : TRUE
      BY <1>2, <1>3, <1>5
    <2>2. IsFiniteSet(I \ {i}) /\ Cardinality(I \ {i}) = Cardinality(I) - 1
      BY <1>2, FS_RemoveElement
    <2>3. I \ {i} # {}
      BY <1>2, <1>5, <2>2, FS_EmptySet
    <2> QED
      BY <2>3
  <1>6. Count(c) = Cardinality(I)
    BY DEF Count
  <1>7. Cardinality(I) > 0 <=> Stored(c)
    BY <1>2, <1>3 DEF Stored
  <1>8. Cardinality(I) > 1 <=> Twice(c)
    BY <1>4, <1>5 DEF Twice
  <1> QED
    BY <1>6, <1>7, <1>8

\* An append under way has its number to itself. Until its commit, it is in the chain only
\* if the answer of an earlier try was lost; after it, and once answered, it is in the chain.
Midway(w) == writer[w].at \in {"begin", "locked", "inserted"}
CallsInv ==
  /\ \A i \in 1..Len(events) : events[i].payload.call <= calls
  /\ \A c \in answered : Stored(c)
  /\ \A c \in Call : Twice(c) => c \in doubtful
  /\ \A w \in Writers :
       /\ writer[w].at # "idle" => writer[w].call <= calls
       /\ Midway(w) /\ Stored(writer[w].call) => writer[w].call \in doubtful
       /\ writer[w].at = "committed" => Stored(writer[w].call)
       /\ writer[w].at = "inserted" => writer[w].tx[1].payload.call = writer[w].call
  /\ \A v, w \in Writers :
       v # w /\ writer[v].at # "idle" /\ writer[w].at # "idle" => writer[v].call # writer[w].call

\* Before the first append there is nothing to tell.
LEMMA CallsStart == Init => CallsInv
  <1> SUFFICES ASSUME Init PROVE CallsInv
    OBVIOUS
  <1>1. events = <<>> /\ Len(events) = 0 /\ answered = {} /\ \A w \in Writers : writer[w].at = "idle"
    BY DEF Init, IdleWriter
  <1>2. 1..Len(events) = {}
    BY <1>1
  <1> QED
    BY <1>1, <1>2 DEF CallsInv, Stored, Twice, Midway

\* What the rows of the chain say of an append, when no row is added.
LEMMA SameRows ==
  ASSUME UNCHANGED events
  PROVE  \A c : Stored(c)' = Stored(c) /\ Twice(c)' = Twice(c)
  BY DEF Stored, Twice

\* A step that moves one writer on and leaves the rows alone.
LEMMA CallMoves ==
  ASSUME ChainInv, CallsInv, NEW w \in Writers, UNCHANGED <<events, calls>>,
         doubtful \subseteq doubtful', \A c \in answered' : Stored(c),
         writer[w].at # "idle",
         \A v \in Writers \ {w} : writer'[v] = writer[v],
         writer'[w].at # "idle" => writer'[w].call = writer[w].call,
         Midway(w)' => Midway(w) \/ writer[w].call \in doubtful',
         writer'[w].at # "committed",
         writer'[w].at = "inserted" => writer'[w].tx[1].payload.call = writer[w].call
  PROVE  CallsInv'
  <1>1. \A c : Stored(c)' = Stored(c) /\ Twice(c)' = Twice(c)
    BY SameRows
  <1>2. \A i \in 1..Len(events') : events'[i].payload.call <= calls'
    BY DEF CallsInv
  <1>3. \A c \in answered' : Stored(c)'
    BY <1>1
  <1>4. \A c \in Call : Twice(c)' => c \in doubtful'
    BY <1>1 DEF CallsInv
  <1>5. ASSUME NEW v \in Writers
        PROVE  /\ writer'[v].at # "idle" => writer'[v].call <= calls'
               /\ Midway(v)' /\ Stored(writer[v].call)' => writer'[v].call \in doubtful'
               /\ writer'[v].at = "committed" => Stored(writer[v].call)'
               /\ writer'[v].at = "inserted" => writer'[v].tx[1].payload.call = writer'[v].call
    <2>1. CASE v = w
      BY <1>1, <2>1 DEF CallsInv, Midway
    <2>2. CASE v # w
      BY <1>1, <2>2 DEF CallsInv, Midway
    <2> QED
      BY <2>1, <2>2
  <1>6. \A v, u \in Writers :
          v # u /\ writer'[v].at # "idle" /\ writer'[u].at # "idle" => writer'[v].call # writer'[u].call
    BY DEF CallsInv
  <1>7. \A v \in Writers : Midway(v)' \/ writer'[v].at = "committed" => writer'[v].call = writer[v].call
    BY DEF Midway
  <1> QED
    BY <1>2, <1>3, <1>4, <1>5, <1>6, <1>7 DEF CallsInv, Midway

\* An append that starts has a number no row and no other writer has.
LEMMA CallStarts ==
  ASSUME ChainInv, CallsInv, NEW w \in Writers, StartAppend(w)
  PROVE  CallsInv'
  <1>1. /\ UNCHANGED <<events, answered, doubtful>> /\ calls' = calls + 1 /\ calls \in Nat
        /\ writer[w].at = "idle" /\ writer'[w].at = "begin" /\ writer'[w].call = calls + 1
        /\ \A v \in Writers \ {w} : writer'[v] = writer[v]
    BY LedgerChainAssumption DEF StartAppend, ChainInv, AppendTyped
  <1>2. \A c : Stored(c)' = Stored(c) /\ Twice(c)' = Twice(c)
    BY <1>1, SameRows
  <1>3. \A i \in 1..Len(events) : events[i].payload.call \in Int /\ events[i].payload.call <= calls
    <2> SUFFICES ASSUME NEW i \in 1..Len(events) PROVE events[i].payload.call \in Int
      BY DEF CallsInv
    <2>1. events[i] \in StoredRow
      BY ElementOfSeq DEF ChainInv, AppendTyped
    <2> QED
      BY <2>1 DEF StoredRow, Payload, Call
  <1>4. ~Stored(calls + 1)
    BY <1>1, <1>3 DEF Stored
  <1>5. \A v \in Writers : writer[v].at # "idle" => writer[v].call \in Int /\ writer[v].call <= calls
    BY LedgerChainAssumption DEF ChainInv, AppendTyped, CallsInv
  <1>6. \A i \in 1..Len(events') : events'[i].payload.call <= calls'
    BY <1>1, <1>3
  <1>7. (\A c \in answered' : Stored(c)') /\ \A c \in Call : Twice(c)' => c \in doubtful'
    BY <1>1, <1>2 DEF CallsInv
  <1>8. ASSUME NEW v \in Writers
        PROVE  /\ writer'[v].at # "idle" => writer'[v].call <= calls'
               /\ Midway(v)' /\ Stored(writer'[v].call) => writer'[v].call \in doubtful'
               /\ writer'[v].at = "committed" => Stored(writer'[v].call)
               /\ writer'[v].at = "inserted" => writer'[v].tx[1].payload.call = writer'[v].call
    <2>1. CASE v = w
      BY <1>1, <1>4, <2>1 DEF Midway
    <2>2. CASE v # w
      <3>1. writer'[v] = writer[v]
        BY <1>1, <2>2
      <3> QED
        BY <1>1, <1>5, <3>1 DEF CallsInv, Midway
    <2> QED
      BY <2>1, <2>2
  <1>9. ASSUME NEW v \in Writers, NEW u \in Writers, v # u, writer'[v].at # "idle", writer'[u].at # "idle"
        PROVE  writer'[v].call # writer'[u].call
    <2>1. CASE v # w /\ u # w
      <3>1. writer'[v] = writer[v] /\ writer'[u] = writer[u]
        BY <1>1, <2>1
      <3> QED
        BY <1>9, <3>1 DEF CallsInv
    <2>2. CASE v = w \/ u = w
      BY <1>1, <1>5, <1>9, <2>2
    <2> QED
      BY <2>1, <2>2
  <1>10. \A v \in Writers : Stored(writer'[v].call) = Stored(writer[v].call)'
    BY <1>2, <1>1 DEF Stored
  <1> QED
    BY <1>1, <1>6, <1>7, <1>8, <1>9, <1>10 DEF CallsInv, Midway

\* A commit stores an append, a second time only one whose answer was lost.
LEMMA CallCommits ==
  ASSUME ChainInv, CallsInv, NEW w \in Writers, Commit(w)
  PROVE  CallsInv'
  <1> DEFINE row == writer[w].tx[1]
             c0 == writer[w].call
             n == Len(events)
  <1>1. /\ row \in StoredRow /\ events' = Append(events, row) /\ row.payload.call = c0
        /\ UNCHANGED <<answered, doubtful, calls>> /\ writer[w].at = "inserted"
    BY DEF Commit, ChainInv, RowFits, Fits, CallsInv
  <1>2. /\ n \in Nat /\ Len(events') = n + 1 /\ events'[n + 1] = row
        /\ \A i \in 1..n : events'[i] = events[i]
    BY <1>1, AppendProperties DEF ChainInv, AppendTyped
  <1>3. /\ writer'[w].at = "committed" /\ writer'[w].call = c0
        /\ \A v \in Writers \ {w} : writer'[v] = writer[v]
    BY DEF Commit, ChainInv, AppendTyped
  <1> HIDE DEF row, n
  <1>4. \A c : Stored(c)' <=> Stored(c) \/ c = c0
    <2>1. \A i : i \in 1..Len(events') <=> i \in 1..n \/ i = n + 1
      BY <1>2
    <2> QED
      BY <1>1, <1>2, <2>1 DEF Stored, n
  <1>5. \A c : Twice(c)' => Twice(c) \/ (c = c0 /\ Stored(c))
    <2> SUFFICES ASSUME NEW c, Twice(c)' PROVE Twice(c) \/ (c = c0 /\ Stored(c))
      OBVIOUS
    <2>1. PICK i \in 1..Len(events'), j \in 1..Len(events') :
             i # j /\ events'[i].payload.call = c /\ events'[j].payload.call = c
      BY DEF Twice
    <2>2. CASE i \in 1..n /\ j \in 1..n
      BY <1>2, <2>1, <2>2 DEF Twice, n
    <2>3. CASE i = n + 1
      <3>1. j \in 1..n
        BY <1>2, <2>1, <2>3
      <3> QED
        BY <1>1, <1>2, <2>1, <2>3, <3>1 DEF Stored, n
    <2>4. CASE j = n + 1
      <3>1. i \in 1..n
        BY <1>2, <2>1, <2>4
      <3> QED
        BY <1>1, <1>2, <2>1, <2>4, <3>1 DEF Stored, n
    <2> QED
      BY <1>2, <2>1, <2>2, <2>3, <2>4
  <1>6. \A i \in 1..Len(events') : events'[i].payload.call <= calls'
    <2> SUFFICES ASSUME NEW i \in 1..Len(events') PROVE events'[i].payload.call <= calls
      BY <1>1
    <2>1. CASE i \in 1..n
      BY <1>2, <2>1 DEF CallsInv, n
    <2>2. CASE i = n + 1
      BY <1>1, <1>2, <2>2 DEF CallsInv
    <2> QED
      BY <1>2, <2>1, <2>2
  <1>7. \A c \in answered' : Stored(c)'
    BY <1>1, <1>4 DEF CallsInv
  <1>8. \A c \in Call : Twice(c)' => c \in doubtful'
    BY <1>1, <1>5 DEF CallsInv, Midway
  <1>9. ASSUME NEW v \in Writers
        PROVE  /\ writer'[v].call = writer[v].call
               /\ writer'[v].at # "idle" => writer'[v].call <= calls'
               /\ Midway(v)' /\ Stored(writer[v].call)' => writer[v].call \in doubtful'
               /\ writer'[v].at = "committed" => Stored(writer[v].call)'
               /\ writer'[v].at = "inserted" => writer'[v].tx[1].payload.call = writer'[v].call
    <2>1. CASE v = w
      BY <1>1, <1>3, <1>4, <2>1 DEF Midway, CallsInv
    <2>2. CASE v # w
      <3>1. writer'[v] = writer[v]
        BY <1>3, <2>2
      <3>2. writer[v].at # "idle" => writer[v].call # c0
        BY <1>1, <2>2 DEF CallsInv
      <3> QED
        BY <1>1, <1>4, <3>1, <3>2 DEF CallsInv, Midway
    <2> QED
      BY <2>1, <2>2
  <1>10. \A v, u \in Writers :
          v # u /\ writer'[v].at # "idle" /\ writer'[u].at # "idle" => writer'[v].call # writer'[u].call
    BY <1>1, <1>3 DEF CallsInv
  <1> QED
    BY <1>6, <1>7, <1>8, <1>9, <1>10 DEF CallsInv, Midway

\* No step answers an append that is not stored, or stores one again unless an answer was lost.
LEMMA CallsStep ==
  ASSUME ChainInv, CallsInv, [Next]_vars
  PROVE  CallsInv'
  <1> DEFINE seen == <<events, writer, answered, doubtful, calls>>
  <1>1. CASE UNCHANGED seen
    BY <1>1 DEF CallsInv, Stored, Twice, Midway
  <1>2. ASSUME NEW w \in Writers, AcquireLock(w) \/ InsertRow(w) \/ Answer(w) \/ Abort(w) \/ LoseAnswer(w)
        PROVE  CallsInv'
    <2>1. writer \in [Writers -> [at : {"idle", "begin", "locked", "inserted", "committed"},
                                  call : 0..MaxCalls, tx : Seq(StoredRow)]]
      BY DEF ChainInv, AppendTyped
    <2>2. CASE AcquireLock(w)
      BY <2>1, <2>2, CallMoves DEF AcquireLock, Goto, CallsInv, Midway
    <2>3. CASE InsertRow(w)
      <3>1. PICK company \in Companies, address \in Texts :
              writer' = [writer EXCEPT ![w].at = "inserted", ![w].tx = <<Row(w, company, address)>>]
        BY <2>3 DEF InsertRow
      <3>2. Row(w, company, address).payload.call = writer[w].call
        BY DEF Row, Said, redact
      <3>3. /\ writer'[w].at = "inserted" /\ writer'[w].call = writer[w].call
            /\ writer'[w].tx = <<Row(w, company, address)>>
            /\ \A v \in Writers \ {w} : writer'[v] = writer[v]
        BY <2>1, <3>1
      <3>4. writer'[w].tx[1].payload.call = writer[w].call
        BY <3>2, <3>3
      <3>5. writer[w].at = "locked" /\ UNCHANGED <<events, calls, answered, doubtful>>
        BY <2>3 DEF InsertRow
      <3>6. \A c \in answered : Stored(c)
        BY DEF CallsInv
      <3> QED
        BY <3>3, <3>4, <3>5, <3>6, CallMoves DEF Midway
    <2>4. CASE Answer(w)
      <3>1. \A c \in answered' : Stored(c)
        BY <2>4 DEF Answer, CallsInv
      <3>2. writer'[w] = IdleWriter /\ \A v \in Writers \ {w} : writer'[v] = writer[v]
        BY <2>1, <2>4 DEF Answer, Quit
      <3> QED
        BY <2>4, <3>1, <3>2, CallMoves DEF Answer, IdleWriter, Midway
    <2>5. CASE Abort(w) \/ LoseAnswer(w)
      <3>1. /\ UNCHANGED <<events, calls, answered>> /\ doubtful \subseteq doubtful'
            /\ writer[w].at # "idle" /\ (Midway(w) \/ writer[w].call \in doubtful')
        BY <2>5 DEF Abort, LoseAnswer, Midway
      <3>2. /\ writer'[w].at \in {"idle", "begin"}
            /\ writer'[w].at = "begin" => writer'[w].call = writer[w].call
            /\ \A v \in Writers \ {w} : writer'[v] = writer[v]
        BY <2>1, <2>5 DEF Abort, LoseAnswer, RetryOrQuit, Quit, IdleWriter
      <3>3. \A c \in answered' : Stored(c)
        BY <3>1 DEF CallsInv
      <3> QED
        BY <3>1, <3>2, <3>3, CallMoves
    <2> QED
      BY <1>2, <2>2, <2>3, <2>4, <2>5
  <1>3. ASSUME NEW v \in Viewers, Follow(v) PROVE UNCHANGED seen
    BY <1>3 DEF Follow, OpenPage, Connect, FrameStep, Frame, Disconnect, LookupFails
  <1>4. StartPaging \/ ReadPage \/ UNCHANGED vars => UNCHANGED seen
    BY DEF StartPaging, ReadPage, vars
  <1> QED
    BY <1>1, <1>2, <1>3, <1>4, CallStarts, CallCommits DEF Next, Append1, AppendStep

----------------------------------------------------------------------------
\* A list of rows of the chain's first n, each there once.
Once(rows, n) ==
  /\ rows \in Seq(Nat)
  /\ \A i, j \in 1..Len(rows) : rows[i] = rows[j] => i = j
  /\ \A i \in 1..Len(rows) : rows[i] \in 1..n

\* That is what the property says of a page.
LEMMA OnceMeans ==
  ASSUME NEW rows \in Seq(Nat), NEW n \in Nat
  PROVE  Once(rows, n) <=> IsInjective(rows) /\ ToSet(rows) \subseteq 1..n
  <1>1. DOMAIN rows = 1..Len(rows)
    OBVIOUS
  <1> QED
    BY <1>1 DEF Once, IsInjective, ToSet

\* A part of such a list is one too.
LEMMA OnceInSubSeq ==
  ASSUME NEW n \in Nat, NEW rows, Once(rows, n), NEW a \in Nat \ {0}, NEW b \in Nat, b <= Len(rows)
  PROVE  Once(SubSeq(rows, a, b), n)
  <1>1. rows \in Seq(Nat) /\ Len(rows) \in Nat
    BY DEF Once
  <1>2. \A i \in a..b : rows[i] \in Nat
    BY <1>1
  <1> DEFINE s == SubSeq(rows, a, b)
  <1>3. /\ s \in Seq(Nat) /\ Len(s) = (IF a <= b THEN b - a + 1 ELSE 0)
        /\ \A i \in 1..(b - a + 1) : s[i] = rows[a + i - 1]
    BY <1>2, SubSeqProperties
  <1> HIDE DEF s
  <1>4. ASSUME NEW i \in 1..Len(s) PROVE a + i - 1 \in 1..Len(rows) /\ s[i] = rows[a + i - 1]
    BY <1>1, <1>3
  <1>5. \A i \in 1..Len(s) : s[i] \in 1..n
    BY <1>4 DEF Once
  <1>6. ASSUME NEW i \in 1..Len(s), NEW j \in 1..Len(s), s[i] = s[j] PROVE i = j
    <2>1. rows[a + i - 1] = rows[a + j - 1]
      BY <1>4, <1>6
    <2>2. a + i - 1 = a + j - 1
      BY <1>4, <2>1 DEF Once
    <2> QED
      BY <2>2
  <1>7. Once(s, n)
    BY <1>3, <1>5, <1>6 DEF Once
  <1> QED
    BY <1>7 DEF s

\* The rows a page shows once one is added: it, and what was shown, or as many as it keeps.
LEMMA ShownOnce ==
  ASSUME NEW N \in Nat, NEW rows, Once(rows, N), NEW n \in 1..N, NEW v
  PROVE  /\ Once(Shown(v, rows, n), N)
         /\ ToSet(rows) \cup {n} \subseteq ToSet(Shown(v, rows, n)) \/ Len(Shown(v, rows, n)) = Keep
         /\ Len(rows) = Keep => Len(Shown(v, rows, n)) = Keep
  <1>1. rows \in Seq(Nat) /\ Len(rows) \in Nat /\ DOMAIN rows = 1..Len(rows) /\ Keep \in Nat \ {0} /\ n \in Nat
    BY LedgerChainAssumption DEF Once
  <1>2. CASE n \in ToSet(rows)
    <2>1. Shown(v, rows, n) = rows
      BY <1>2 DEF Shown
    <2> QED
      BY <1>2, <2>1
  <1>3. CASE n \notin ToSet(rows)
    <2> DEFINE r == IF v \in Feeds THEN <<n>> \o rows ELSE Append(rows, n)
    <2>0. \A i \in 1..Len(rows) : rows[i] # n
      BY <1>1, <1>3 DEF ToSet
    <2>1. Once(r, N) /\ Len(r) = Len(rows) + 1 /\ ToSet(rows) \cup {n} \subseteq ToSet(r)
      <3>1. CASE v \in Feeds
        <4> DEFINE s == <<n>> \o rows
        <4>1. <<n>> \in Seq(Nat) /\ Len(<<n>>) = 1 /\ <<n>>[1] = n
          BY <1>1
        <4>2. /\ s \in Seq(Nat) /\ Len(s) = Len(rows) + 1
              /\ \A i \in 1..(Len(rows) + 1) : s[i] = IF i <= 1 THEN n ELSE rows[i - 1]
          <5>1. /\ s \in Seq(Nat) /\ Len(s) = Len(<<n>>) + Len(rows)
                /\ \A i \in 1..Len(<<n>>) + Len(rows) :
                     s[i] = IF i <= Len(<<n>>) THEN <<n>>[i] ELSE rows[i - Len(<<n>>)]
            BY <1>1, <4>1, ConcatProperties
          <5> HIDE DEF s
          <5> QED
            BY <1>1, <4>1, <5>1
        <4> HIDE DEF s
        <4>3. \A i \in 1..Len(s) : i = 1 \/ (i - 1 \in 1..Len(rows) /\ s[i] = rows[i - 1])
          BY <1>1, <4>2
        <4>4. s[1] = n
          BY <1>1, <4>2
        <4>5. \A i \in 1..Len(rows) : i + 1 \in 1..Len(s) /\ s[i + 1] = rows[i]
          BY <1>1, <4>2
        <4>6. Once(s, N)
          <5>1. \A i \in 1..Len(s) : s[i] \in 1..N
            BY <4>3, <4>4 DEF Once
          <5>2. ASSUME NEW i \in 1..Len(s), NEW j \in 1..Len(s), s[i] = s[j] PROVE i = j
            <6>1. i \in Int /\ j \in Int
              OBVIOUS
            <6>2. CASE i = 1 \/ j = 1
              BY <2>0, <4>3, <4>4, <5>2, <6>2
            <6>3. CASE i # 1 /\ j # 1
              <7>1. i - 1 = j - 1
                BY <4>3, <5>2, <6>3 DEF Once
              <7> QED
                BY <6>1, <7>1
            <6> QED
              BY <6>2, <6>3
          <5> QED
            BY <4>2, <5>1, <5>2 DEF Once
        <4>7. DOMAIN s = 1..Len(s) /\ 1 \in 1..Len(s)
          BY <1>1, <4>2
        <4>8. ToSet(rows) \cup {n} \subseteq ToSet(s)
          BY <1>1, <4>4, <4>5, <4>7 DEF ToSet
        <4> QED
          BY <3>1, <4>2, <4>6, <4>8 DEF s
      <3>2. CASE v \notin Feeds
        <4> DEFINE s == Append(rows, n)
        <4>1. /\ s \in Seq(Nat) /\ Len(s) = Len(rows) + 1 /\ s[Len(rows) + 1] = n
              /\ \A i \in 1..Len(rows) : s[i] = rows[i]
          BY <1>1, AppendProperties
        <4> HIDE DEF s
        <4>2. \A i \in 1..Len(s) : i \in 1..Len(rows) \/ i = Len(rows) + 1
          BY <1>1, <4>1
        <4>3. Once(s, N)
          BY <1>1, <2>0, <4>1, <4>2 DEF Once
        <4>4. DOMAIN s = 1..Len(s) /\ \A i \in 1..Len(rows) + 1 : i \in 1..Len(s)
          BY <1>1, <4>1
        <4>5. ToSet(rows) \cup {n} \subseteq ToSet(s)
          BY <1>1, <4>1, <4>4 DEF ToSet
        <4> QED
          BY <3>2, <4>1, <4>3, <4>5 DEF s
      <3> QED
        BY <3>1, <3>2
    <2>2. Shown(v, rows, n) = Cut(v, r)
      BY <1>3 DEF Shown
    <2> HIDE DEF r
    <2>3. Len(r) \in Nat /\ r \in Seq(Nat)
      BY <1>1, <2>1 DEF Once
    <2>4. CASE Len(r) <= Keep
      <3>1. Cut(v, r) = r
        BY <2>4 DEF Cut
      <3>2. Len(rows) # Keep
        <4>1. Len(r) = Len(rows) + 1
          BY <2>1
        <4>2. \A x, k \in Int : x + 1 <= k => x # k
          OBVIOUS
        <4>3. Len(rows) + 1 <= Keep /\ Len(rows) \in Int /\ Keep \in Int
          BY <1>1, <2>4, <4>1
        <4> QED
          BY <4>2, <4>3
      <3> QED
        BY <2>1, <2>2, <3>1, <3>2
    <2>5. CASE ~(Len(r) <= Keep)
      <3>1. Once(SubSeq(r, 1, Keep), N) /\ Len(SubSeq(r, 1, Keep)) = Keep
        <4>1. \A i \in 1..Keep : r[i] \in Nat
          BY <1>1, <2>3, <2>5
        <4>2. Len(SubSeq(r, 1, Keep)) = IF 1 <= Keep THEN Keep - 1 + 1 ELSE 0
          BY <1>1, <4>1, SubSeqProperties
        <4> QED
          BY <1>1, <2>1, <2>3, <2>5, <4>2, OnceInSubSeq
      <3>2. Once(SubSeq(r, Len(r) - Keep + 1, Len(r)), N) /\ Len(SubSeq(r, Len(r) - Keep + 1, Len(r))) = Keep
        <4> DEFINE a == Len(r) - Keep + 1
        <4>0. a \in Nat \ {0} /\ a <= Len(r) /\ Len(r) - a + 1 = Keep
          BY <1>1, <2>3, <2>5
        <4> HIDE DEF a
        <4>1. \A i \in a..Len(r) : r[i] \in Nat
          BY <2>3, <4>0
        <4>2. Len(SubSeq(r, a, Len(r))) = IF a <= Len(r) THEN Len(r) - a + 1 ELSE 0
          BY <2>3, <4>0, <4>1, SubSeqProperties
        <4>3. Once(SubSeq(r, a, Len(r)), N)
          BY <2>1, <2>3, <4>0, OnceInSubSeq
        <4> QED
          BY <4>0, <4>2, <4>3 DEF a
      <3>3. Once(Cut(v, r), N) /\ Len(Cut(v, r)) = Keep
        BY <2>5, <3>1, <3>2 DEF Cut
      <3> QED
        BY <2>2, <3>3
    <2> QED
      BY <2>4, <2>5
  <1> QED
    BY <1>2, <1>3

\* What a page has heard is on it, on its way, lost, or pushed out, and it shows rows of the
\* chain, each once.
Watched(v) ==
  /\ page[v].at = "closed" => heard[v] = {}
  /\ page[v].lookups \subseteq 1..Len(events)
  /\ Once(page[v].rows, Len(events))
  /\ \A n \in heard[v] : \/ n \in ToSet(page[v].rows) \cup page[v].lookups \cup missed[v]
                         \/ Len(page[v].rows) = Keep
Page == [at : {"closed", "connecting", "live"}, rows : Seq(Nat), lookups : SUBSET Nat]
PageTyped ==
  /\ page \in [Viewers -> Page]
  /\ heard \in [Viewers -> SUBSET Nat] /\ missed \in [Viewers -> SUBSET Nat]
WatchInv == PageTyped /\ \A v \in Viewers : Watched(v)

\* A page that is closed shows and has heard nothing.
LEMMA WatchStart == Init => WatchInv
  <1> USE DEF Page
  <1> SUFFICES ASSUME Init PROVE WatchInv
    OBVIOUS
  <1>1. events = <<>> /\ Len(events) = 0
    BY DEF Init
  <1>2. <<>> \in Seq(Nat) /\ Len(<<>>) = 0 /\ {} \in SUBSET Nat
    BY EmptySeq
  <1>3. PageTyped
    BY <1>2 DEF Init, PageTyped, ClosedPage
  <1>4. Once(<<>>, 0)
    BY <1>2 DEF Once
  <1> QED
    BY <1>1, <1>3, <1>4 DEF Init, WatchInv, Watched, ClosedPage

\* The seqs of rows of a linked chain that are selected by position are these positions.
LEMMA SelectedOnce ==
  ASSUME ChainInv, NEW I \in SUBSET (1..Len(events))
  PROVE  Once(Seqs(RowsAt(I)), Len(events)) /\ Len(Seqs(RowsAt(I))) = Len(RowsAt(I))
  <1> DEFINE c == Cardinality(I)
             q == Seqs(RowsAt(I))
  <1>1. /\ RowsAt(I) \in Seq(StoredRow) /\ Len(RowsAt(I)) = c /\ c \in Nat
        /\ \A k \in 1..c : Pos(I, k) \in I /\ RowsAt(I)[k] = events[Pos(I, k)]
        /\ \A k, m \in 1..c : Pos(I, k) = Pos(I, m) => k = m
    BY RowsAtProperties DEF ChainInv, AppendTyped
  <1> HIDE DEF c
  <1>2. \A i \in I : events[i].seq = i /\ i \in Nat
    BY DEF ChainInv, ChainLinked, Linked
  <1>3. q = [k \in 1..c |-> RowsAt(I)[k].seq]
    BY <1>1 DEF Seqs
  <1>4. q = [k \in 1..c |-> Pos(I, k)]
    BY <1>1, <1>2, <1>3
  <1>5. q \in [1..c -> Nat]
    BY <1>1, <1>2, <1>4
  <1>6. q \in Seq(Nat) /\ Len(q) = c
    BY <1>1, <1>5
  <1>7. \A k \in 1..c : q[k] = Pos(I, k)
    BY <1>4
  <1> HIDE DEF q
  <1>8. Once(q, Len(events))
    BY <1>1, <1>6, <1>7 DEF Once
  <1> QED
    BY <1>1, <1>6, <1>8 DEF q

\* The seqs of the newest rows are the newest seqs.
LEMMA SeqsOfNewest ==
  ASSUME NEW rows \in Seq(StoredRow)
  PROVE  Seqs(NewestOf(rows)) = NewestOf(Seqs(rows)) /\ Seqs(rows) \in Seq(Nat) /\ Len(Seqs(rows)) = Len(rows)
  <1> DEFINE a == IF Len(rows) > Snapshot THEN Len(rows) - Snapshot + 1 ELSE 1
             n == Len(rows)
             q == Seqs(rows)
  <1>1. n \in Nat /\ a \in Nat \ {0} /\ a <= n + 1
    BY LedgerChainAssumption
  <1>2. \A k \in 1..n : rows[k].seq \in Nat /\ rows[k] \in StoredRow
    <2> SUFFICES ASSUME NEW k \in 1..n PROVE rows[k].seq \in Nat /\ rows[k] \in StoredRow
      OBVIOUS
    <2>1. rows[k] \in StoredRow
      BY ElementOfSeq
    <2> QED
      BY <2>1 DEF StoredRow
  <1>3. q = [k \in 1..n |-> rows[k].seq]
    BY DEF Seqs
  <1>4. q \in Seq(Nat) /\ Len(q) = n /\ \A k \in 1..n : q[k] = rows[k].seq
    BY <1>1, <1>2, <1>3
  <1>5. NewestOf(rows) = SubSeq(rows, a, n) /\ NewestOf(q) = SubSeq(q, a, n)
    BY <1>4 DEF NewestOf
  <1> HIDE DEF a, q, n
  <1>6. (\A i \in a..n : rows[i] \in StoredRow) /\ \A i \in a..n : q[i] \in Nat
    BY <1>1, <1>2, <1>4
  <1> DEFINE s == SubSeq(rows, a, n)
             t == SubSeq(q, a, n)
             m == IF a <= n THEN n - a + 1 ELSE 0
  <1>7. /\ s \in Seq(StoredRow) /\ Len(s) = m
        /\ \A i \in 1..(n - a + 1) : s[i] = rows[a + i - 1]
    BY <1>1, <1>6, SubSeqProperties
  <1>8. /\ t \in Seq(Nat) /\ Len(t) = m
        /\ \A i \in 1..(n - a + 1) : t[i] = q[a + i - 1]
    BY <1>1, <1>6, SubSeqProperties
  <1> HIDE DEF s, t
  <1>9. m \in Nat /\ m = n - a + 1
    BY <1>1
  <1> HIDE DEF m
  <1>10. ASSUME NEW i \in 1..m PROVE s[i].seq = t[i]
    <2>1. a + i - 1 \in 1..n /\ i \in 1..(n - a + 1)
      BY <1>1, <1>9
    <2> QED
      BY <1>4, <1>7, <1>8, <2>1
  <1>11. Seqs(s) = [i \in 1..m |-> t[i]]
    BY <1>7, <1>10 DEF Seqs
  <1>12. t = [i \in 1..m |-> t[i]]
    BY <1>8, <1>9
  <1>13. Seqs(s) = t
    BY <1>11, <1>12
  <1> QED
    BY <1>4, <1>5, <1>13 DEF s, t, q, n

\* Such a list is one in the opposite order too.
LEMMA ReversedOnce ==
  ASSUME NEW N \in Nat, NEW q, Once(q, N)
  PROVE  Once(Reverse(q), N)
  <1> DEFINE n == Len(q)
             r == [i \in 1..n |-> q[(n - i) + 1]]
  <1>1. q \in Seq(Nat) /\ n \in Nat
    BY DEF Once
  <1>2. Reverse(q) = r
    BY DEF Reverse
  <1> HIDE DEF n
  <1>3. ASSUME NEW i \in 1..n PROVE (n - i) + 1 \in 1..n /\ q[(n - i) + 1] \in Nat
    BY <1>1 DEF n
  <1>4. r \in [1..n -> Nat]
    BY <1>3
  <1>5. r \in Seq(Nat) /\ Len(r) = n /\ \A i \in 1..n : r[i] = q[(n - i) + 1]
    BY <1>1, <1>4
  <1> HIDE DEF r
  <1>6. \A i \in 1..n : r[i] \in 1..N
    BY <1>3, <1>5 DEF Once, n
  <1>7. ASSUME NEW i \in 1..n, NEW j \in 1..n, r[i] = r[j] PROVE i = j
    <2>1. (n - i) + 1 = (n - j) + 1
      BY <1>3, <1>5, <1>7 DEF Once, n
    <2> QED
      BY <1>1, <2>1
  <1> QED
    BY <1>2, <1>5, <1>6, <1>7 DEF Once

\* The rows a page arrives with are rows of the chain, each there once.
LEMMA SnapshotOnce ==
  ASSUME ChainInv, NEW I \in SUBSET (1..Len(events))
  PROVE  /\ Once(Seqs(NewestOf(RowsAt(I))), Len(events))
         /\ Once(Reverse(Seqs(RowsAt(I))), Len(events))
  <1>1. Len(events) \in Nat /\ RowsAt(I) \in Seq(StoredRow)
    BY RowsAtProperties DEF ChainInv, AppendTyped
  <1>2. Once(Seqs(RowsAt(I)), Len(events))
    BY SelectedOnce
  <1>3. Once(Reverse(Seqs(RowsAt(I))), Len(events))
    BY <1>1, <1>2, ReversedOnce
  <1> DEFINE q == Seqs(RowsAt(I))
             a == IF Len(q) > Snapshot THEN Len(q) - Snapshot + 1 ELSE 1
  <1>4. q \in Seq(Nat) /\ Len(q) \in Nat /\ a \in Nat \ {0}
    BY <1>2, LedgerChainAssumption DEF Once
  <1>5. NewestOf(q) = SubSeq(q, a, Len(q))
    BY DEF NewestOf
  <1> HIDE DEF q, a
  <1>6. Once(SubSeq(q, a, Len(q)), Len(events))
    BY <1>1, <1>2, <1>4, OnceInSubSeq DEF q
  <1>7. Seqs(NewestOf(RowsAt(I))) = NewestOf(q)
    BY <1>1, SeqsOfNewest DEF q
  <1> QED
    BY <1>3, <1>5, <1>6, <1>7

\* A step that changes what one page shows, or has heard or missed, and leaves the rows alone.
LEMMA PageMoves ==
  ASSUME WatchInv, UNCHANGED <<events, heard>>, NEW v \in Viewers,
         NEW r \in Page,
         NEW m \in SUBSET Nat,
         page' = [page EXCEPT ![v] = r], missed' = [missed EXCEPT ![v] = m],
         r.at = "closed" => page[v].at = "closed",
         r.lookups \subseteq 1..Len(events),
         Once(r.rows, Len(events)),
         \A n \in heard[v] : n \in ToSet(r.rows) \cup r.lookups \cup m \/ Len(r.rows) = Keep
  PROVE  WatchInv'
  <1> USE DEF Page
  <1>1. PageTyped'
    BY DEF WatchInv, PageTyped
  <1>2. page'[v] = r /\ missed'[v] = m /\ \A u \in Viewers \ {v} : page'[u] = page[u] /\ missed'[u] = missed[u]
    BY DEF WatchInv, PageTyped
  <1>3. Watched(v)'
    BY <1>2 DEF WatchInv, Watched, Once
  <1>4. ASSUME NEW u \in Viewers \ {v} PROVE Watched(u)'
    <2>1. page'[u] = page[u] /\ missed'[u] = missed[u]
      BY <1>2
    <2>2. Watched(u)
      BY DEF WatchInv
    <2>3. Once(page'[u].rows, Len(events'))
      BY <2>1, <2>2 DEF Watched
    <2> QED
      BY <2>1, <2>2, <2>3 DEF Watched, Once
  <1> QED
    BY <1>1, <1>3, <1>4 DEF WatchInv

\* A page opens with rows of the chain, and has heard nothing yet.
LEMMA OpenPageWatched ==
  ASSUME ChainInv, WatchInv, NEW v \in Viewers, OpenPage(v)
  PROVE  WatchInv'
  <1> USE DEF Page
  <1> DEFINE I == {i \in 1..Len(events) : events[i].payload.company = v}
             J == {i \in 1..Len(events) : 1 <= events[i].seq /\ events[i].seq <= Snapshot}
             rows == IF v \in Terminals THEN Seqs(NewestOf(RowsAt(I))) ELSE Reverse(Seqs(RowsAt(J)))
  <1>1. page' = [page EXCEPT ![v] = [at |-> "connecting", lookups |-> {}, rows |-> rows]]
    BY DEF OpenPage, range
  <1>2. Once(rows, Len(events))
    <2>1. Once(Seqs(NewestOf(RowsAt(I))), Len(events))
      BY SnapshotOnce
    <2>2. Once(Reverse(Seqs(RowsAt(J))), Len(events))
      BY SnapshotOnce
    <2> QED
      BY <2>1, <2>2
  <1> HIDE DEF rows
  <1> DEFINE r == [at |-> "connecting", lookups |-> {}, rows |-> rows]
  <1>3. r \in Page
    BY <1>2 DEF Once
  <1>4. heard[v] = {} /\ missed[v] \in SUBSET Nat /\ missed' = [missed EXCEPT ![v] = missed[v]]
        /\ UNCHANGED <<events, heard>>
    BY DEF OpenPage, WatchInv, Watched, PageTyped
  <1>5. page' = [page EXCEPT ![v] = r] /\ r.at = "connecting" /\ r.lookups = {} /\ r.rows = rows
    BY <1>1
  <1> HIDE DEF r
  <1> QED
    BY <1>2, <1>3, <1>4, <1>5, PageMoves

\* A connection that comes loses nothing; one that goes loses what was in flight.
LEMMA ConnectWatched ==
  ASSUME WatchInv, NEW v \in Viewers, Connect(v) \/ Disconnect(v)
  PROVE  WatchInv'
  <1> USE DEF Page
  <1>1. /\ page[v] \in Page
        /\ page \in [Viewers -> Page]
        /\ missed \in [Viewers -> SUBSET Nat] /\ Watched(v)
    BY DEF WatchInv, PageTyped
  <1>2. CASE Connect(v)
    <2> DEFINE r == [page[v] EXCEPT !.at = "live"]
    <2>1. r \in Page
      BY <1>1
    <2>2. r.at = "live" /\ r.rows = page[v].rows /\ r.lookups = page[v].lookups
      BY <1>1
    <2>3. /\ page' = [page EXCEPT ![v] = r] /\ missed' = [missed EXCEPT ![v] = missed[v]]
          /\ UNCHANGED <<events, heard>>
      BY <1>1, <1>2 DEF Connect
    <2>4. missed[v] \in SUBSET Nat
      BY <1>1
    <2> HIDE DEF r
    <2> QED
      BY <1>1, <2>1, <2>2, <2>3, <2>4, PageMoves DEF Watched
  <1>3. CASE Disconnect(v)
    <2> DEFINE r == [page[v] EXCEPT !.at = "connecting", !.lookups = {}]
               m == missed[v] \cup page[v].lookups
    <2>1. r \in Page
      BY <1>1
    <2>2. r.at = "connecting" /\ r.rows = page[v].rows /\ r.lookups = {}
      BY <1>1
    <2>3. page' = [page EXCEPT ![v] = r] /\ missed' = [missed EXCEPT ![v] = m] /\ UNCHANGED <<events, heard>>
      BY <1>1, <1>3 DEF Disconnect
    <2>4. m \in SUBSET Nat
      BY <1>1
    <2>5. \A n \in heard[v] : n \in ToSet(r.rows) \cup r.lookups \cup m \/ Len(r.rows) = Keep
      BY <1>1, <2>2 DEF Watched
    <2> HIDE DEF r, m
    <2> QED
      BY <1>1, <2>1, <2>2, <2>3, <2>4, <2>5, PageMoves DEF Watched
  <1> QED
    BY <1>2, <1>3

\* A lookup that fails is counted as lost.
LEMMA LookupFailsWatched ==
  ASSUME WatchInv, NEW v \in Viewers, NEW n \in page[v].lookups, LookupFails(v, n)
  PROVE  WatchInv'
  <1> USE DEF Page
  <1>1. /\ page[v] \in Page
        /\ page \in [Viewers -> Page]
        /\ missed \in [Viewers -> SUBSET Nat] /\ Watched(v)
    BY DEF WatchInv, PageTyped
  <1> DEFINE r == [page[v] EXCEPT !.lookups = page[v].lookups \ {n}]
             m == missed[v] \cup {n}
  <1>2. r \in Page
    BY <1>1
  <1>3. r.at = page[v].at /\ r.rows = page[v].rows /\ r.lookups = page[v].lookups \ {n}
    BY <1>1
  <1>4. page' = [page EXCEPT ![v] = r] /\ missed' = [missed EXCEPT ![v] = m] /\ UNCHANGED <<events, heard>>
    BY <1>1 DEF LookupFails
  <1>5. n \in Nat /\ m \in SUBSET Nat
    BY <1>1
  <1>6. \A k \in heard[v] : k \in ToSet(r.rows) \cup r.lookups \cup m \/ Len(r.rows) = Keep
    BY <1>1, <1>3 DEF Watched
  <1> HIDE DEF r, m
  <1>7. r.lookups \subseteq 1..Len(events) /\ Once(r.rows, Len(events))
    BY <1>1, <1>3 DEF Watched
  <1> QED
    BY <1>2, <1>3, <1>4, <1>5, <1>6, <1>7, PageMoves

\* A lookup that succeeds finds its row, and the page shows it unless newer rows fill it.
LEMMA FrameWatched ==
  ASSUME ChainInv, WatchInv, NEW v \in Viewers, NEW n \in page[v].lookups, Frame(v, n)
  PROVE  WatchInv'
  <1> USE DEF Page
  <1>1. /\ page[v] \in Page
        /\ page \in [Viewers -> Page]
        /\ missed \in [Viewers -> SUBSET Nat] /\ Watched(v)
    BY DEF WatchInv, PageTyped
  <1>2. Len(events) \in Nat /\ n \in 1..Len(events) /\ Once(page[v].rows, Len(events))
    BY <1>1 DEF Watched, ChainInv, AppendTyped
  <1>3. range(n, n) # <<>>
    <2>0. n \in n..Len(events) /\ n \in 1..Len(events)
      BY <1>2
    <2>1. Len(range(n, n)) = n - n + 1
      BY <2>0, RangeWithin
    <2>2. Len(range(n, n)) = 1
      BY <1>2, <2>1
    <2> QED
      BY <2>2, EmptySeq
  <1> DEFINE s == Shown(v, page[v].rows, n)
             r == [page[v] EXCEPT !.lookups = page[v].lookups \ {n}, !.rows = s]
  <1>4. /\ Once(s, Len(events))
        /\ ToSet(page[v].rows) \cup {n} \subseteq ToSet(s) \/ Len(s) = Keep
        /\ Len(page[v].rows) = Keep => Len(s) = Keep
    BY <1>2, ShownOnce
  <1>5. page' = [page EXCEPT ![v] = r] /\ UNCHANGED <<events, heard>>
        /\ missed' = [missed EXCEPT ![v] = missed[v]] /\ missed[v] \in SUBSET Nat
    BY <1>1, <1>3 DEF Frame
  <1> HIDE DEF s
  <1>6. s \in Seq(Nat)
    BY <1>4 DEF Once
  <1>7. r \in Page
    BY <1>1, <1>6
  <1>8. r.at = page[v].at /\ r.rows = s /\ r.lookups = page[v].lookups \ {n}
    BY <1>1
  <1> HIDE DEF r
  <1>9. \A k \in heard[v] : k \in ToSet(r.rows) \cup r.lookups \cup missed[v] \/ Len(r.rows) = Keep
    BY <1>1, <1>4, <1>8 DEF Watched
  <1>10. r.lookups \subseteq 1..Len(events) /\ Once(r.rows, Len(events))
    BY <1>1, <1>4, <1>8 DEF Watched
  <1> QED
    BY <1>5, <1>7, <1>8, <1>9, <1>10, PageMoves

\* A commit: a page that listens has heard of the row and looks it up.
LEMMA CommitWatched ==
  ASSUME ChainInv, ChainInv', WatchInv, NEW w \in Writers, Commit(w)
  PROVE  WatchInv'
  <1> USE DEF Page
  <1> DEFINE row == writer[w].tx[1]
             n == Len(events)
  <1>1. row \in StoredRow /\ events' = Append(events, row) /\ Notify(row) /\ UNCHANGED missed
    BY DEF Commit, ChainInv, RowFits, Fits
  <1>2. n \in Nat /\ Len(events') = n + 1 /\ events'[n + 1] = row
    BY <1>1, AppendProperties DEF ChainInv, AppendTyped
  <1> HIDE DEF row, n
  <1>3. row.seq = n + 1
    <2>1. n + 1 \in 1..Len(events')
      BY <1>2
    <2> QED
      BY <1>2, <2>1 DEF ChainInv, ChainLinked, Linked
  <1>4. /\ page \in [Viewers -> Page]
        /\ heard \in [Viewers -> SUBSET Nat] /\ missed \in [Viewers -> SUBSET Nat]
    BY DEF WatchInv, PageTyped
  <1>5. ASSUME NEW v \in Viewers
        PROVE  /\ page'[v] \in Page
               /\ heard'[v] \in SUBSET Nat
               /\ Watched(v)'
    <2>1. page[v] \in Page
          /\ heard[v] \in SUBSET Nat /\ Watched(v)
      BY <1>4 DEF WatchInv
    <2>2. \A rows : Once(rows, n) => Once(rows, n + 1)
      <3>1. 1..n \subseteq 1..(n + 1)
        BY <1>2
      <3> QED
        BY <3>1 DEF Once
    <2>3. Once(page[v].rows, n + 1) /\ page[v].lookups \subseteq 1..n
      BY <2>1, <2>2 DEF Watched, n
    <2>4. CASE Follows(v, row.payload.company)
      <3>1. page'[v] = [page[v] EXCEPT !.lookups = page[v].lookups \cup {n + 1}]
            /\ heard'[v] = heard[v] \cup {n + 1}
        BY <1>1, <1>3, <2>4 DEF Notify
      <3>2. page'[v].at = "live" /\ page'[v].rows = page[v].rows /\ page'[v].lookups = page[v].lookups \cup {n + 1}
        BY <2>1, <2>4, <3>1 DEF Follows
      <3>3. /\ page'[v] \in Page
            /\ heard'[v] \in SUBSET Nat
        <4>1. n + 1 \in Nat
          BY <1>2
        <4>2. heard'[v] \in SUBSET Nat
          BY <2>1, <3>1, <4>1
        <4>3. page[v].lookups \cup {n + 1} \in SUBSET Nat
          BY <2>1, <4>1
        <4> QED
          BY <2>1, <3>1, <4>2, <4>3
      <3>4. Once(page'[v].rows, Len(events'))
        BY <1>2, <2>3, <3>2
      <3>5. page'[v].lookups \subseteq 1..Len(events')
        BY <1>2, <2>3, <3>2
      <3>6. \A k \in heard'[v] : k \in ToSet(page'[v].rows) \cup page'[v].lookups \cup missed'[v]
                                 \/ Len(page'[v].rows) = Keep
        BY <1>1, <2>1, <3>1, <3>2 DEF Watched
      <3>7. Watched(v)'
        BY <3>2, <3>4, <3>5, <3>6 DEF Watched, Once
      <3> QED
        BY <3>3, <3>7
    <2>5. CASE ~Follows(v, row.payload.company)
      <3>1. page'[v] = page[v] /\ heard'[v] = heard[v] /\ missed'[v] = missed[v]
        BY <1>1, <2>5 DEF Notify
      <3>2. Once(page'[v].rows, Len(events')) /\ page'[v].lookups \subseteq 1..Len(events')
        BY <1>2, <2>3, <3>1
      <3>3. Watched(v)'
        BY <2>1, <3>1, <3>2 DEF Watched, Once
      <3> QED
        BY <2>1, <3>1, <3>3
    <2> QED
      BY <2>4, <2>5
  <1>6. /\ page' = [v \in Viewers |-> page'[v]] /\ heard' = [v \in Viewers |-> heard'[v]]
    BY <1>1 DEF Notify
  <1>7. PageTyped'
    BY <1>1, <1>4, <1>5, <1>6 DEF PageTyped
  <1> QED
    BY <1>5, <1>7 DEF WatchInv

\* No step loses what a page has heard, or shows it twice.
LEMMA WatchStep == ChainInv /\ ChainInv' /\ WatchInv /\ [Next]_vars => WatchInv'
  <1> SUFFICES ASSUME ChainInv, ChainInv', WatchInv, [Next]_vars PROVE WatchInv'
    OBVIOUS
  <1>1. UNCHANGED <<events, page, heard, missed>> => WatchInv'
    <2> SUFFICES ASSUME UNCHANGED <<events, page, heard, missed>> PROVE WatchInv'
      OBVIOUS
    <2>1. PageTyped'
      BY DEF WatchInv, PageTyped
    <2>2. \A v \in Viewers : Watched(v)'
      BY DEF WatchInv, Watched, Once
    <2> QED
      BY <2>1, <2>2 DEF WatchInv
  <1>2. ASSUME NEW w \in Writers, Append1(w) PROVE UNCHANGED <<events, page, heard, missed>> \/ Commit(w)
    BY <1>2 DEF Append1, AppendStep, StartAppend, AcquireLock, InsertRow, Answer, Abort, LoseAnswer, feed
  <1>3. StartPaging \/ ReadPage \/ UNCHANGED vars => UNCHANGED <<events, page, heard, missed>>
    BY DEF StartPaging, ReadPage, vars, feed
  <1>4. ASSUME NEW v \in Viewers, Follow(v) PROVE WatchInv'
    BY <1>4, OpenPageWatched, ConnectWatched, FrameWatched, LookupFailsWatched DEF Follow, FrameStep
  <1> QED
    BY <1>1, <1>2, <1>3, <1>4, CommitWatched DEF Next

\* Those who append, those who watch and those who page see the same chain.
THEOREM ReadersSeeOneChain == Spec => []ReadersSeeTheChain
  <1>1. ASSUME ChainInv, CallsInv, PagerInv, WatchInv PROVE ReadersSeeTheChain
    <2>1. Len(events) \in Nat
      BY <1>1 DEF ChainInv, AppendTyped
    <2>2. AnsweredIsStored
      <3> SUFFICES ASSUME NEW c \in Call
                   PROVE (c \in answered => Count(c) > 0) /\ (Count(c) > 1 => c \in doubtful)
        BY DEF AnsweredIsStored
      <3>1. (Count(c) > 0 <=> Stored(c)) /\ (Count(c) > 1 <=> Twice(c))
        BY <2>1, CountTells
      <3> QED
        BY <1>1, <3>1 DEF CallsInv
    <2>3. LiveIsComplete
      <3> SUFFICES ASSUME NEW v \in Viewers
                   PROVE /\ \A n \in heard[v] : \/ n \in ToSet(page[v].rows) \cup page[v].lookups \cup missed[v]
                                                \/ Len(page[v].rows) = Keep
                         /\ IsInjective(page[v].rows) /\ ToSet(page[v].rows) \subseteq 1..Len(events)
        BY DEF LiveIsComplete
      <3>1. Watched(v)
        BY <1>1 DEF WatchInv
      <3>2. Once(page[v].rows, Len(events)) /\ page[v].rows \in Seq(Nat)
        BY <3>1 DEF Watched, Once
      <3>3. IsInjective(page[v].rows) /\ ToSet(page[v].rows) \subseteq 1..Len(events)
        BY <2>1, <3>2, OnceMeans
      <3> QED
        BY <3>1, <3>3 DEF Watched
    <2>4. PagesAreThePrefix
      BY <1>1 DEF PagerInv
    <2> QED
      BY <2>2, <2>3, <2>4 DEF ReadersSeeTheChain
  <1>2. Init => ChainInv /\ CallsInv /\ PagerInv /\ WatchInv
    BY InitChain, CallsStart, PagerStart, WatchStart
  <1>3. ChainInv /\ CallsInv /\ PagerInv /\ WatchInv /\ [Next]_vars
          => (ChainInv /\ CallsInv /\ PagerInv /\ WatchInv)'
    BY StepChain, CallsStep, PagerStep, WatchStep
  <1> QED
    BY <1>1, <1>2, <1>3, PTL DEF Spec

----------------------------------------------------------------------------
(* The model calls: what every step of a planning attempt and of a chat   *)
(* keeps, for a company set up in any way.                                *)

AttemptStages == {"off", "gather", "guard", "read", "departments", "synthesis", "done", "threw"}
BeforeCalls == {"off", "gather", "guard", "read"}
CallAsked == {"call", "repair", "append", "done", "lost"}
CallAnswers == {"classify", "route", "call", "repair", "usable", "failed"}
TierNames == {"mini", "standard", "frontier"}
Complexities == {"trivial", "routine", "hard"}
Ideas(s) == (UNION Setup[s].proposals) \cup {"reply", "outreach", "fix", "review"}
Works(s) == {w \in SUBSET Ideas(s) : IsFiniteSet(w)}
CallRow(s) == [at : {"off"} \cup CallAsked \cup CallAnswers, tier : TierNames, base : TierNames, tries : Int,
            degraded : BOOLEAN, work : Works(s)]
AttemptRow(s) == [at : AttemptStages, ctx : Calls(s)!Context, funded : BOOLEAN]

CallsTyped(s) ==
  /\ flow \in {"idle", "running", "planned", "skipped", "failed"} /\ cur \in Calls(s)!Attempts
  /\ attempt \in [Calls(s)!Attempts -> AttemptRow(s)]
  /\ caller \in [Calls(s)!Attempts -> [Calls(s)!Planners -> CallRow(s)]]
  /\ chat \in [call : CallRow(s), ctx : Calls(s)!Context, directive : BOOLEAN]
  /\ outages \in Nat
\* The attempts after the one awaited have not begun.
AheadUnplanned(s) == \A j \in Calls(s)!Attempts : j > cur \/ flow = "idle" =>
    attempt[j] = Calls(s)!Unplanned
MayPlan(a) == a.ctx.reports > 0 \/ a.ctx.queued = 0
Silent(s, i) == \A n \in Calls(s)!Planners : caller[i][n] = Calls(s)!Off
Report(s, i, n) == [by |-> n, of |-> i, degraded |-> caller[i][n].degraded]
\* A planner is asked within the means its attempt read, and for an attempt that may plan.
Routed(s, i, n) ==
  caller[i][n].at # "off" =>
    /\ caller[i][n].at \in CallAsked
    /\ attempt[i].funded /\ MayPlan(attempt[i])
    /\ Calls(s)!Within(n, caller[i][n], attempt[i].ctx)
    /\ caller[i][n].at \in {"call", "repair"} => ~caller[i][n].degraded
AttemptKept(s, i) ==
  /\ attempt[i].at \in BeforeCalls => Silent(s, i)
  /\ attempt[i].at = "read" => MayPlan(attempt[i])
  /\ attempt[i].at = "departments" =>
       caller[i]["ceo"] = Calls(s)!Off /\ attempt[i].funded /\ MayPlan(attempt[i])
  /\ \A n \in Calls(s)!Planners : Routed(s, i, n)
  /\ \A d \in Setup[s].departments : caller[i][d].at = "done" => Report(s, i, d) \in plans
  /\ caller[i]["ceo"].at # "off" => \A d \in Setup[s].departments : caller[i][d].at = "done"
  /\ attempt[i].at = "done" /\ caller[i]["ceo"].at # "off" =>
       caller[i]["ceo"].at = "done" /\ Report(s, i, "ceo") \in plans
  /\ caller[i]["ceo"].degraded /\ attempt[i].ctx.queued = 0 => caller[i]["ceo"].work # {}
AttemptsKept(s) == \A i \in Calls(s)!Attempts : AttemptKept(s, i)
ChatKept(s) ==
  chat.call.at \in {"call", "repair"} =>
    /\ Calls(s)!Within("chat", chat.call, chat.ctx)
    /\ chat.directive /\ chat.ctx.balance >= StandardMin => chat.call.tier # "mini"
FaultCounted(s) == cur > 1 \/ flow = "failed" => outages > 0
PlanningInv(s) == CallsTyped(s) /\ AheadUnplanned(s) /\ AttemptsKept(s) /\ ChatKept(s) /\ FaultCounted(s)

----------------------------------------------------------------------------
\* What a setup is assumed to be, and that counting is the same everywhere.
LEMMA SetupGiven ==
  ASSUME NEW s \in Setups PROVE Calls(s)!ModelCallsAssumption
  BY LedgerCallsAssumption
\* Counting is the same in a setup's instance as here.
LEMMA SameCounting ==
  ASSUME NEW s \in Setups, NEW S
  PROVE  (Calls(s)!IsFiniteSet(S) <=> IsFiniteSet(S)) /\ Calls(s)!Cardinality(S) = Cardinality(S)
  BY DEF Calls!IsFiniteSet, IsFiniteSet, Calls!Cardinality, Cardinality

\* The tiers in their order,
LEMMA TierRanks ==
  ASSUME NEW s \in Setups PROVE
  Calls(s)!rank("mini") = 1 /\ Calls(s)!rank("standard") = 2 /\ Calls(s)!rank("frontier") = 3
  BY DEF Calls!rank, Calls!Tiers

\* the cheaper of two
LEMMA CheaperTier ==
  ASSUME NEW s \in Setups, NEW a \in TierNames, NEW b \in TierNames
  PROVE  /\ Calls(s)!minTier(a, b) \in {a, b}
         /\ a = "mini" \/ b = "mini" => Calls(s)!minTier(a, b) = "mini"
         /\ a # "frontier" \/ b # "frontier" => Calls(s)!minTier(a, b) # "frontier"
  BY TierRanks DEF Calls!minTier, TierNames

\* and at least the middle one.
LEMMA DearerTier ==
  ASSUME NEW s \in Setups, NEW a \in TierNames
  PROVE  Calls(s)!maxTier(a, "standard") \in TierNames \ {"mini"}
  BY TierRanks DEF Calls!maxTier, TierNames

\* The policy table: the frontier is no department's, and what matters is not the floor model's.
LEMMA BaseTier ==
  ASSUME NEW s \in Setups, NEW complexity \in Complexities, NEW stakes \in {"low", "high"},
         NEW kind \in {"heartbeat_noop", "owner_chat", "owner_chat_directive", "department_synthesis",
                       "heartbeat_plan"}
  PROVE  /\ Calls(s)!baseRoute(kind, complexity, stakes) \in TierNames
         /\ kind = "department_synthesis" => Calls(s)!baseRoute(kind, complexity, stakes) # "frontier"
         /\ kind = "owner_chat_directive" \/ (kind = "heartbeat_plan" /\ stakes = "high") =>
              Calls(s)!baseRoute(kind, complexity, stakes) # "mini"
<1>1. CASE kind = "heartbeat_noop"
  BY <1>1 DEF Calls!baseRoute, TierNames
<1>2. CASE kind = "owner_chat"
  BY <1>2 DEF Calls!baseRoute, TierNames
<1>3. CASE kind = "owner_chat_directive"
  BY <1>3 DEF Calls!baseRoute, TierNames
<1>4. CASE kind = "department_synthesis"
  BY <1>4 DEF Calls!baseRoute, TierNames
<1>5. CASE kind = "heartbeat_plan"
  <2> DEFINE t == CASE complexity = "trivial" -> "mini" [] complexity = "routine" -> "standard"
                    [] complexity = "hard" -> "frontier"
  <2>1. t \in TierNames
    BY DEF Complexities, TierNames
  <2>2. Calls(s)!baseRoute(kind, complexity, stakes)
      = IF stakes = "high" THEN Calls(s)!maxTier(t, "standard") ELSE t
    BY <1>5 DEF Calls!baseRoute
  <2> HIDE DEF t
  <2> QED BY <1>5, <2>1, <2>2, DearerTier
<1> QED BY <1>1, <1>2, <1>3, <1>4, <1>5

\* The budget's cap: never above the runway's band, and above the floor where the band is.
LEMMA CappedTier ==
  ASSUME NEW s \in Setups, NEW tier \in TierNames, NEW ctx \in Calls(s)!Context
  PROVE  LET t == Calls(s)!applyBudgetCap(tier, ctx)
         IN /\ t \in TierNames
            /\ ctx.balance < StandardMin => t = "mini"
            /\ ctx.balance < FrontierMin /\ ctx.revenue = 0 => t # "frontier"
            /\ tier # "frontier" => t # "frontier"
            /\ tier # "mini" /\ ctx.balance >= StandardMin => t # "mini"
<1> DEFINE cap == CASE ctx.balance < StandardMin -> "mini"
                    [] ctx.balance >= StandardMin /\ ctx.balance < FrontierMin
                        /\ ctx.revenue = 0 -> "standard"
                    [] OTHER -> "frontier"
<1>1. ctx.balance \in Int /\ ctx.revenue \in Nat /\ StandardMin \in Nat /\ FrontierMin \in Nat
  BY SetupGiven DEF Calls!ModelCallsAssumption, Calls!Context
<1>2. /\ cap \in TierNames
      /\ ctx.balance < StandardMin => cap = "mini"
      /\ ctx.balance >= StandardMin => cap # "mini"
      /\ ctx.balance < FrontierMin /\ ctx.revenue = 0 => cap # "frontier"
  BY <1>1 DEF TierNames
<1>3. Calls(s)!applyBudgetCap(tier, ctx) = Calls(s)!minTier(tier, cap)
  BY DEF Calls!applyBudgetCap
<1> HIDE DEF cap
<1> QED BY <1>1, <1>2, <1>3, CheaperTier DEF TierNames

\* What a context says of complexity and stakes.
LEMMA SignalsTyped ==
  ASSUME NEW s \in Setups, NEW ctx \in Calls(s)!Context
  PROVE  Calls(s)!contextComplexity(ctx) \in Complexities /\ Calls(s)!contextStakes(ctx) \in {"low", "high"}
  BY DEF Calls!contextComplexity, Calls!contextStakes, Complexities

\* The tier a planner asks for is within what it read of the wallet.
LEMMA PlannersRouted ==
  ASSUME NEW s \in Setups, NEW n \in Calls(s)!Planners, NEW ctx \in Calls(s)!Context
  PROVE  /\ Calls(s)!RouteOf(n, ctx) \in TierNames
         /\ ctx.balance < StandardMin => Calls(s)!RouteOf(n, ctx) = "mini"
         /\ ctx.balance < FrontierMin /\ ctx.revenue = 0 => Calls(s)!RouteOf(n, ctx) # "frontier"
         /\ n \in Setup[s].departments => Calls(s)!RouteOf(n, ctx) # "frontier"
         /\ n = "ceo" /\ Calls(s)!contextStakes(ctx) = "high" /\ ctx.balance >= StandardMin =>
             Calls(s)!RouteOf(n, ctx) # "mini"
<1> DEFINE kind == IF n \in Setup[s].departments THEN "department_synthesis"
                   ELSE IF Calls(s)!Quiet(ctx) THEN "heartbeat_noop" ELSE "heartbeat_plan"
<1> DEFINE base == Calls(s)!baseRoute(kind, Calls(s)!contextComplexity(ctx), Calls(s)!contextStakes(ctx))
<1>1. Calls(s)!RouteOf(n, ctx) = Calls(s)!applyBudgetCap(base, ctx)
  BY DEF Calls!RouteOf, Calls!routeTier
<1>2. /\ kind \in {"heartbeat_noop", "department_synthesis", "heartbeat_plan"}
      /\ n \in Setup[s].departments => kind = "department_synthesis"
  OBVIOUS
<1>3. n = "ceo" /\ Calls(s)!contextStakes(ctx) = "high" => kind = "heartbeat_plan"
  <2>1. "ceo" \notin Setup[s].departments
    BY SetupGiven DEF Calls!ModelCallsAssumption
  <2>2. ctx.revenue \in Nat
    BY DEF Calls!Context
  <2> QED BY <2>1, <2>2 DEF Calls!contextStakes, Calls!Quiet
<1> HIDE DEF kind
<1>4. /\ base \in TierNames
      /\ kind = "department_synthesis" => base # "frontier"
      /\ kind = "heartbeat_plan" /\ Calls(s)!contextStakes(ctx) = "high" => base # "mini"
  BY <1>2, SignalsTyped, BaseTier
<1> HIDE DEF base
<1> QED BY <1>1, <1>2, <1>3, <1>4, CappedTier

----------------------------------------------------------------------------
\* A planner that has not been asked has a call of the type.
LEMMA OffTyped ==
  ASSUME NEW s \in Setups PROVE
  Calls(s)!Off \in CallRow(s) /\ Calls(s)!Off.at = "off" /\ ~Calls(s)!Off.degraded /\ {} \in Works(s)
<1>1. {} \in Works(s)
  BY FS_EmptySet DEF Works
<1> HIDE DEF Works
<1> QED BY <1>1 DEF Calls!Off, CallRow, TierNames

\* A call that is made.
LEMMA AskingTyped ==
  ASSUME NEW s \in Setups, NEW tier \in TierNames
  PROVE  /\ Calls(s)!Asks(tier) \in CallRow(s) /\ Calls(s)!Asks(tier).at = "call"
      /\ ~Calls(s)!Asks(tier).degraded
         /\ Calls(s)!Asks(tier).tier = tier /\ Calls(s)!Asks(tier).base = tier
  BY OffTyped DEF Calls!Off, Calls!Asks, CallRow, CallAsked

\* An answer, a retry or a repair holds the tier of the call.
LEMMA AnswersTyped ==
  ASSUME NEW s \in Setups, NEW c \in CallRow(s), c.at \in {"call", "repair"}, c.tier = c.base,
      NEW e \in Calls(s)!Answers(c)
  PROVE  /\ e \in CallRow(s) /\ e.tier = c.tier /\ e.base = c.base /\ e.work = c.work
      /\ e.degraded = c.degraded
         /\ e.at \in {"call", "repair", "usable", "failed"}
<1>1. c.tries \in Int /\ Setup[s].tries \in Int
  BY SetupGiven DEF CallRow, Calls!ModelCallsAssumption
<1>2. CASE e = Calls(s)!Parses(c)
  BY <1>2 DEF Calls!Parses, CallRow, CallAnswers
<1>3. CASE e = Calls(s)!Repaired(c)
  <2>1. CASE c.at = "call"
    <3>1. c.base \in TierNames /\ c.degraded \in BOOLEAN /\ c.work \in Works(s)
      BY DEF CallRow
    <3>2. e = [at |-> "repair", tier |-> c.base, base |-> c.base, tries |-> 0,
               degraded |-> c.degraded, work |-> c.work]
      BY <1>3, <2>1 DEF Calls!Repaired, Calls!RepairTier, CallRow
    <3>3. "repair" \in {"off"} \cup CallAsked \cup CallAnswers /\ 0 \in Int
      BY DEF CallAsked
    <3>4. e \in CallRow(s)
      BY <3>1, <3>2, <3>3 DEF CallRow
    <3> QED BY <3>2, <3>4
  <2>2. CASE c.at # "call"
    BY <1>3, <2>2 DEF Calls!Repaired, CallRow, CallAnswers
  <2> QED BY <2>1, <2>2
<1>4. CASE e = Calls(s)!Retried(c)
  <2>1. CASE c.tries + 1 < Setup[s].tries
    BY <1>4, <2>1, <1>1 DEF Calls!Retried, CallRow
  <2>2. CASE ~(c.tries + 1 < Setup[s].tries)
    BY <1>4, <2>2 DEF Calls!Retried, CallRow, CallAnswers
  <2> QED BY <2>1, <2>2
<1>5. CASE e = Calls(s)!GivenUp(c)
  BY <1>5 DEF Calls!GivenUp, CallRow, CallAnswers
<1> QED BY <1>2, <1>3, <1>4, <1>5 DEF Calls!Answers

\* A department's stand-in proposes finitely many pieces of work,
LEMMA StandInsTyped ==
  ASSUME NEW s \in Setups, NEW d \in Setup[s].departments, NEW ctx
  PROVE  Calls(s)!fallbackDepartment(d, ctx) \in Works(s)
<1>1. d \in {"cmo", "cto", "cfo"}
  BY SetupGiven DEF Calls!ModelCallsAssumption
<1>2. Calls(s)!fallbackDepartment(d, ctx) \subseteq {"reply", "outreach"}
    \/ Calls(s)!fallbackDepartment(d, ctx) \subseteq {"fix"}
  <2>1. CASE d = "cmo"
    BY <2>1 DEF Calls!fallbackDepartment
  <2>2. CASE d = "cto"
    BY <2>2 DEF Calls!fallbackDepartment
  <2>3. CASE d = "cfo"
    BY <2>3 DEF Calls!fallbackDepartment
  <2> QED BY <1>1, <2>1, <2>2, <2>3
<1>3. Calls(s)!fallbackDepartment(d, ctx) \subseteq {"reply"} \cup ({"outreach"} \cup {"fix"})
  BY <1>2
<1>4. IsFiniteSet({"reply"}) /\ IsFiniteSet({"outreach"}) /\ IsFiniteSet({"fix"})
  BY FS_Singleton
<1>5. IsFiniteSet({"outreach"} \cup {"fix"})
  BY <1>4, FS_Union
<1>6. IsFiniteSet({"reply"} \cup ({"outreach"} \cup {"fix"}))
  BY <1>4, <1>5, FS_Union
<1>7. IsFiniteSet(Calls(s)!fallbackDepartment(d, ctx))
  BY <1>3, <1>6, FS_Subset
<1>8. {"reply", "outreach", "fix"} \subseteq Ideas(s)
  BY DEF Ideas
<1>9. Calls(s)!fallbackDepartment(d, ctx) \subseteq Ideas(s)
  BY <1>3, <1>8
<1> QED BY <1>7, <1>9 DEF Works

\* and so does a model.
LEMMA ProposalsTyped ==
  ASSUME NEW s \in Setups PROVE
  Setup[s].proposals \subseteq Works(s)
  BY SetupGiven, SameCounting DEF Works, Ideas, Calls!ModelCallsAssumption

\* What the departments of an attempt proposed together is finite.
LEMMA ProposedTyped ==
  ASSUME NEW s \in Setups, NEW f \in [Calls(s)!Planners -> CallRow(s)]
  PROVE  UNION {f[d].work : d \in Setup[s].departments} \in Works(s)
<1> DEFINE W(d) == IF d \in Setup[s].departments THEN f[d].work ELSE {}
<1>1. \A d \in Setup[s].departments : f[d].work \in Works(s)
  BY DEF CallRow, Calls!Planners
<1>2. W("cmo") \in Works(s) /\ W("cto") \in Works(s) /\ W("cfo") \in Works(s)
  BY <1>1, OffTyped
<1>3. IsFiniteSet(W("cmo")) /\ IsFiniteSet(W("cto")) /\ IsFiniteSet(W("cfo"))
  BY <1>2 DEF Works
<1>4. Setup[s].departments \subseteq {"cmo", "cto", "cfo"}
  BY SetupGiven DEF Calls!ModelCallsAssumption
<1>5. UNION {f[d].work : d \in Setup[s].departments} \subseteq W("cmo") \cup (W("cto") \cup W("cfo"))
  BY <1>4
<1>6. UNION {f[d].work : d \in Setup[s].departments} \subseteq Ideas(s)
  BY <1>1 DEF Works
<1> HIDE DEF W
<1>7. IsFiniteSet(W("cto") \cup W("cfo"))
  BY <1>3, FS_Union
<1>8. IsFiniteSet(W("cmo") \cup (W("cto") \cup W("cfo")))
  BY <1>3, <1>7, FS_Union
<1>9. IsFiniteSet(UNION {f[d].work : d \in Setup[s].departments})
  BY <1>5, <1>8, FS_Subset
<1> QED BY <1>6, <1>9 DEF Works

\* The stand-in of the CEO leaves no idle company without work.
LEMMA FallbackKept ==
  ASSUME NEW s \in Setups, NEW ctx, NEW proposed \in Works(s),
      NEW S \in Calls(s)!fallbackPlans(ctx, proposed)
  PROVE  S \in Works(s) /\ (ctx.queued = 0 => S # {})
<1>1. CASE proposed = {}
  <2>1. S = IF ctx.queued = 0 THEN {"review"} ELSE {}
    BY <1>1 DEF Calls!fallbackPlans
  <2>2. {"review"} \in Works(s)
    <3>1. "review" \in Ideas(s)
      BY DEF Ideas
    <3>2. IsFiniteSet({"review"})
      BY FS_Singleton
    <3> QED BY <3>1, <3>2 DEF Works
  <2> QED BY <2>1, <2>2, OffTyped
<1>2. CASE proposed # {}
  <2> DEFINE room == IF Setup[s].dailyTaskCap < 1 THEN 1
                     ELSE IF Setup[s].dailyTaskCap > 10 THEN 10 ELSE Setup[s].dailyTaskCap
             m == IF Cardinality(proposed) <= room THEN Cardinality(proposed) ELSE room
  <2>1. S \in Calls(s)!kSubset(m, proposed)
    BY <1>2, SameCounting DEF Calls!fallbackPlans
  <2>2. S \subseteq proposed /\ Cardinality(S) = m
    BY <2>1, SameCounting DEF Calls!kSubset
  <2>3. IsFiniteSet(proposed) /\ proposed \subseteq Ideas(s)
    BY DEF Works
  <2>4. IsFiniteSet(S)
    BY <2>2, <2>3, FS_Subset
  <2>5. Cardinality(proposed) \in Nat /\ Cardinality(proposed) # 0
    BY <1>2, <2>3, FS_CardinalityType, FS_EmptySet
  <2>6. Setup[s].dailyTaskCap \in Int
    BY SetupGiven DEF Calls!ModelCallsAssumption
  <2>7. room \in Int /\ room >= 1
    BY <2>6
  <2>8. m # 0
    BY <2>5, <2>7
  <2>9. S # {}
    BY <2>2, <2>8, FS_EmptySet
  <2> QED BY <2>2, <2>3, <2>4, <2>9 DEF Works
<1> QED BY <1>1, <1>2

----------------------------------------------------------------------------
\* What an attempt begins with has the types.
LEMMA BeginsTyped ==
  ASSUME NEW s \in Setups PROVE
  /\ Calls(s)!NoContext \in Calls(s)!Context /\ Calls(s)!Unplanned \in AttemptRow(s)
      /\ Calls(s)!Begins \in AttemptRow(s)
  /\ Calls(s)!Unplanned.at = "off" /\ Calls(s)!Begins.at = "gather"
<1>1. Calls(s)!NoContext \in Calls(s)!Context
  BY DEF Calls!NoContext, Calls!Context
<1> QED BY <1>1 DEF Calls!Begins, Calls!Unplanned, AttemptRow, AttemptStages

\* The invariant holds at the start.
LEMMA KeptStart ==
  ASSUME NEW s \in Setups PROVE
  Calls(s)!Init => PlanningInv(s)
<1> SUFFICES ASSUME Calls(s)!Init PROVE PlanningInv(s)
  OBVIOUS
<1>1. 1 \in Calls(s)!Attempts
  BY SetupGiven DEF Calls!ModelCallsAssumption, Calls!Attempts
<1>2. Calls(s)!NoContext \in Calls(s)!Context
  BY BeginsTyped
<1>3. Calls(s)!Unplanned \in AttemptRow(s) /\ Calls(s)!Unplanned.at = "off"
  BY BeginsTyped
<1>4. CallsTyped(s)
  BY <1>1, <1>2, <1>3, OffTyped DEF Calls!Init, CallsTyped
<1>5. AheadUnplanned(s)
  BY DEF Calls!Init, AheadUnplanned
<1>6. ASSUME NEW i \in Calls(s)!Attempts PROVE AttemptKept(s, i)
  <2>1. attempt[i].at = "off"
    BY <1>3 DEF Calls!Init
  <2>2. "ceo" \in Calls(s)!Planners /\ Setup[s].departments \subseteq Calls(s)!Planners
    BY DEF Calls!Planners
  <2>3. \A n \in Calls(s)!Planners : caller[i][n] = Calls(s)!Off
    BY DEF Calls!Init
  <2> QED BY <2>1, <2>2, <2>3, OffTyped DEF AttemptKept, Silent, Routed
<1>7. ChatKept(s)
  BY OffTyped DEF Calls!Init, ChatKept
<1>8. FaultCounted(s)
  BY DEF Calls!Init, FaultCounted
<1> QED BY <1>4, <1>5, <1>6, <1>7, <1>8 DEF PlanningInv, AttemptsKept

----------------------------------------------------------------------------
\* The CEO is no department.
LEMMA PlannerRoles ==
  ASSUME NEW s \in Setups PROVE
  "ceo" \in Calls(s)!Planners /\ "ceo" \notin Setup[s].departments
      /\ Setup[s].departments \subseteq Calls(s)!Planners
               /\ "chat" \notin Setup[s].departments /\ "chat" # "ceo"
  BY SetupGiven DEF Calls!Planners, Calls!ModelCallsAssumption

\* The current step leaves an attempt alone.
LEMMA AttemptUntouched ==
  ASSUME NEW s \in Setups, NEW j \in Calls(s)!Attempts, AttemptKept(s, j), attempt'[j] = attempt[j],
      caller'[j] = caller[j],
         plans \subseteq plans'
  PROVE  AttemptKept(s, j)'
<1>1. attempt[j].at \in BeforeCalls => Silent(s, j)'
  BY DEF AttemptKept, Silent
<1>2. \A n \in Calls(s)!Planners : Routed(s, j, n)'
  BY DEF AttemptKept, Routed, Calls!Within, MayPlan
<1>3. \A n \in Calls(s)!Planners : Report(s, j, n)' = Report(s, j, n)
  BY DEF Report
<1> QED BY <1>1, <1>2, <1>3, PlannerRoles DEF AttemptKept, MayPlan

\* An attempt that has called nobody, and what it may need to have found.
LEMMA StillSilent ==
  ASSUME NEW s \in Setups, NEW j \in Calls(s)!Attempts, Silent(s, j)', attempt'[j].at # "departments",
         attempt'[j].at = "read" => MayPlan(attempt'[j])
  PROVE  AttemptKept(s, j)'
<1>1. \A n \in Calls(s)!Planners : caller'[j][n] = Calls(s)!Off
  BY DEF Silent
<1>2. \A n \in Calls(s)!Planners : Routed(s, j, n)'
  BY <1>1, OffTyped DEF Routed
<1> QED BY <1>1, <1>2, PlannerRoles, OffTyped DEF AttemptKept

\* An attempt that has started is not ahead of the one awaited.
LEMMA AttemptStarted ==
  ASSUME NEW s \in Setups, PlanningInv(s), NEW i \in Calls(s)!Attempts, attempt[i].at # "off"
  PROVE  i <= cur /\ flow # "idle" /\ cur \in Int /\ i \in Int
<1>1. Calls(s)!Unplanned.at = "off"
  BY DEF Calls!Unplanned
<1> QED BY <1>1, SetupGiven DEF PlanningInv, CallsTyped, AheadUnplanned, Calls!Attempts,
    Calls!ModelCallsAssumption

\* The types of a step of one attempt, and that what lies ahead of it does not move.
LEMMA OneMoves ==
  ASSUME NEW s \in Setups, PlanningInv(s), NEW i \in Calls(s)!Attempts, attempt[i].at # "off",
      NEW r \in AttemptRow(s),
         attempt' = [attempt EXCEPT ![i] = r],
         cur' = cur, NEW result \in {"planned", "skipped", "failed"}, flow' \in {flow, result}
  PROVE  /\ attempt' \in [Calls(s)!Attempts -> AttemptRow(s)]
         /\ flow' \in {"idle", "running", "planned", "skipped", "failed"} /\ cur' \in Calls(s)!Attempts
         /\ AheadUnplanned(s)'
         /\ attempt'[i] = r /\ \A j \in Calls(s)!Attempts : j # i => attempt'[j] = attempt[j]
<1>1. attempt \in [Calls(s)!Attempts -> AttemptRow(s)] /\ cur \in Calls(s)!Attempts
      /\ flow \in {"idle", "running", "planned", "skipped", "failed"}
  BY DEF PlanningInv, CallsTyped
<1>2. attempt'[i] = r /\ \A j \in Calls(s)!Attempts : j # i => attempt'[j] = attempt[j]
  BY <1>1
<1>3. AheadUnplanned(s)'
  <2>1. \A j \in Calls(s)!Attempts : j > cur => j # i
    BY AttemptStarted
  <2>2. flow' # "idle"
    BY AttemptStarted
  <2> QED BY <2>1, <2>2, <1>2 DEF PlanningInv, AheadUnplanned
<1> QED BY <1>1, <1>2, <1>3

\* An attempt that throws, or that its workflow stops to wait for.
LEMMA NextBegins ==
  ASSUME NEW s \in Setups, PlanningInv(s), NEW i \in Calls(s)!Attempts, i <= cur, flow # "idle",
      NEW at \in AttemptStages, Calls(s)!Throws(i, at),
         caller' \in [Calls(s)!Attempts -> [Calls(s)!Planners -> CallRow(s)]],
         \A j \in Calls(s)!Attempts : j # i => caller'[j] = caller[j], plans' = plans
  PROVE  /\ attempt' \in [Calls(s)!Attempts -> AttemptRow(s)]
         /\ flow' \in {"idle", "running", "planned", "skipped", "failed"} /\ cur' \in Calls(s)!Attempts
         /\ AheadUnplanned(s)'
         /\ attempt'[i] = [attempt[i] EXCEPT !.at = at]
         /\ \A j \in Calls(s)!Attempts : j # i => AttemptKept(s, j)'
<1>1. attempt \in [Calls(s)!Attempts -> AttemptRow(s)] /\ cur \in Calls(s)!Attempts
      /\ flow \in {"idle", "running", "planned", "skipped", "failed"}
  BY DEF PlanningInv, CallsTyped
<1>2. MaxAttempts \in Nat /\ Calls(s)!Attempts = 1..MaxAttempts
  BY SetupGiven DEF Calls!Attempts, Calls!ModelCallsAssumption
<1>3. [attempt[i] EXCEPT !.at = at] \in AttemptRow(s) /\ attempt[i] \in AttemptRow(s)
  BY <1>1 DEF AttemptRow
<1>5. Calls(s)!Begins \in AttemptRow(s) /\ Calls(s)!Begins.at = "gather" /\ Calls(s)!Unplanned.at = "off"
  BY BeginsTyped
<1> DEFINE r == [attempt[i] EXCEPT !.at = at]
<1>6. CASE i = cur /\ flow = "running" /\ i < MaxAttempts
  <2>1. cur' = i + 1 /\ flow' = flow /\ attempt' = [attempt EXCEPT ![i].at = at, ![i + 1] = Calls(s)!Begins]
    BY <1>6 DEF Calls!Throws
  <2>2. i + 1 \in Calls(s)!Attempts /\ i + 1 # i
    BY <1>2, <1>6
  <2>3. attempt' = [[attempt EXCEPT ![i] = r] EXCEPT ![i + 1] = Calls(s)!Begins]
    BY <2>1, <2>2, <1>1
  <2> HIDE DEF r
  <2>4. attempt' \in [Calls(s)!Attempts -> AttemptRow(s)] /\ attempt'[i] = r
      /\ attempt'[i + 1] = Calls(s)!Begins
        /\ \A j \in Calls(s)!Attempts : j # i /\ j # i + 1 => attempt'[j] = attempt[j]
    <3>1. r \in AttemptRow(s)
      BY <1>3 DEF r
    <3> QED BY <2>2, <2>3, <3>1, <1>1, <1>5
  <2>5. attempt[i + 1] = Calls(s)!Unplanned
    BY <1>2, <1>6, <2>2 DEF PlanningInv, AheadUnplanned
  <2>6. AheadUnplanned(s)'
    <3>1. \A j \in Calls(s)!Attempts : j > cur' => j > cur /\ j # i /\ j # i + 1
      BY <1>2, <1>6, <2>1
    <3> QED BY <3>1, <2>1, <2>4, <1>6 DEF PlanningInv, AheadUnplanned
  <2>7. AttemptKept(s, i + 1)'
    <3>1. Silent(s, i + 1)
      BY <2>2, <2>5, <1>5 DEF PlanningInv, AttemptsKept, AttemptKept, BeforeCalls
    <3>2. Silent(s, i + 1)'
      BY <3>1, <2>2 DEF Silent
    <3> QED BY <3>2, <2>2, <2>4, <1>5, StillSilent
  <2>8. ASSUME NEW j \in Calls(s)!Attempts, j # i PROVE AttemptKept(s, j)'
    <3>1. CASE j = i + 1
      BY <3>1, <2>7
    <3>2. CASE j # i + 1
      BY <3>2, <2>4, <2>8, AttemptUntouched DEF PlanningInv, AttemptsKept
    <3> QED BY <3>1, <3>2
  <2> QED BY <2>1, <2>2, <2>4, <2>6, <2>8, <1>1 DEF r
<1>7. CASE ~(i = cur /\ flow = "running" /\ i < MaxAttempts)
  <2>1. cur' = cur /\ attempt' = [attempt EXCEPT ![i] = r] /\ flow' \in {flow, "failed"}
    BY <1>7, <1>1 DEF Calls!Throws, Calls!Goto, Calls!Ends
  <2> HIDE DEF r
  <2>2. r \in AttemptRow(s)
    BY <1>3 DEF r
  <2>3. attempt' \in [Calls(s)!Attempts -> AttemptRow(s)] /\ attempt'[i] = r
        /\ \A j \in Calls(s)!Attempts : j # i => attempt'[j] = attempt[j]
    BY <2>1, <2>2, <1>1
  <2>4. AheadUnplanned(s)'
    <3>1. \A j \in Calls(s)!Attempts : j > cur => j # i
      BY <1>1, <1>2
    <3> QED BY <3>1, <2>1, <2>3 DEF PlanningInv, AheadUnplanned
  <2>5. ASSUME NEW j \in Calls(s)!Attempts, j # i PROVE AttemptKept(s, j)'
    BY <2>3, <2>5, AttemptUntouched DEF PlanningInv, AttemptsKept
  <2> QED BY <2>1, <2>3, <2>4, <2>5, <1>1 DEF r
<1> QED BY <1>6, <1>7

\* An attempt that throws after it has called: its departments go on.
LEMMA ThrewKept ==
  ASSUME NEW s \in Setups, PlanningInv(s), NEW i \in Calls(s)!Attempts,
      attempt'[i] = [attempt[i] EXCEPT !.at = "threw"],
         caller'[i] = caller[i], plans' = plans
  PROVE  AttemptKept(s, i)'
<1>1. attempt[i] \in AttemptRow(s)
  BY DEF PlanningInv, CallsTyped
<1>2. attempt'[i].at = "threw" /\ attempt'[i].ctx = attempt[i].ctx /\ attempt'[i].funded = attempt[i].funded
  BY <1>1 DEF AttemptRow
<1>3. \A n \in Calls(s)!Planners : Routed(s, i, n)'
  BY <1>2 DEF PlanningInv, AttemptsKept, AttemptKept, Routed, Calls!Within, MayPlan
<1>4. \A n \in Calls(s)!Planners : Report(s, i, n)' = Report(s, i, n)
  BY DEF Report
<1> QED BY <1>2, <1>3, <1>4, PlannerRoles DEF PlanningInv, AttemptsKept, AttemptKept, BeforeCalls

----------------------------------------------------------------------------
HeartbeatInv(s) == CallsTyped(s) /\ AheadUnplanned(s) /\ AttemptsKept(s) /\ FaultCounted(s)

\* What a step of one attempt must show, when it changes its stage and no fault happens.
LEMMA OneKept ==
  ASSUME NEW s \in Setups, PlanningInv(s), NEW i \in Calls(s)!Attempts, attempt[i].at # "off",
      NEW r \in AttemptRow(s),
         attempt' = [attempt EXCEPT ![i] = r],
         cur' = cur, NEW result \in {"planned", "skipped"}, flow' \in {flow, result},
         caller' \in [Calls(s)!Attempts -> [Calls(s)!Planners -> CallRow(s)]],
         \A j \in Calls(s)!Attempts : j # i => caller'[j] = caller[j], plans \subseteq plans',
         outages' = outages, chat' = chat, AttemptKept(s, i)'
  PROVE  HeartbeatInv(s)'
<1>1. /\ attempt' \in [Calls(s)!Attempts -> AttemptRow(s)]
      /\ flow' \in {"idle", "running", "planned", "skipped", "failed"} /\ cur' \in Calls(s)!Attempts
      /\ AheadUnplanned(s)'
      /\ attempt'[i] = r /\ \A j \in Calls(s)!Attempts : j # i => attempt'[j] = attempt[j]
  BY OneMoves
<1>2. ASSUME NEW j \in Calls(s)!Attempts PROVE AttemptKept(s, j)'
  <2>1. CASE j = i
    BY <2>1
  <2>2. CASE j # i
    BY <2>2, <1>1, AttemptUntouched DEF PlanningInv, AttemptsKept
  <2> QED BY <2>1, <2>2
<1>3. CallsTyped(s)'
  BY <1>1 DEF PlanningInv, CallsTyped
<1>4. FaultCounted(s)'
  BY DEF PlanningInv, FaultCounted
<1> QED BY <1>1, <1>2, <1>3, <1>4 DEF HeartbeatInv, AttemptsKept

\* The steps of an attempt, up to its calls.
LEMMA StepStartHeartbeat ==
  ASSUME NEW s \in Setups PROVE
  PlanningInv(s) /\ Calls(s)!StartHeartbeat => HeartbeatInv(s)'
<1> SUFFICES ASSUME PlanningInv(s), Calls(s)!StartHeartbeat PROVE HeartbeatInv(s)'
  OBVIOUS
<1>1. 1 \in Calls(s)!Attempts /\ Calls(s)!Attempts = 1..MaxAttempts /\ cur \in Calls(s)!Attempts
  BY SetupGiven DEF Calls!Attempts, Calls!ModelCallsAssumption, PlanningInv, CallsTyped
<1>2. attempt \in [Calls(s)!Attempts -> AttemptRow(s)]
  BY DEF PlanningInv, CallsTyped
<1>3. Calls(s)!Begins \in AttemptRow(s) /\ Calls(s)!Begins.at = "gather" /\ Calls(s)!Unplanned.at = "off"
  BY BeginsTyped
<1>4. /\ flow = "idle" /\ flow' = "running" /\ attempt' = [attempt EXCEPT ![1] = Calls(s)!Begins]
      /\ cur' = cur /\ caller' = caller /\ plans' = plans /\ outages' = outages /\ chat' = chat
  BY DEF Calls!StartHeartbeat, Calls!bounds
<1>5. attempt' \in [Calls(s)!Attempts -> AttemptRow(s)] /\ attempt'[1] = Calls(s)!Begins
      /\ \A j \in Calls(s)!Attempts : j # 1 => attempt'[j] = attempt[j]
  BY <1>1, <1>2, <1>3, <1>4
<1>6. attempt[1] = Calls(s)!Unplanned
  BY <1>1, <1>4 DEF PlanningInv, AheadUnplanned
<1>7. AttemptKept(s, 1)'
  <2>1. Silent(s, 1)
    BY <1>1, <1>3, <1>6 DEF PlanningInv, AttemptsKept, AttemptKept, BeforeCalls
  <2>2. Silent(s, 1)'
    BY <2>1, <1>4 DEF Silent
  <2> QED BY <2>2, <1>1, <1>3, <1>5, StillSilent
<1>8. ASSUME NEW j \in Calls(s)!Attempts PROVE AttemptKept(s, j)'
  <2>1. CASE j = 1
    BY <2>1, <1>7
  <2>2. CASE j # 1
    BY <2>2, <1>4, <1>5, AttemptUntouched DEF PlanningInv, AttemptsKept
  <2> QED BY <2>1, <2>2
<1>9. AheadUnplanned(s)'
  BY <1>1, <1>4, <1>5 DEF PlanningInv, AheadUnplanned
<1>10. CallsTyped(s)'
  BY <1>4, <1>5 DEF PlanningInv, CallsTyped
<1>11. FaultCounted(s)'
  BY <1>4 DEF PlanningInv, FaultCounted
<1> QED BY <1>8, <1>9, <1>10, <1>11 DEF HeartbeatInv, AttemptsKept

\* An attempt that moves on before it calls anybody.
LEMMA SilentStep ==
  ASSUME NEW s \in Setups, PlanningInv(s), NEW i \in Calls(s)!Attempts, attempt[i].at \in BeforeCalls,
      attempt[i].at # "off", NEW r \in AttemptRow(s),
         attempt' = [attempt EXCEPT ![i] = r], r.at # "departments", r.at = "read" => MayPlan(r),
         cur' = cur, NEW result \in {"planned", "skipped"}, flow' \in {flow, result},
         caller' = caller, plans' = plans, outages' = outages, chat' = chat
  PROVE  HeartbeatInv(s)'
<1>1. Silent(s, i)'
  BY DEF PlanningInv, AttemptsKept, AttemptKept, Silent
<1>2. attempt'[i] = r
  BY DEF PlanningInv, CallsTyped
<1>3. AttemptKept(s, i)'
  BY <1>1, <1>2, StillSilent
<1>4. caller' \in [Calls(s)!Attempts -> [Calls(s)!Planners -> CallRow(s)]]
  BY DEF PlanningInv, CallsTyped
<1> QED BY <1>3, <1>4, OneKept

\* It reads its context,
LEMMA StepGather ==
  ASSUME NEW s \in Setups, PlanningInv(s), NEW i \in Calls(s)!Attempts, Calls(s)!GatherContext(i)
  PROVE  HeartbeatInv(s)'
<1>1. PICK found \in Setup[s].contexts, balance \in Setup[s].wallets :
        attempt' = [attempt EXCEPT ![i].at = "guard", ![i].ctx = [found EXCEPT !.balance = balance]]
  BY DEF Calls!GatherContext
<1>2. found \in Calls(s)!Context /\ balance \in Int
  BY SetupGiven DEF Calls!ModelCallsAssumption
<1>3. [found EXCEPT !.balance = balance] \in Calls(s)!Context
  BY <1>2 DEF Calls!Context
<1>4. attempt[i] \in AttemptRow(s)
  BY DEF PlanningInv, CallsTyped
<1> DEFINE c == [found EXCEPT !.balance = balance]
           a == [attempt[i] EXCEPT !.at = "guard"]
           r == [a EXCEPT !.ctx = c]
<1>5. a \in AttemptRow(s) /\ a.at = "guard"
  BY <1>4 DEF AttemptRow, AttemptStages
<1>6. attempt' = [attempt EXCEPT ![i] = r]
  BY <1>1 DEF PlanningInv, CallsTyped
<1> HIDE DEF a, c
<1>7. c \in Calls(s)!Context
  BY <1>3 DEF c
<1>8. r \in AttemptRow(s) /\ r.at = "guard"
  BY <1>5, <1>7 DEF AttemptRow
<1> HIDE DEF r
<1> QED BY <1>6, <1>8, SilentStep DEF Calls!GatherContext, BeforeCalls, Calls!bounds

\* stops for a launch playbook that has not run,
LEMMA StepFirstResults ==
  ASSUME NEW s \in Setups, PlanningInv(s), NEW i \in Calls(s)!Attempts, Calls(s)!AwaitsFirstResults(i)
  PROVE  HeartbeatInv(s)'
<1>1. attempt[i] \in AttemptRow(s)
  BY DEF PlanningInv, CallsTyped
<1> DEFINE r == [attempt[i] EXCEPT !.at = "done"]
<1>2. r \in AttemptRow(s) /\ r.at = "done"
  BY <1>1 DEF AttemptRow, AttemptStages
<1>3. attempt' = [attempt EXCEPT ![i] = r]
  BY <1>1 DEF Calls!AwaitsFirstResults, Calls!Goto
<1>4. flow' \in {flow, "skipped"}
  BY DEF Calls!AwaitsFirstResults, Calls!Ends
<1> HIDE DEF r
<1> QED BY <1>2, <1>3, <1>4, SilentStep DEF Calls!AwaitsFirstResults, BeforeCalls, Calls!bounds

\* reads the wallet again,
LEMMA StepReinvest ==
  ASSUME NEW s \in Setups, PlanningInv(s), NEW i \in Calls(s)!Attempts, Calls(s)!Reinvest(i)
  PROVE  HeartbeatInv(s)'
<1>1. attempt[i] \in AttemptRow(s) /\ attempt[i].ctx \in Calls(s)!Context
  BY DEF PlanningInv, CallsTyped, AttemptRow
<1>2. PICK balance \in Setup[s].wallets :
        attempt' = [attempt EXCEPT ![i].at = "read", ![i].funded = (balance >= Estimate)]
  BY DEF Calls!Reinvest
<1> DEFINE a == [attempt[i] EXCEPT !.at = "read"]
           enough == balance >= Estimate
           r == [a EXCEPT !.funded = enough]
<1>7. enough \in BOOLEAN
  OBVIOUS
<1>3. a \in AttemptRow(s) /\ a.ctx = attempt[i].ctx /\ a.at = "read"
  BY <1>1 DEF AttemptRow, AttemptStages
<1>4. attempt' = [attempt EXCEPT ![i] = r]
  BY <1>2 DEF PlanningInv, CallsTyped
<1> HIDE DEF a, enough
<1>5. r \in AttemptRow(s) /\ r.ctx = attempt[i].ctx /\ r.at = "read"
  BY <1>3, <1>7 DEF AttemptRow
<1> HIDE DEF r
<1>6. MayPlan(r)
  BY <1>1, <1>5 DEF Calls!Reinvest, MayPlan, Calls!Context
<1> QED BY <1>4, <1>5, <1>6, SilentStep DEF Calls!Reinvest, BeforeCalls, Calls!bounds

\* stops for want of credits,
LEMMA StepOutOfCredits ==
  ASSUME NEW s \in Setups, PlanningInv(s), NEW i \in Calls(s)!Attempts, Calls(s)!OutOfCredits(i)
  PROVE  HeartbeatInv(s)'
<1>1. attempt[i] \in AttemptRow(s)
  BY DEF PlanningInv, CallsTyped
<1> DEFINE r == [attempt[i] EXCEPT !.at = "done"]
<1>2. r \in AttemptRow(s) /\ r.at = "done"
  BY <1>1 DEF AttemptRow, AttemptStages
<1>3. attempt' = [attempt EXCEPT ![i] = r]
  BY <1>1 DEF Calls!OutOfCredits, Calls!Goto
<1>4. flow' \in {flow, "skipped"}
  BY DEF Calls!OutOfCredits, Calls!Ends
<1> HIDE DEF r
<1> QED BY <1>2, <1>3, <1>4, SilentStep DEF Calls!OutOfCredits, BeforeCalls, Calls!bounds

\* or asks its departments, each for the tier that its context routes it to.
LEMMA StepFanOut ==
  ASSUME NEW s \in Setups, PlanningInv(s), NEW i \in Calls(s)!Attempts, Calls(s)!FanOut(i)
  PROVE  HeartbeatInv(s)'
<1>1. attempt[i] \in AttemptRow(s) /\ attempt[i].ctx \in Calls(s)!Context /\ attempt[i].funded
    /\ attempt[i].at = "read"
  BY DEF PlanningInv, CallsTyped, AttemptRow, Calls!FanOut
<1>2. MayPlan(attempt[i])
  BY <1>1 DEF PlanningInv, AttemptsKept, AttemptKept
<1> DEFINE r == [attempt[i] EXCEPT !.at = "departments"]
           f == [n \in Calls(s)!Planners |->
                    IF n \in Setup[s].departments
                      THEN Calls(s)!Asks(Calls(s)!RouteOf(n, attempt[i].ctx)) ELSE Calls(s)!Off]
<1>3. r \in AttemptRow(s) /\ r.at = "departments" /\ r.ctx = attempt[i].ctx /\ r.funded
  BY <1>1 DEF AttemptRow, AttemptStages
<1>4. attempt' = [attempt EXCEPT ![i] = r] /\ caller' = [caller EXCEPT ![i] = f]
  BY DEF Calls!FanOut, Calls!Goto, PlanningInv, CallsTyped
<1>5. ASSUME NEW n \in Calls(s)!Planners
      PROVE  /\ f[n] \in CallRow(s) /\ f[n].at \in {"off", "call"} /\ ~f[n].degraded
             /\ n \notin Setup[s].departments => f[n] = Calls(s)!Off
             /\ f[n].at # "off" => Calls(s)!Within(n, f[n], attempt[i].ctx)
  <2>1. CASE n \in Setup[s].departments
    <3> DEFINE t == Calls(s)!RouteOf(n, attempt[i].ctx)
    <3>1. /\ t \in TierNames /\ t # "frontier"
          /\ attempt[i].ctx.balance < StandardMin => t = "mini"
      BY <2>1, <1>1, PlannersRouted
    <3>2. f[n] = Calls(s)!Asks(t)
      BY <2>1
    <3> HIDE DEF f, t
    <3> QED BY <2>1, <3>1, <3>2, AskingTyped, PlannerRoles DEF Calls!Within
  <2>2. CASE n \notin Setup[s].departments
    BY <2>2, OffTyped
  <2> QED BY <2>1, <2>2
<1>6. f \in [Calls(s)!Planners -> CallRow(s)]
  BY <1>5
<1> HIDE DEF f, r
<1>7. /\ caller' \in [Calls(s)!Attempts -> [Calls(s)!Planners -> CallRow(s)]] /\ caller'[i] = f
      /\ \A j \in Calls(s)!Attempts : j # i => caller'[j] = caller[j]
  BY <1>4, <1>6 DEF PlanningInv, CallsTyped
<1>8. attempt'[i] = r
  BY <1>3, <1>4 DEF PlanningInv, CallsTyped
<1>9. AttemptKept(s, i)'
  <2>1. \A n \in Calls(s)!Planners : Routed(s, i, n)'
    BY <1>2, <1>3, <1>5, <1>7, <1>8 DEF Routed, MayPlan, CallAsked, Calls!Within
  <2>2. attempt'[i].at = "departments" /\ caller'[i]["ceo"] = Calls(s)!Off /\ attempt'[i].funded
    BY <1>3, <1>5, <1>7, <1>8, PlannerRoles
  <2>4. MayPlan(attempt[i])'
    BY <1>2, <1>3, <1>8 DEF MayPlan
  <2>3. \A d \in Setup[s].departments : caller'[i][d].at # "done"
    BY <1>5, <1>7, PlannerRoles
  <2> QED BY <2>1, <2>2, <2>3, <2>4, OffTyped DEF AttemptKept, BeforeCalls
<1>10. plans' = plans /\ cur' = cur /\ flow' = flow /\ outages' = outages /\ chat' = chat
  BY DEF Calls!FanOut, Calls!bounds
<1> QED BY <1>1, <1>3, <1>4, <1>7, <1>9, <1>10, OneKept

\* One planner's call moves on.
LEMMA CallerStep ==
  ASSUME NEW s \in Setups, PlanningInv(s), NEW i \in Calls(s)!Attempts, NEW n \in Calls(s)!Planners,
      NEW r \in CallRow(s), caller[i][n].at # "off",
         caller' = [caller EXCEPT ![i][n] = r], attempt' = attempt, cur' = cur, flow' = flow,
         plans \subseteq plans', outages' = outages, chat' = chat,
         AttemptKept(s, i)'
  PROVE  HeartbeatInv(s)'
<1>1. attempt[i] \in AttemptRow(s) /\ caller \in [Calls(s)!Attempts -> [Calls(s)!Planners -> CallRow(s)]]
      /\ attempt \in [Calls(s)!Attempts -> AttemptRow(s)]
  BY DEF PlanningInv, CallsTyped
<1>2. attempt[i].at # "off"
  BY OffTyped DEF PlanningInv, AttemptsKept, AttemptKept, BeforeCalls, Silent
<1>3. attempt' = [attempt EXCEPT ![i] = attempt[i]]
  BY <1>1
<1>4. caller' \in [Calls(s)!Attempts -> [Calls(s)!Planners -> CallRow(s)]]
      /\ \A j \in Calls(s)!Attempts : j # i => caller'[j] = caller[j]
  BY <1>1
<1> QED BY <1>1, <1>2, <1>3, <1>4, OneKept

\* The work that comes of a call; the CEO's stand-in finds some for an idle company.
LEMMA WorkTyped ==
  ASSUME NEW s \in Setups, PlanningInv(s), NEW i \in Calls(s)!Attempts, NEW n \in Calls(s)!Planners,
      NEW c, NEW work \in Calls(s)!WorkOf(i, n, c)
  PROVE  /\ work \in Works(s)
         /\ n = "ceo" /\ c.at # "usable" /\ attempt[i].ctx.queued = 0 => work # {}
<1>1. CASE c.at = "usable"
  BY <1>1, ProposalsTyped DEF Calls!WorkOf
<1>2. CASE c.at # "usable" /\ n \in Setup[s].departments
  BY <1>2, StandInsTyped, PlannerRoles DEF Calls!WorkOf
<1>3. CASE c.at # "usable" /\ n \notin Setup[s].departments
  <2> DEFINE proposed == UNION {caller[i][d].work : d \in Setup[s].departments}
  <2>1. caller[i] \in [Calls(s)!Planners -> CallRow(s)]
    BY DEF PlanningInv, CallsTyped
  <2>2. proposed \in Works(s)
    BY <2>1, ProposedTyped
  <2>3. work \in Calls(s)!fallbackPlans(attempt[i].ctx, proposed)
    BY <1>3 DEF Calls!WorkOf
  <2> HIDE DEF proposed
  <2> QED BY <2>2, <2>3, FallbackKept
<1> QED BY <1>1, <1>2, <1>3

\* A call is answered, tried again, repaired, or given up for its stand-in.
LEMMA StepCallModel ==
  ASSUME NEW s \in Setups, PlanningInv(s), NEW i \in Calls(s)!Attempts, NEW n \in Calls(s)!Planners,
      Calls(s)!CallModel(i, n)
  PROVE  HeartbeatInv(s)'
<1> DEFINE c0 == caller[i][n]
<1>1. /\ c0 \in CallRow(s) /\ c0.at \in {"call", "repair"} /\ c0.at # "off"
      /\ caller \in [Calls(s)!Attempts -> [Calls(s)!Planners -> CallRow(s)]]
  BY DEF PlanningInv, CallsTyped, Calls!CallModel, Calls!Calling
<1>2. Routed(s, i, n)
  BY DEF PlanningInv, AttemptsKept, AttemptKept
<1>3. c0.tier = c0.base /\ ~c0.degraded
  BY <1>1, <1>2 DEF Routed, Calls!Within
<1>4. PICK c \in Calls(s)!Answers(c0) :
        IF Calls(s)!Calling(c) THEN Calls(s)!Sets(i, n, c)
        ELSE \E work \in Calls(s)!WorkOf(i, n, c) :
               Calls(s)!Sets(i, n, [c EXCEPT !.at = "append", !.work = work, !.degraded = (c.at = "failed")])
  BY DEF Calls!CallModel
<1> HIDE DEF c0
<1>5. /\ c \in CallRow(s) /\ c.tier = c0.tier /\ c.base = c0.base /\ c.work = c0.work
    /\ c.degraded = c0.degraded
      /\ c.at \in {"call", "repair", "usable", "failed"}
  BY <1>1, <1>3, AnswersTyped
<1>6. PICK r \in CallRow(s) :
        /\ caller' = [caller EXCEPT ![i][n] = r] /\ r.tier = c0.tier /\ r.base = c0.base
        /\ r.at \in {"call", "repair", "append"}
        /\ r.at # "append" => ~r.degraded
        /\ n = "ceo" /\ r.degraded /\ attempt[i].ctx.queued = 0 => r.work # {}
  <2>1. CASE Calls(s)!Calling(c)
    BY <2>1, <1>3, <1>4, <1>5 DEF Calls!Calling, Calls!Sets
  <2>2. CASE ~Calls(s)!Calling(c)
    <3>1. PICK work \in Calls(s)!WorkOf(i, n, c) :
            caller' = [caller EXCEPT ![i][n] =
                         [c EXCEPT !.at = "append", !.work = work, !.degraded = (c.at = "failed")]]
      BY <2>2, <1>4 DEF Calls!Sets
    <3>2. work \in Works(s) /\ (n = "ceo" /\ c.at # "usable" /\ attempt[i].ctx.queued = 0 => work # {})
      BY WorkTyped
    <3> DEFINE degraded == c.at = "failed"
               a == [c EXCEPT !.at = "append"]
               b == [a EXCEPT !.work = work]
               r == [b EXCEPT !.degraded = degraded]
    <3>3. degraded \in BOOLEAN /\ (degraded => c.at # "usable")
      OBVIOUS
    <3>4. a \in CallRow(s) /\ a.at = "append" /\ a.tier = c.tier /\ a.base = c.base
      BY <1>5 DEF CallRow, CallAsked
    <3>5. caller' = [caller EXCEPT ![i][n] = r]
      BY <3>1
    <3> HIDE DEF degraded, a
    <3>6. b \in CallRow(s) /\ b.at = "append" /\ b.tier = c.tier /\ b.base = c.base /\ b.work = work
      BY <3>2, <3>4 DEF CallRow
    <3> HIDE DEF b
    <3>7. /\ r \in CallRow(s) /\ r.at = "append" /\ r.tier = c.tier /\ r.base = c.base /\ r.work = work
          /\ r.degraded = degraded
      BY <3>3, <3>6 DEF CallRow
    <3> HIDE DEF r
    <3> QED BY <3>2, <3>3, <3>5, <3>7, <1>5
  <2> QED BY <2>1, <2>2
<1>7. /\ caller'[i][n] = r /\ \A m \in Calls(s)!Planners : m # n => caller'[i][m] = caller[i][m]
  BY <1>1, <1>6
<1>8. attempt' = attempt /\ cur' = cur /\ flow' = flow /\ plans' = plans /\ outages' = outages
    /\ chat' = chat
  BY DEF Calls!CallModel, Calls!bounds
<1>9. AttemptKept(s, i)
  BY DEF PlanningInv, AttemptsKept
<1>10. attempt[i].at \notin BeforeCalls
  BY <1>1, <1>9, OffTyped DEF AttemptKept, Silent, c0
<1>11. \A m \in Calls(s)!Planners : Routed(s, i, m)'
  <2>1. Routed(s, i, n)'
    BY <1>1, <1>2, <1>6, <1>7, <1>8 DEF Routed, Calls!Within, MayPlan, CallAsked, c0
  <2>2. ASSUME NEW m \in Calls(s)!Planners, m # n PROVE Routed(s, i, m)'
    BY <2>2, <1>7, <1>8, <1>9 DEF AttemptKept, Routed, MayPlan, Calls!Within
  <2> QED BY <2>1, <2>2
<1>12. \A d \in Setup[s].departments : caller'[i][d].at = "done" => Report(s, i, d)' \in plans'
  <2>1. ASSUME NEW d \in Setup[s].departments, caller'[i][d].at = "done" PROVE Report(s, i, d)' \in plans'
    <3>1. d # n /\ d \in Calls(s)!Planners
      BY <2>1, <1>6, <1>7, PlannerRoles
    <3>2. caller'[i][d] = caller[i][d]
      BY <3>1, <1>7
    <3> QED BY <2>1, <3>2, <1>8, <1>9 DEF AttemptKept, Report
  <2> QED BY <2>1
<1>13. AttemptKept(s, i)'
  <2>1. CASE n = "ceo"
    <3>1. \A d \in Setup[s].departments : caller'[i][d] = caller[i][d]
      BY <2>1, <1>7, PlannerRoles
    <3>2. attempt[i].at \notin {"departments", "done"}
      BY <2>1, <1>1, <1>9, OffTyped DEF AttemptKept, c0
    <3>3. \A d \in Setup[s].departments : caller[i][d].at = "done"
      BY <2>1, <1>1, <1>9 DEF AttemptKept, c0
    <3>4. caller'[i]["ceo"].degraded /\ attempt[i].ctx.queued = 0 => caller'[i]["ceo"].work # {}
      BY <2>1, <1>6, <1>7
    <3> QED BY <3>1, <3>2, <3>3, <3>4, <1>8, <1>10, <1>11, <1>12 DEF AttemptKept, BeforeCalls
  <2>2. CASE n # "ceo"
    <3>1. caller'[i]["ceo"] = caller[i]["ceo"]
      BY <2>2, <1>7, PlannerRoles
    <3>2. n \in Setup[s].departments
      BY <2>2 DEF Calls!Planners
    <3>3. caller[i]["ceo"].at = "off"
      BY <3>2, <1>1, <1>9 DEF AttemptKept, c0
    <3> QED BY <3>1, <3>3, <1>8, <1>9, <1>10, <1>11, <1>12 DEF AttemptKept
  <2> QED BY <2>1, <2>2
<1> QED BY <1>1, <1>6, <1>8, <1>13, CallerStep DEF c0

\* A report is public before its department is done,
LEMMA StepLogReport ==
  ASSUME NEW s \in Setups, PlanningInv(s), NEW i \in Calls(s)!Attempts, NEW d \in Setup[s].departments,
      Calls(s)!LogReport(i, d)
  PROVE  HeartbeatInv(s)'
<1> DEFINE c0 == caller[i][d]
           r == [c0 EXCEPT !.at = "done"]
<1>1. /\ d \in Calls(s)!Planners /\ d # "ceo"
      /\ c0 \in CallRow(s) /\ c0.at = "append"
          /\ caller \in [Calls(s)!Attempts -> [Calls(s)!Planners -> CallRow(s)]]
  BY PlannerRoles DEF PlanningInv, CallsTyped, Calls!LogReport
<1>2. r \in CallRow(s) /\ r.at = "done" /\ r.tier = c0.tier /\ r.base = c0.base /\ r.degraded = c0.degraded
  BY <1>1 DEF CallRow, CallAsked
<1>3. caller' = [caller EXCEPT ![i][d] = r]
  BY DEF Calls!LogReport, Calls!Sets
<1> HIDE DEF r
<1>4. caller'[i][d] = r /\ \A m \in Calls(s)!Planners : m # d => caller'[i][m] = caller[i][m]
  BY <1>1, <1>3
<1>5. attempt' = attempt /\ cur' = cur /\ flow' = flow /\ outages' = outages /\ chat' = chat
  BY DEF Calls!LogReport, Calls!bounds
<1>6. plans' = plans \cup {Report(s, i, d)}
  BY DEF Calls!LogReport, Calls!Append, Report
<1>7. AttemptKept(s, i)
  BY DEF PlanningInv, AttemptsKept
<1>8. \A m \in Calls(s)!Planners : Routed(s, i, m)'
  <2>1. Routed(s, i, d)'
    BY <1>1, <1>2, <1>4, <1>5, <1>7 DEF AttemptKept, Routed, Calls!Within, MayPlan, CallAsked
  <2>2. ASSUME NEW m \in Calls(s)!Planners, m # d PROVE Routed(s, i, m)'
    BY <2>2, <1>4, <1>5, <1>7 DEF AttemptKept, Routed, MayPlan, Calls!Within
  <2> QED BY <2>1, <2>2
<1>9. attempt[i].at \notin BeforeCalls
  BY <1>1, <1>7, OffTyped DEF AttemptKept, Silent
<1>10. \A e \in Setup[s].departments : caller'[i][e].at = "done" => Report(s, i, e)' \in plans'
  <2>1. ASSUME NEW e \in Setup[s].departments, caller'[i][e].at = "done" PROVE Report(s, i, e)' \in plans'
    <3>1. CASE e = d
      BY <3>1, <1>2, <1>4, <1>6 DEF Report
    <3>2. CASE e # d
      BY <3>2, <2>1, <1>4, <1>6, <1>7, PlannerRoles DEF AttemptKept, Report
    <3> QED BY <3>1, <3>2
  <2> QED BY <2>1
<1>11. caller'[i]["ceo"] = caller[i]["ceo"] /\ caller[i]["ceo"].at = "off"
  BY <1>1, <1>4, <1>7, PlannerRoles DEF AttemptKept
<1>12. AttemptKept(s, i)'
  BY <1>5, <1>7, <1>8, <1>9, <1>10, <1>11 DEF AttemptKept, BeforeCalls
<1> QED BY <1>1, <1>2, <1>3, <1>5, <1>6, <1>12, CallerStep

\* all of them are before the CEO is asked,
LEMMA StepSynthesize ==
  ASSUME NEW s \in Setups, PlanningInv(s), NEW i \in Calls(s)!Attempts, Calls(s)!Synthesize(i)
  PROVE  HeartbeatInv(s)'
<1>1. /\ attempt[i] \in AttemptRow(s) /\ attempt[i].ctx \in Calls(s)!Context
    /\ attempt[i].at = "departments"
      /\ caller \in [Calls(s)!Attempts -> [Calls(s)!Planners -> CallRow(s)]]
          /\ \A d \in Setup[s].departments : caller[i][d].at = "done"
  BY DEF PlanningInv, CallsTyped, AttemptRow, Calls!Synthesize
<1> DEFINE a == [attempt[i] EXCEPT !.at = "synthesis"]
           t == Calls(s)!RouteOf("ceo", attempt[i].ctx)
           r == Calls(s)!Asks(t)
<1>2. a \in AttemptRow(s) /\ a.at = "synthesis" /\ a.ctx = attempt[i].ctx /\ a.funded = attempt[i].funded
  BY <1>1 DEF AttemptRow, AttemptStages
<1>3. attempt' = [attempt EXCEPT ![i] = a] /\ caller' = [caller EXCEPT ![i]["ceo"] = r]
  BY DEF Calls!Synthesize, Calls!Goto, Calls!Sets, PlanningInv, CallsTyped
<1>4. /\ t \in TierNames
      /\ attempt[i].ctx.balance < StandardMin => t = "mini"
      /\ attempt[i].ctx.balance < FrontierMin /\ attempt[i].ctx.revenue = 0 => t # "frontier"
      /\ Calls(s)!contextStakes(attempt[i].ctx) = "high" /\ attempt[i].ctx.balance >= StandardMin =>
          t # "mini"
  BY <1>1, PlannersRouted, PlannerRoles
<1> HIDE DEF a, t
<1>5. r \in CallRow(s) /\ r.at = "call" /\ ~r.degraded /\ r.tier = t /\ r.base = t
  BY <1>4, AskingTyped
<1> HIDE DEF r
<1>6. /\ caller'[i]["ceo"] = r /\ \A d \in Setup[s].departments : caller'[i][d] = caller[i][d]
      /\ caller' \in [Calls(s)!Attempts -> [Calls(s)!Planners -> CallRow(s)]]
      /\ \A j \in Calls(s)!Attempts : j # i => caller'[j] = caller[j]
  BY <1>1, <1>3, <1>5, PlannerRoles
<1>7. attempt'[i] = a
  BY <1>2, <1>3 DEF PlanningInv, CallsTyped
<1>8. plans' = plans /\ cur' = cur /\ flow' = flow /\ outages' = outages /\ chat' = chat
  BY DEF Calls!Synthesize, Calls!bounds
<1>9. AttemptKept(s, i)
  BY DEF PlanningInv, AttemptsKept
<1>10. \A m \in Calls(s)!Planners : Routed(s, i, m)'
  <2>1. Routed(s, i, "ceo")'
    BY <1>1, <1>2, <1>4, <1>5, <1>6, <1>7, <1>9, PlannerRoles DEF AttemptKept, Routed, Calls!Within,
        MayPlan, CallAsked
  <2>2. ASSUME NEW m \in Setup[s].departments PROVE Routed(s, i, m)'
    BY <1>2, <1>6, <1>7, <1>9, PlannerRoles DEF AttemptKept, Routed, MayPlan, Calls!Within
  <2> QED BY <2>1, <2>2 DEF Calls!Planners
<1>11. \A d \in Setup[s].departments : caller'[i][d].at = "done" /\ Report(s, i, d)' \in plans'
  BY <1>1, <1>6, <1>8, <1>9 DEF AttemptKept, Report
<1>12. AttemptKept(s, i)'
  BY <1>2, <1>5, <1>6, <1>7, <1>10, <1>11 DEF AttemptKept, BeforeCalls
<1> QED BY <1>1, <1>2, <1>3, <1>6, <1>8, <1>12, OneKept

\* and the plan is before the attempt is done.
LEMMA StepLogPlan ==
  ASSUME NEW s \in Setups, PlanningInv(s), NEW i \in Calls(s)!Attempts, Calls(s)!LogPlan(i)
  PROVE  HeartbeatInv(s)'
<1> DEFINE c0 == caller[i]["ceo"]
           r == [c0 EXCEPT !.at = "done"]
           a == [attempt[i] EXCEPT !.at = "done"]
<1>1. /\ attempt[i] \in AttemptRow(s) /\ attempt[i].at = "synthesis"
      /\ c0 \in CallRow(s) /\ c0.at = "append"
          /\ caller \in [Calls(s)!Attempts -> [Calls(s)!Planners -> CallRow(s)]]
  BY PlannerRoles DEF PlanningInv, CallsTyped, Calls!LogPlan
<1>2. r \in CallRow(s) /\ r.at = "done" /\ r.tier = c0.tier /\ r.base = c0.base /\ r.degraded = c0.degraded
      /\ r.work = c0.work
  BY <1>1 DEF CallRow, CallAsked
<1>3. a \in AttemptRow(s) /\ a.at = "done" /\ a.ctx = attempt[i].ctx /\ a.funded = attempt[i].funded
  BY <1>1 DEF AttemptRow, AttemptStages
<1>4. attempt' = [attempt EXCEPT ![i] = a] /\ caller' = [caller EXCEPT ![i]["ceo"] = r]
  BY DEF Calls!LogPlan, Calls!Goto, Calls!Sets, PlanningInv, CallsTyped
<1> HIDE DEF r, a
<1>5. /\ caller'[i]["ceo"] = r /\ \A d \in Setup[s].departments : caller'[i][d] = caller[i][d]
      /\ caller' \in [Calls(s)!Attempts -> [Calls(s)!Planners -> CallRow(s)]]
      /\ \A j \in Calls(s)!Attempts : j # i => caller'[j] = caller[j]
  BY <1>1, <1>2, <1>4, PlannerRoles
<1>6. attempt'[i] = a
  BY <1>3, <1>4 DEF PlanningInv, CallsTyped
<1>7. plans' = plans \cup {Report(s, i, "ceo")} /\ cur' = cur /\ outages' = outages /\ chat' = chat
  BY DEF Calls!LogPlan, Calls!Append, Report, Calls!bounds
<1>8. flow' \in {flow, "planned"}
  BY DEF Calls!LogPlan, Calls!Ends
<1>9. AttemptKept(s, i)
  BY DEF PlanningInv, AttemptsKept
<1>10. \A m \in Calls(s)!Planners : Routed(s, i, m)'
  <2>1. Routed(s, i, "ceo")'
    BY <1>1, <1>2, <1>3, <1>5, <1>6, <1>9, PlannerRoles DEF AttemptKept, Routed, Calls!Within, MayPlan,
        CallAsked
  <2>2. ASSUME NEW m \in Setup[s].departments PROVE Routed(s, i, m)'
    BY <1>3, <1>5, <1>6, <1>9, PlannerRoles DEF AttemptKept, Routed, MayPlan, Calls!Within
  <2> QED BY <2>1, <2>2 DEF Calls!Planners
<1>11. \A d \in Setup[s].departments : caller'[i][d].at = "done" => Report(s, i, d)' \in plans'
  BY <1>5, <1>7, <1>9 DEF AttemptKept, Report
<1>12. \A d \in Setup[s].departments : caller'[i][d].at = "done"
  BY <1>1, <1>5, <1>9 DEF AttemptKept
<1>13. caller'[i]["ceo"].at = "done" /\ Report(s, i, "ceo")' \in plans'
  BY <1>2, <1>5, <1>7 DEF Report
<1>14. caller'[i]["ceo"].degraded /\ attempt'[i].ctx.queued = 0 => caller'[i]["ceo"].work # {}
  BY <1>2, <1>3, <1>5, <1>6, <1>9 DEF AttemptKept
<1>15. AttemptKept(s, i)'
  BY <1>3, <1>6, <1>10, <1>11, <1>12, <1>13, <1>14 DEF AttemptKept, BeforeCalls
<1> QED BY <1>1, <1>3, <1>4, <1>5, <1>7, <1>8, <1>15, OneKept

----------------------------------------------------------------------------
\* What a step that throws must show of the attempt itself.
LEMMA ThrowStep ==
  ASSUME NEW s \in Setups, PlanningInv(s), NEW i \in Calls(s)!Attempts, i <= cur, flow # "idle",
      NEW at \in AttemptStages, Calls(s)!Throws(i, at), Calls(s)!AFault,
         caller' \in [Calls(s)!Attempts -> [Calls(s)!Planners -> CallRow(s)]],
         \A j \in Calls(s)!Attempts : j # i => caller'[j] = caller[j], plans' = plans, chat' = chat,
         attempt'[i] = [attempt[i] EXCEPT !.at = at] => AttemptKept(s, i)'
  PROVE  HeartbeatInv(s)'
<1>1. /\ attempt' \in [Calls(s)!Attempts -> AttemptRow(s)]
      /\ flow' \in {"idle", "running", "planned", "skipped", "failed"} /\ cur' \in Calls(s)!Attempts
      /\ AheadUnplanned(s)'
      /\ attempt'[i] = [attempt[i] EXCEPT !.at = at]
      /\ \A j \in Calls(s)!Attempts : j # i => AttemptKept(s, j)'
  BY NextBegins
<1>2. outages' \in Nat /\ outages' > 0
  BY DEF Calls!AFault, PlanningInv, CallsTyped
<1>3. CallsTyped(s)'
  BY <1>1, <1>2 DEF PlanningInv, CallsTyped
<1>4. FaultCounted(s)'
  BY <1>2 DEF FaultCounted
<1>5. AttemptsKept(s)'
  BY <1>1 DEF AttemptsKept
<1> QED BY <1>1, <1>3, <1>4, <1>5 DEF HeartbeatInv

\* A lost report fails its attempt, whose other departments go on.
LEMMA StepReportLost ==
  ASSUME NEW s \in Setups, PlanningInv(s), NEW i \in Calls(s)!Attempts, NEW d \in Setup[s].departments,
      Calls(s)!ReportLost(i, d)
  PROVE  HeartbeatInv(s)'
<1> DEFINE c0 == caller[i][d]
           r == [c0 EXCEPT !.at = "lost"]
<1>1. /\ d \in Calls(s)!Planners /\ d # "ceo" /\ attempt[i] \in AttemptRow(s)
      /\ c0 \in CallRow(s) /\ c0.at = "append"
          /\ caller \in [Calls(s)!Attempts -> [Calls(s)!Planners -> CallRow(s)]]
  BY PlannerRoles DEF PlanningInv, CallsTyped, Calls!ReportLost
<1>2. r \in CallRow(s) /\ r.at = "lost" /\ r.tier = c0.tier /\ r.base = c0.base /\ r.degraded = c0.degraded
  BY <1>1 DEF CallRow, CallAsked
<1>3. caller' = [caller EXCEPT ![i][d] = r]
  BY DEF Calls!ReportLost, Calls!Sets
<1> HIDE DEF r
<1>4. caller'[i][d] = r /\ (\A m \in Calls(s)!Planners : m # d => caller'[i][m] = caller[i][m])
      /\ caller' \in [Calls(s)!Attempts -> [Calls(s)!Planners -> CallRow(s)]]
      /\ \A j \in Calls(s)!Attempts : j # i => caller'[j] = caller[j]
  BY <1>1, <1>2, <1>3
<1>5. AttemptKept(s, i)
  BY DEF PlanningInv, AttemptsKept
<1>6. attempt[i].at # "off"
  BY <1>1, <1>5, OffTyped DEF AttemptKept, Silent, BeforeCalls
<1>7. ASSUME attempt'[i] = [attempt[i] EXCEPT !.at = "threw"] PROVE AttemptKept(s, i)'
  <2>1. attempt'[i].at = "threw" /\ attempt'[i].ctx = attempt[i].ctx
      /\ attempt'[i].funded = attempt[i].funded
    BY <1>1, <1>7 DEF AttemptRow
  <2>2. Routed(s, i, d)'
    BY <1>1, <1>2, <1>4, <1>5, <2>1 DEF AttemptKept, Routed, Calls!Within, MayPlan, CallAsked
  <2>3. ASSUME NEW m \in Calls(s)!Planners, m # d PROVE Routed(s, i, m)'
    BY <2>1, <2>3, <1>4, <1>5 DEF AttemptKept, Routed, MayPlan, Calls!Within
  <2>4. ASSUME NEW e \in Setup[s].departments, caller'[i][e].at = "done" PROVE Report(s, i, e)' \in plans'
    <3>1. e # d
      BY <2>4, <1>2, <1>4
    <3> QED BY <3>1, <2>4, <1>4, <1>5, PlannerRoles DEF AttemptKept, Report, Calls!ReportLost
  <2>5. caller'[i]["ceo"] = caller[i]["ceo"] /\ caller[i]["ceo"].at = "off"
    BY <1>1, <1>4, <1>5, PlannerRoles DEF AttemptKept
  <2> QED BY <2>1, <2>2, <2>3, <2>4, <2>5, <1>5 DEF AttemptKept, BeforeCalls
<1>8. Calls(s)!Throws(i, "threw") /\ Calls(s)!AFault /\ plans' = plans /\ chat' = chat
    /\ "threw" \in AttemptStages
  BY DEF Calls!ReportLost, AttemptStages
<1> QED BY <1>4, <1>6, <1>7, <1>8, AttemptStarted, ThrowStep

\* The attempt fails outside its departments,
LEMMA StepAttemptFails ==
  ASSUME NEW s \in Setups, PlanningInv(s), NEW i \in Calls(s)!Attempts, Calls(s)!AttemptFails(i)
  PROVE  HeartbeatInv(s)'
<1>1. attempt[i].at # "off"
  BY DEF Calls!AttemptFails
<1>2. /\ Calls(s)!Throws(i, "threw") /\ Calls(s)!AFault /\ plans' = plans /\ chat' = chat
    /\ caller' = caller
      /\ "threw" \in AttemptStages
  BY DEF Calls!AttemptFails, AttemptStages
<1>3. caller' \in [Calls(s)!Attempts -> [Calls(s)!Planners -> CallRow(s)]]
  BY <1>2 DEF PlanningInv, CallsTyped
<1> QED BY <1>1, <1>2, <1>3, AttemptStarted, ThrewKept, ThrowStep

\* or outlives its timeout and goes on unattended.
LEMMA StepTimeout ==
  ASSUME NEW s \in Setups PROVE
  PlanningInv(s) /\ Calls(s)!Timeout => HeartbeatInv(s)'
<1> SUFFICES ASSUME PlanningInv(s), Calls(s)!Timeout PROVE HeartbeatInv(s)'
  OBVIOUS
<1>1. cur \in Calls(s)!Attempts /\ cur <= cur /\ flow # "idle"
  BY SetupGiven DEF Calls!Timeout, PlanningInv, CallsTyped, Calls!Attempts, Calls!ModelCallsAssumption
<1>2. /\ Calls(s)!Throws(cur, attempt[cur].at) /\ Calls(s)!AFault /\ plans' = plans /\ chat' = chat
    /\ caller' = caller
  BY DEF Calls!Timeout
<1>3. caller' \in [Calls(s)!Attempts -> [Calls(s)!Planners -> CallRow(s)]]
  BY <1>2 DEF PlanningInv, CallsTyped
<1>4. attempt[cur] \in AttemptRow(s) /\ attempt[cur].at \in AttemptStages
  BY <1>1 DEF PlanningInv, CallsTyped, AttemptRow
<1>5. [attempt[cur] EXCEPT !.at = attempt[cur].at] = attempt[cur]
  BY <1>4 DEF AttemptRow
<1>6. ASSUME NEW i \in Calls(s)!Attempts, attempt'[i] = attempt[i] PROVE AttemptKept(s, i)'
  BY <1>2, <1>6, AttemptUntouched DEF PlanningInv, AttemptsKept
<1> DEFINE i == cur
<1> HIDE DEF i
<1>7. Calls(s)!Throws(i, attempt[i].at) /\ i \in Calls(s)!Attempts /\ i <= cur
  BY <1>1, <1>2 DEF i
<1> QED BY <1>1, <1>2, <1>3, <1>4, <1>5, <1>6, <1>7, ThrowStep DEF i

----------------------------------------------------------------------------
\* A step of the chat leaves the attempts alone.
LEMMA ChatStep ==
  ASSUME NEW s \in Setups, PlanningInv(s), UNCHANGED <<scene, flow, cur, attempt, caller, plans, outages>>,
         chat' \in [call : CallRow(s), ctx : Calls(s)!Context, directive : BOOLEAN], ChatKept(s)'
  PROVE  PlanningInv(s)'
<1>1. CallsTyped(s)'
  BY DEF PlanningInv, CallsTyped
<1>2. AheadUnplanned(s)' /\ FaultCounted(s)'
  BY DEF PlanningInv, AheadUnplanned, FaultCounted
<1>3. AttemptsKept(s)'
  BY AttemptUntouched DEF PlanningInv, AttemptsKept
<1> QED BY <1>1, <1>2, <1>3 DEF PlanningInv

\* The tier of a chat's call; a directive is not the floor model's while the wallet allows better.
LEMMA ChatRouted ==
  ASSUME NEW s \in Setups, PlanningInv(s), NEW directive \in BOOLEAN, NEW complexity \in Complexities,
      NEW stakes \in {"low", "high"},
         NEW t, t = Calls(s)!ChatRoute(directive, complexity, stakes)
  PROVE  /\ t \in TierNames
         /\ Calls(s)!Within("chat", Calls(s)!Asks(t), chat.ctx)
         /\ directive /\ chat.ctx.balance >= StandardMin => t # "mini"
<1> DEFINE kind == IF directive THEN "owner_chat_directive" ELSE "owner_chat"
           level == IF directive THEN "high" ELSE stakes
           base == Calls(s)!baseRoute(kind, complexity, level)
<1>1. t = Calls(s)!applyBudgetCap(base, chat.ctx)
  BY DEF Calls!ChatRoute, Calls!routeTier
<1>2. chat.ctx \in Calls(s)!Context
  BY DEF PlanningInv, CallsTyped
<1>3. base \in TierNames /\ (directive => base # "mini")
  BY BaseTier
<1> HIDE DEF base
<1>4. /\ t \in TierNames
      /\ chat.ctx.balance < StandardMin => t = "mini"
      /\ chat.ctx.balance < FrontierMin /\ chat.ctx.revenue = 0 => t # "frontier"
      /\ base # "mini" /\ chat.ctx.balance >= StandardMin => t # "mini"
  BY <1>1, <1>2, <1>3, CappedTier
<1>5. Calls(s)!Asks(t).tier = t /\ Calls(s)!Asks(t).base = t
  BY <1>4, AskingTyped
<1> QED BY <1>3, <1>4, <1>5, PlannerRoles DEF Calls!Within

\* The steps of a chat: it starts,
LEMMA StepStartChat ==
  ASSUME NEW s \in Setups PROVE
  PlanningInv(s) /\ Calls(s)!StartChat => PlanningInv(s)'
<1> SUFFICES ASSUME PlanningInv(s), Calls(s)!StartChat PROVE PlanningInv(s)'
  OBVIOUS
<1>1. PICK found \in Setup[s].contexts, balance \in Setup[s].wallets, directive \in BOOLEAN :
        chat' = [call |-> [Calls(s)!Off EXCEPT !.at = IF Setup[s].classifier THEN "classify" ELSE "route"],
                 ctx |-> [found EXCEPT !.balance = balance], directive |-> directive]
  BY DEF Calls!StartChat
<1>2. found \in Calls(s)!Context /\ balance \in Int
  BY SetupGiven DEF Calls!ModelCallsAssumption
<1>3. [found EXCEPT !.balance = balance] \in Calls(s)!Context
  BY <1>2 DEF Calls!Context
<1> DEFINE at == IF Setup[s].classifier THEN "classify" ELSE "route"
           call == [Calls(s)!Off EXCEPT !.at = at]
           ctx == [found EXCEPT !.balance = balance]
<1>4. at \in {"classify", "route"}
  OBVIOUS
<1>5. chat' = [call |-> call, ctx |-> ctx, directive |-> directive]
  BY <1>1
<1> HIDE DEF at
<1>6. call \in CallRow(s) /\ call.at = at
  BY <1>4, OffTyped DEF CallRow, CallAnswers
<1> HIDE DEF call, ctx
<1>7. chat' \in [call : CallRow(s), ctx : Calls(s)!Context, directive : BOOLEAN] /\ chat'.call.at = at
  BY <1>3, <1>5, <1>6 DEF ctx
<1>8. ChatKept(s)'
  BY <1>4, <1>7 DEF ChatKept
<1> QED BY <1>7, <1>8, ChatStep DEF Calls!StartChat

\* is classified,
LEMMA StepClassify ==
  ASSUME NEW s \in Setups PROVE
  PlanningInv(s) /\ Calls(s)!classifyChatSignals => PlanningInv(s)'
<1> SUFFICES ASSUME PlanningInv(s), Calls(s)!classifyChatSignals PROVE PlanningInv(s)'
  OBVIOUS
<1>1. PICK directive \in BOOLEAN, complexity \in Complexities, stakes \in {"low", "high"} :
        chat' = [chat EXCEPT !.directive = @ \/ directive,
                             !.call = Calls(s)!Asks(
                               Calls(s)!ChatRoute(chat.directive \/ directive, complexity, stakes))]
  BY DEF Calls!classifyChatSignals, Complexities
<1>2. chat \in [call : CallRow(s), ctx : Calls(s)!Context, directive : BOOLEAN]
  BY DEF PlanningInv, CallsTyped
<1> DEFINE directs == chat.directive \/ directive
           t == Calls(s)!ChatRoute(directs, complexity, stakes)
           a == [chat EXCEPT !.directive = directs]
<1>3. directs \in BOOLEAN
  OBVIOUS
<1>4. chat' = [a EXCEPT !.call = Calls(s)!Asks(t)]
  BY <1>1, <1>2
<1> HIDE DEF directs
<1>5. /\ t \in TierNames /\ Calls(s)!Within("chat", Calls(s)!Asks(t), chat.ctx)
      /\ directs /\ chat.ctx.balance >= StandardMin => t # "mini"
  BY <1>3, ChatRouted
<1> HIDE DEF t
<1>6. Calls(s)!Asks(t) \in CallRow(s) /\ Calls(s)!Asks(t).tier = t
  BY <1>5, AskingTyped
<1>7. a \in [call : CallRow(s), ctx : Calls(s)!Context, directive : BOOLEAN] /\ a.ctx = chat.ctx
    /\ a.directive = directs
  BY <1>2, <1>3
<1> HIDE DEF a
<1>8. /\ chat' \in [call : CallRow(s), ctx : Calls(s)!Context, directive : BOOLEAN]
      /\ chat'.call = Calls(s)!Asks(t) /\ chat'.ctx = chat.ctx /\ chat'.directive = directs
  BY <1>4, <1>6, <1>7
<1>9. ChatKept(s)'
  BY <1>5, <1>6, <1>8 DEF ChatKept, Calls!Within, Calls!contextStakes, Calls!hasMess
<1> QED BY <1>8, <1>9, ChatStep DEF Calls!classifyChatSignals, Calls!bounds

\* or is not,
LEMMA StepDerive ==
  ASSUME NEW s \in Setups PROVE
  PlanningInv(s) /\ Calls(s)!deriveChatSignals => PlanningInv(s)'
<1> SUFFICES ASSUME PlanningInv(s), Calls(s)!deriveChatSignals PROVE PlanningInv(s)'
  OBVIOUS
<1>1. chat \in [call : CallRow(s), ctx : Calls(s)!Context, directive : BOOLEAN]
  BY DEF PlanningInv, CallsTyped
<1> DEFINE t == Calls(s)!ChatRoute(chat.directive, "routine", "low")
<1>2. chat' = [chat EXCEPT !.call = Calls(s)!Asks(t)]
  BY DEF Calls!deriveChatSignals
<1>3. chat.directive \in BOOLEAN /\ "routine" \in Complexities /\ "low" \in {"low", "high"}
  BY <1>1 DEF Complexities
<1>4. /\ t \in TierNames /\ Calls(s)!Within("chat", Calls(s)!Asks(t), chat.ctx)
      /\ chat.directive /\ chat.ctx.balance >= StandardMin => t # "mini"
  BY <1>3, ChatRouted
<1> HIDE DEF t
<1>5. Calls(s)!Asks(t) \in CallRow(s) /\ Calls(s)!Asks(t).tier = t
  BY <1>4, AskingTyped
<1>6. /\ chat' \in [call : CallRow(s), ctx : Calls(s)!Context, directive : BOOLEAN]
      /\ chat'.call = Calls(s)!Asks(t) /\ chat'.ctx = chat.ctx /\ chat'.directive = chat.directive
  BY <1>1, <1>2, <1>5
<1>7. ChatKept(s)'
  BY <1>4, <1>5, <1>6 DEF ChatKept, Calls!Within, Calls!contextStakes, Calls!hasMess
<1> QED BY <1>6, <1>7, ChatStep DEF Calls!deriveChatSignals, Calls!bounds

\* calls its model
LEMMA StepChatCalls ==
  ASSUME NEW s \in Setups PROVE
  PlanningInv(s) /\ Calls(s)!ChatCalls => PlanningInv(s)'
<1> SUFFICES ASSUME PlanningInv(s), Calls(s)!ChatCalls PROVE PlanningInv(s)'
  OBVIOUS
<1>1. chat \in [call : CallRow(s), ctx : Calls(s)!Context, directive : BOOLEAN]
  BY DEF PlanningInv, CallsTyped
<1>2. PICK c \in Calls(s)!Answers(chat.call) : chat' = [chat EXCEPT !.call = c]
  BY DEF Calls!ChatCalls
<1>3. chat.call \in CallRow(s) /\ chat.call.at \in {"call", "repair"} /\ chat.call.tier = chat.call.base
  BY <1>1 DEF Calls!ChatCalls, Calls!Calling, PlanningInv, ChatKept, Calls!Within
<1>4. c \in CallRow(s) /\ c.tier = chat.call.tier /\ c.base = chat.call.base
  BY <1>3, AnswersTyped
<1>5. /\ chat' \in [call : CallRow(s), ctx : Calls(s)!Context, directive : BOOLEAN]
      /\ chat'.call = c /\ chat'.ctx = chat.ctx /\ chat'.directive = chat.directive
  BY <1>1, <1>2, <1>4
<1>6. ChatKept(s)'
  BY <1>3, <1>4, <1>5 DEF PlanningInv, ChatKept, Calls!Within, Calls!contextStakes, Calls!hasMess
<1> QED BY <1>5, <1>6, ChatStep DEF Calls!ChatCalls, Calls!bounds

\* and replies.
LEMMA StepChatReplies ==
  ASSUME NEW s \in Setups PROVE
  PlanningInv(s) /\ Calls(s)!ChatReplies => PlanningInv(s)'
<1> SUFFICES ASSUME PlanningInv(s), Calls(s)!ChatReplies PROVE PlanningInv(s)'
  OBVIOUS
<1>1. chat \in [call : CallRow(s), ctx : Calls(s)!Context, directive : BOOLEAN]
  BY DEF PlanningInv, CallsTyped
<1>2. chat' = [chat EXCEPT !.call = Calls(s)!Off]
  BY DEF Calls!ChatReplies
<1>3. chat' \in [call : CallRow(s), ctx : Calls(s)!Context, directive : BOOLEAN] /\ chat'.call.at = "off"
  BY <1>1, <1>2, OffTyped
<1>4. ChatKept(s)'
  BY <1>3 DEF ChatKept
<1> QED BY <1>3, <1>4, ChatStep DEF Calls!ChatReplies, Calls!bounds

----------------------------------------------------------------------------
\* A step of the heartbeat leaves the chat alone.
LEMMA HeartbeatStep ==
  ASSUME NEW s \in Setups PROVE
  PlanningInv(s) /\ chat' = chat /\ HeartbeatInv(s)' => PlanningInv(s)'
<1> SUFFICES ASSUME PlanningInv(s), chat' = chat, HeartbeatInv(s)' PROVE PlanningInv(s)'
  OBVIOUS
<1>1. ChatKept(s)'
  BY DEF PlanningInv, ChatKept, Calls!Within, Calls!contextStakes, Calls!hasMess
<1> QED BY <1>1 DEF PlanningInv, HeartbeatInv

\* The steps of an attempt together.
LEMMA StepPlanning ==
  ASSUME NEW s \in Setups, PlanningInv(s), NEW i \in Calls(s)!Attempts, Calls(s)!Planning(i)
  PROVE  PlanningInv(s)'
<1>1. CASE Calls(s)!GatherContext(i)
  BY <1>1, StepGather, HeartbeatStep DEF Calls!GatherContext
<1>2. CASE Calls(s)!AwaitsFirstResults(i)
  BY <1>2, StepFirstResults, HeartbeatStep DEF Calls!AwaitsFirstResults
<1>3. CASE Calls(s)!Reinvest(i)
  BY <1>3, StepReinvest, HeartbeatStep DEF Calls!Reinvest
<1>4. CASE Calls(s)!OutOfCredits(i)
  BY <1>4, StepOutOfCredits, HeartbeatStep DEF Calls!OutOfCredits
<1>5. CASE Calls(s)!FanOut(i)
  BY <1>5, StepFanOut, HeartbeatStep DEF Calls!FanOut
<1>6. CASE Calls(s)!Synthesize(i)
  BY <1>6, StepSynthesize, HeartbeatStep DEF Calls!Synthesize
<1>7. CASE Calls(s)!LogPlan(i)
  BY <1>7, StepLogPlan, HeartbeatStep DEF Calls!LogPlan
<1>8. ASSUME NEW n \in Calls(s)!Planners, Calls(s)!CallModel(i, n) PROVE PlanningInv(s)'
  BY <1>8, StepCallModel, HeartbeatStep DEF Calls!CallModel
<1>9. ASSUME NEW d \in Setup[s].departments, Calls(s)!LogReport(i, d) PROVE PlanningInv(s)'
  BY <1>9, StepLogReport, HeartbeatStep DEF Calls!LogReport
<1> QED BY <1>1, <1>2, <1>3, <1>4, <1>5, <1>6, <1>7, <1>8, <1>9 DEF Calls!Planning

\* Every step keeps the invariant,
LEMMA KeptNext ==
  ASSUME NEW s \in Setups PROVE
  PlanningInv(s) /\ Calls(s)!Next => PlanningInv(s)'
<1> SUFFICES ASSUME PlanningInv(s), Calls(s)!Next PROVE PlanningInv(s)'
  OBVIOUS
<1>1. CASE Calls(s)!StartHeartbeat
  BY <1>1, StepStartHeartbeat, HeartbeatStep DEF Calls!StartHeartbeat
<1>2. CASE Calls(s)!Timeout
  BY <1>2, StepTimeout, HeartbeatStep DEF Calls!Timeout
<1>3. ASSUME NEW i \in Calls(s)!Attempts, Calls(s)!Planning(i) PROVE PlanningInv(s)'
  BY <1>3, StepPlanning
<1>4. ASSUME NEW i \in Calls(s)!Attempts, Calls(s)!AttemptFails(i) PROVE PlanningInv(s)'
  BY <1>4, StepAttemptFails, HeartbeatStep DEF Calls!AttemptFails
<1>5. ASSUME NEW i \in Calls(s)!Attempts, NEW d \in Setup[s].departments, Calls(s)!ReportLost(i, d)
    PROVE PlanningInv(s)'
  BY <1>5, StepReportLost, HeartbeatStep DEF Calls!ReportLost
<1>6. CASE Calls(s)!StartChat
  BY <1>6, StepStartChat
<1>7. CASE Calls(s)!Chatting
  BY <1>7, StepClassify, StepDerive, StepChatCalls, StepChatReplies DEF Calls!Chatting
<1> QED BY <1>1, <1>2, <1>3, <1>4, <1>5, <1>6, <1>7 DEF Calls!Next

\* and so does a step of the ledger.
LEMMA KeptStutter ==
  ASSUME NEW s \in Setups PROVE
  PlanningInv(s) /\ UNCHANGED Calls(s)!vars => PlanningInv(s)'
<1> SUFFICES ASSUME PlanningInv(s), UNCHANGED Calls(s)!vars PROVE PlanningInv(s)'
  OBVIOUS
<1>1. chat' \in [call : CallRow(s), ctx : Calls(s)!Context, directive : BOOLEAN] /\ ChatKept(s)'
  BY DEF PlanningInv, CallsTyped, ChatKept, Calls!Within, Calls!contextStakes, Calls!hasMess, Calls!vars
<1> QED BY <1>1, ChatStep DEF Calls!vars

\* That is what the runs check.
LEMMA KeptIsKept ==
  ASSUME NEW s \in Setups PROVE
  PlanningInv(s) => Calls(s)!CallsKept
<1> SUFFICES ASSUME PlanningInv(s) PROVE Calls(s)!CallsKept
  OBVIOUS
<1>1. Calls(s)!RoutedWithinMeans
  <2>1. ASSUME NEW i \in Calls(s)!Attempts, NEW n \in Calls(s)!Planners, Calls(s)!Calling(caller[i][n])
        PROVE  Calls(s)!Within(n, caller[i][n], attempt[i].ctx)
    BY <2>1 DEF PlanningInv, AttemptsKept, AttemptKept, Routed, Calls!Calling
  <2>2. Calls(s)!Calling(chat.call) =>
          /\ Calls(s)!Within("chat", chat.call, chat.ctx)
          /\ chat.directive /\ chat.ctx.balance >= StandardMin => chat.call.tier # "mini"
    BY DEF PlanningInv, ChatKept, Calls!Calling
  <2> QED BY <2>1, <2>2 DEF Calls!RoutedWithinMeans
<1>2. Calls(s)!FrozenMakesNoCalls
  BY DEF PlanningInv, AttemptsKept, AttemptKept, Routed, MayPlan, Calls!FrozenMakesNoCalls
<1>3. Calls(s)!SynthesisIsInformed
  BY DEF PlanningInv, AttemptsKept, AttemptKept, Report, Calls!SynthesisIsInformed
<1>4. Calls(s)!OutageCostsNoDay
  BY DEF PlanningInv, AttemptsKept, AttemptKept, FaultCounted, Calls!OutageCostsNoDay
<1> QED BY <1>1, <1>2, <1>3, <1>4 DEF Calls!CallsKept

----------------------------------------------------------------------------
(* The ledger and the calls beside each other.                             *)

\* Beside the ledger, the invariant is that of the company whose calls these are.
LEMMA CallsBegin ==
  ASSUME InitParts, NEW s \in Setups, part = s PROVE PlanningInv(s)
<1>1. PICK n \in Setups : Calls(n)!Init /\ (part = n \/ part = "ledger")
  BY DEF InitParts
<1>2. n = s
  BY <1>1, LedgerCallsAssumption
<1> QED BY <1>1, <1>2, KeptStart

\* A step is of the ledger or of that company.
LEMMA CallsNext ==
  ASSUME [NextPart]_All, NEW s \in Setups, part = s => PlanningInv(s) PROVE part' = s => PlanningInv(s)'
<1> SUFFICES ASSUME part' = s PROVE PlanningInv(s)'
  OBVIOUS
<1>1. CASE UNCHANGED All
  BY <1>1, KeptStutter DEF All, cvars, Calls!vars
<1>2. CASE Recording(Next)
  BY <1>2, LedgerCallsAssumption DEF Recording
<1>3. ASSUME NEW n \in Setups, Asking(n, Calls(n)!Next) PROVE PlanningInv(s)'
  <2>1. n = s /\ part = s
    BY <1>3 DEF Asking
  <2> QED BY <1>3, <2>1, KeptNext DEF Asking
<1>4. ASSUME NEW n \in Setups, Asking(n, UNCHANGED cvars) PROVE PlanningInv(s)'
  <2>1. part = s
    BY <1>4 DEF Asking
  <2> QED BY <1>4, <2>1, KeptStutter DEF Asking, cvars, Calls!vars
<1> QED BY <1>1, <1>2, <1>3, <1>4 DEF NextPart

\* However the models fail, and however many attempts of a heartbeat overlap: no call outspends the
\* runway its planner read, a frozen company makes none, the CEO decides over the public reports of its
\* own attempt, and an outage costs no day its work (router.ts, departments.ts, ceo.ts, planning.ts).
THEOREM CallsStay == Parts => []CallsKept
<1> DEFINE Inv == \A s \in Setups : part = s => PlanningInv(s)
<1>1. InitParts => Inv
  BY CallsBegin
<1>2. Inv /\ [NextPart]_All => Inv'
  BY CallsNext
<1>3. Inv => CallsKept
  BY KeptIsKept DEF CallsKept
<1> QED BY <1>1, <1>2, <1>3, PTL DEF Parts
============================================================================
