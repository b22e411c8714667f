---------------------------- MODULE UploadProofs ----------------------------
(* The safety of upload transactions, for any contents, any number of chunks *)
(* and of probes, and any number of interruptions.                           *)
EXTENDS UploadTransaction, TLAPS

(* A probe of find_first_absent_chunk's search lies inside its range, the    *)
(* first one at its start, and the probes of a round increase.               *)
LEMMA ProbesInRange ==
    ASSUME NEW lo \in Nat, NEW h \in Nat, lo < h
    PROVE  /\ Last(lo, h) \in Nat
           /\ Probe(lo, h, 0) = lo
           /\ \A n \in 0..Last(lo, h) : Probe(lo, h, n) \in lo..(h - 1)
           /\ \A n \in 1..Last(lo, h) : Probe(lo, h, n - 1) < Probe(lo, h, n)
<1> DEFINE r == h - lo
           b == BatchSize(lo, h)
<1>1. r \in Nat \ {0} /\ b \in Nat \ {0} /\ b <= r /\ Last(lo, h) = b - 1
  BY ConstantsAssumption DEF BatchSize, Last
<1>2. \A n \in Nat : Probe(lo, h, n) = lo + (n * r) \div b
  BY DEF Probe
<1> HIDE DEF r, b
<1>3. ASSUME NEW n \in 0..(b - 1)
      PROVE  (n * r) \div b \in 0..(r - 1)
  <2> DEFINE q == (n * r) \div b
  <2>1. n * r \in Nat
    BY <1>1
  <2>2. q \in Nat /\ b * q <= n * r
    BY <1>1, <2>1
  <2>3. n * r <= (b - 1) * r
    BY <1>1
  <2>4. (b - 1) * r < b * r
    BY <1>1
  <2>5. b * q < b * r
    <3> HIDE DEF q
    <3> QED BY <1>1, <2>2, <2>3, <2>4
  <2>6. q < r
    <3> HIDE DEF q
    <3> QED BY <1>1, <2>2, <2>5
  <2> QED BY <1>1, <2>2, <2>6
<1>4. ASSUME NEW n \in 1..(b - 1)
      PROVE  ((n - 1) * r) \div b < (n * r) \div b
  <2> DEFINE p == ((n - 1) * r) \div b
             q == (n * r) \div b
  <2>1. n * r \in Nat /\ (n - 1) * r \in Nat /\ n * r = (n - 1) * r + r
    BY <1>1
  <2>2. p \in Nat /\ q \in Nat /\ b * p <= (n - 1) * r /\ n * r < b * q + b
    BY <1>1, <2>1
  <2>3. b * p < b * q
    <3> HIDE DEF p, q
    <3> QED BY <1>1, <2>1, <2>2
  <2>4. p < q
    <3> HIDE DEF p, q
    <3> QED BY <1>1, <2>2, <2>3
  <2> QED BY <2>4
<1>5. (0 * r) \div b = 0
  BY <1>1
<1>6. r = h - lo
  BY DEF r
<1>7. Probe(lo, h, 0) = lo
  BY <1>2, <1>5
<1>8. ASSUME NEW n \in 0..Last(lo, h)
      PROVE  Probe(lo, h, n) \in lo..(h - 1)
  <2>1. n \in Nat /\ n \in 0..(b - 1)
    BY <1>1
  <2>2. (n * r) \div b \in 0..(r - 1)
    BY <1>3, <2>1
  <2>3. Probe(lo, h, n) = lo + (n * r) \div b
    BY <1>2, <2>1
  <2> DEFINE q == (n * r) \div b
  <2> HIDE DEF q
  <2>4. q \in 0..(r - 1) /\ Probe(lo, h, n) = lo + q
    BY <2>2, <2>3 DEF q
  <2> QED BY <1>1, <1>6, <2>4
<1>9. ASSUME NEW n \in 1..Last(lo, h)
      PROVE  Probe(lo, h, n - 1) < Probe(lo, h, n)
  <2>1. n \in 1..(b - 1) /\ n \in 0..(b - 1) /\ n - 1 \in 0..(b - 1) /\ n \in Nat /\ n - 1 \in Nat
    BY <1>1
  <2> DEFINE p == ((n - 1) * r) \div b
             q == (n * r) \div b
  <2>2. p < q /\ p \in 0..(r - 1) /\ q \in 0..(r - 1)
    BY <1>3, <1>4, <2>1
  <2>3. Probe(lo, h, n - 1) = lo + p /\ Probe(lo, h, n) = lo + q
    BY <1>2, <2>1
  <2> HIDE DEF p, q
  <2> QED BY <1>1, <2>2, <2>3
<1> QED BY <1>1, <1>7, <1>8, <1>9

-----------------------------------------------------------------------------
(* The invariant holds of an account nothing was uploaded to. *)
LEMMA InitInv == Init => UploadInv
<1> SUFFICES ASSUME Init PROVE UploadInv
  OBVIOUS
<1>0. fresh \in BOOLEAN
  BY DEF Init
<1>1. TypeOK
  <2>1. 0 \in 0..ChunkCount /\ 0 \in 0..MaxTxns /\ 0 \in 0..MaxTroubles
    BY ConstantsAssumption
  <2> QED BY <1>0, <2>1 DEF Init, TypeOK, Pcs
<1> QED
  <2>1. \A t \in Txns : t # None
    BY DEF Txns, None
  <2> QED
    BY <1>1, <2>1 DEF Init, UploadInv, CallInv, SearchInv, ChunkInv, LinkedWhole, PrefixKept,
       NoOrphans

(* Starting a call, whatever it decides to do about an open record. *)
LEMMA StartStep ==
    ASSUME UploadInv, (\E c \in Contents : Upload(c)) \/ Resume \/ ClearOpen
    PROVE  UploadInv'
<1>1. UNCHANGED <<record, chunks, link, made, troubles, cut, leaked, replaced>>
  BY DEF Upload, Resume, ClearOpen, stored, ghosts
<1>2. /\ pc' \in {"open", "find", "clear"} /\ txn' \in {record, None} /\ want' \in SUBSET Contents
      /\ i' = 0 /\ hi' = 0 /\ snap' = {} /\ fresh' \in BOOLEAN
      /\ pc' = "open" => record = None /\ want' # {} /\ made < MaxTxns
      /\ pc' # "open" => record # None /\ txn' = record
      /\ want' # {} => made < MaxTxns
  BY DEF Upload, Resume, ClearOpen, Go
<1>3. TypeOK'
  BY <1>1, <1>2, ConstantsAssumption DEF UploadInv, TypeOK, Pcs
<1> QED
  BY <1>1, <1>2, <1>3 DEF UploadInv, CallInv, SearchInv, ChunkInv, LinkedWhole, PrefixKept,
     NoOrphans, Whole, Opened

(* A step that ends the call and stores nothing: the client stops, or a      *)
(* commit of its is refused.                                                 *)
LEMMA ReturnStep ==
    ASSUME UploadInv, Refused \/ Stop
    PROVE  UploadInv'
<1>1. UNCHANGED <<record, chunks, link, made, cut, leaked, replaced>>
  BY DEF Refused, Stop, stored, ghosts
<1>2. /\ pc' = "idle" /\ txn' = None /\ want' = {}
      /\ i' = 0 /\ hi' = 0 /\ snap' = {} /\ fresh' \in BOOLEAN
  BY DEF Refused, Stop, Return, Go
<1>3. troubles' \in 0..MaxTroubles
  BY ConstantsAssumption DEF Refused, Stop, Trouble, UploadInv, TypeOK
<1>4. TypeOK'
  BY <1>1, <1>2, <1>3, ConstantsAssumption DEF UploadInv, TypeOK, Pcs
<1> QED
  BY <1>1, <1>2, <1>4 DEF UploadInv, CallInv, SearchInv, ChunkInv, LinkedWhole, PrefixKept,
     NoOrphans, Whole, Opened

(* A step that only reads a pointer: what it read is what is stored. *)
LEMMA ReadStep ==
    ASSUME UploadInv, Find \/ ReadPointer \/ BeginClear
    PROVE  UploadInv'
<1>1. UNCHANGED <<record, chunks, link, txn, want, made, troubles, cut, leaked, replaced>>
  BY DEF Find, ReadPointer, BeginClear, stored, call, ghosts
<1>2. CASE Find
  <2>1. txn = record /\ record \in Txns /\ chunks[record] \in SUBSET Chunks
    BY <1>2 DEF Find, UploadInv, TypeOK, CallInv
  <2>2. pc' = "search" /\ i' = 0 /\ hi' = ChunkCount /\ snap' = chunks[record] /\ fresh' = fresh
    BY <1>2, <2>1 DEF Find
  <2>3. TypeOK'
    BY <1>1, <2>1, <2>2, ConstantsAssumption DEF UploadInv, TypeOK, Pcs
  <2>4. SearchInv'
    BY <1>1, <2>2, ConstantsAssumption DEF SearchInv
  <2>5. pc = "find"
    BY <1>2 DEF Find
  <2> QED
    BY <1>1, <2>2, <2>3, <2>4, <2>5 DEF UploadInv, CallInv, ChunkInv, LinkedWhole, PrefixKept,
       NoOrphans, Whole, Opened
<1>3. CASE ReadPointer
  <2>1. UNCHANGED <<i, hi, snap>>
    BY <1>3 DEF ReadPointer, search
  <2>2. /\ fresh' \in BOOLEAN
        /\ \/ pc = "open" /\ pc' = "opening"
           \/ pc = "begin" /\ i < ChunkCount /\ pc' = "chunk"
           \/ pc = "begin" /\ i >= ChunkCount /\ pc' = "link"
           \/ pc = "link" /\ pc' = "linking"
    BY <1>3 DEF ReadPointer
  <2>3. TypeOK'
    BY <1>1, <2>1, <2>2 DEF UploadInv, TypeOK, Pcs
  <2>4. pc = "begin" /\ i >= ChunkCount => i = ChunkCount
    BY ConstantsAssumption DEF UploadInv, TypeOK
  <2>5. ChunkInv'
    BY <1>1, <2>1, <2>2, <2>4 DEF UploadInv, ChunkInv, Whole, Chunks
  <2> QED
    BY <1>1, <2>1, <2>2, <2>3, <2>5 DEF UploadInv, CallInv, SearchInv, LinkedWhole, PrefixKept,
       NoOrphans, Whole, Opened
<1>4. CASE BeginClear
  <2>1. pc = "clear" /\ txn = record /\ record \in Txns /\ chunks[record] \in SUBSET Chunks
    BY <1>4 DEF BeginClear, UploadInv, TypeOK, CallInv
  <2>2. pc' = "clearing" /\ i' = i /\ hi' = hi /\ snap' = chunks[record] /\ fresh' = TRUE
    BY <1>4, <2>1 DEF BeginClear
  <2>3. TypeOK'
    BY <1>1, <2>1, <2>2 DEF UploadInv, TypeOK, Pcs
  <2> QED
    BY <1>1, <2>1, <2>2, <2>3 DEF UploadInv, CallInv, SearchInv, ChunkInv, LinkedWhole,
       PrefixKept, NoOrphans, Whole, Opened
<1> QED BY <1>2, <1>3, <1>4

(* A round of the search narrows the range around the first absent chunk, or *)
(* finds it.                                                                 *)
LEMMA SearchStep ==
    ASSUME UploadInv, Search
    PROVE  UploadInv'
<1>1. UNCHANGED <<record, chunks, link, txn, want, fresh, made, troubles, cut, leaked, replaced>>
  BY DEF Search, stored, call, ghosts
<1>2. /\ pc = "search" /\ i \in Nat /\ hi \in Nat /\ i < hi /\ hi <= ChunkCount
      /\ i = 0 \/ i \in snap
      /\ hi = ChunkCount \/ hi \notin snap
  BY DEF Search, UploadInv, TypeOK, SearchInv
<1>3. /\ Last(i, hi) \in Nat
      /\ Probe(i, hi, 0) = i
      /\ \A n \in 0..Last(i, hi) : Probe(i, hi, n) \in i..(hi - 1)
      /\ \A n \in 1..Last(i, hi) : Probe(i, hi, n - 1) < Probe(i, hi, n)
  BY <1>2, ProbesInRange
<1>4. record \in Txns /\ snap \in SUBSET Chunks /\ (record \in cut \/ snap = chunks[record])
  BY <1>2 DEF UploadInv, TypeOK, CallInv, SearchInv
<1>5. record \notin cut => \E m \in 0..ChunkCount : snap = 0..(m - 1)
  BY <1>2, <1>4 DEF UploadInv, CallInv, PrefixKept
<1>6. ASSUME NEW n \in 0..ChunkCount, Found(n), record \notin cut => snap = 0..(n - 1)
      PROVE  UploadInv'
  <2>1. pc' = "begin" /\ i' = n /\ hi' = 0 /\ snap' = {}
    BY <1>6 DEF Found
  <2>2. TypeOK'
    BY <1>1, <2>1, ConstantsAssumption DEF UploadInv, TypeOK, Pcs
  <2>3. ChunkInv'
    BY <1>1, <1>4, <1>6, <2>1 DEF ChunkInv
  <2> QED
    BY <1>1, <1>2, <2>1, <2>2, <2>3 DEF UploadInv, CallInv, SearchInv, LinkedWhole, PrefixKept,
       NoOrphans, Whole, Opened
<1>7. ASSUME NEW lo \in 0..ChunkCount, NEW h \in 0..ChunkCount, Narrow(lo, h),
             lo < h, lo \in snap, h = ChunkCount \/ h \notin snap
      PROVE  UploadInv'
  <2>1. pc' = "search" /\ i' = lo /\ hi' = h /\ snap' = snap
    BY <1>2, <1>7 DEF Narrow
  <2>2. TypeOK'
    BY <1>1, <2>1 DEF UploadInv, TypeOK, Pcs
  <2>3. SearchInv'
    BY <1>1, <1>4, <1>7, <2>1 DEF SearchInv
  <2> QED
    BY <1>1, <1>2, <2>1, <2>2, <2>3 DEF UploadInv, CallInv, ChunkInv, LinkedWhole, PrefixKept,
       NoOrphans, Whole, Opened
<1>8. CASE FirstAbsent(0) /\ Found(i)
  <2>1. i \notin snap
    BY <1>3, <1>8 DEF FirstAbsent
  <2>2. i = 0
    BY <1>2, <2>1
  <2>3. record \notin cut => snap = 0..(i - 1)
    BY <1>5, <2>1, <2>2, ConstantsAssumption
  <2>4. i \in 0..ChunkCount
    BY <1>2, ConstantsAssumption
  <2> QED BY <1>6, <1>8, <2>3, <2>4
<1>9. ASSUME NEW n \in 1..Last(i, hi), FirstAbsent(n),
             Narrow(Probe(i, hi, n - 1), Probe(i, hi, n))
      PROVE  UploadInv'
  <2> DEFINE lo == Probe(i, hi, n - 1)
             h == Probe(i, hi, n)
  <2>1. n \in 0..Last(i, hi) /\ n - 1 \in 0..Last(i, hi) /\ n - 1 \in 0..(n - 1)
    BY <1>3
  <2>2. lo \in i..(hi - 1) /\ h \in i..(hi - 1) /\ lo < h
    BY <1>3, <2>1
  <2>3. lo \in snap /\ h \notin snap
    BY <1>9, <2>1 DEF FirstAbsent
  <2>4. Narrow(lo, h)
    BY <1>9
  <2> HIDE DEF lo, h
  <2>5. lo \in 0..ChunkCount /\ h \in 0..ChunkCount
    BY <1>2, <2>2, ConstantsAssumption
  <2> QED BY <1>7, <2>2, <2>3, <2>4, <2>5
<1>10. CASE AllPresent /\ LET last == Probe(i, hi, Last(i, hi))
                          IN  IF last + 1 >= hi THEN Found(hi) ELSE Narrow(last, hi)
  <2> DEFINE last == Probe(i, hi, Last(i, hi))
  <2>1. Last(i, hi) \in 0..Last(i, hi)
    BY <1>3
  <2>2. last \in i..(hi - 1) /\ last \in snap
    BY <1>3, <1>10, <2>1 DEF AllPresent
  <2>3. IF last + 1 >= hi THEN Found(hi) ELSE Narrow(last, hi)
    BY <1>10
  <2> HIDE DEF last
  <2>4. hi \in 0..ChunkCount /\ last \in 0..ChunkCount
    BY <1>2, <2>2, ConstantsAssumption
  <2>5. CASE last + 1 >= hi
    <3>1. last + 1 = hi
      BY <1>2, <2>2, <2>5
    <3>2. record \notin cut => snap = 0..(hi - 1)
      BY <1>2, <1>5, <2>2, <3>1, ConstantsAssumption
    <3> QED BY <1>6, <2>3, <2>4, <2>5, <3>2
  <2>6. CASE ~(last + 1 >= hi)
    <3>1. last < hi
      BY <1>2, <2>2
    <3> QED BY <1>2, <1>7, <2>2, <2>3, <2>4, <2>6, <3>1
  <2> QED BY <2>5, <2>6
<1> QED BY <1>8, <1>9, <1>10 DEF Search

(* The record of a new transaction, which has no chunks yet. *)
LEMMA OpenStep ==
    ASSUME UploadInv, OpenRecord
    PROVE  UploadInv'
<1>1. UNCHANGED <<chunks, link, troubles, cut, leaked, replaced>>
  BY DEF OpenRecord, ghosts
<1>2. pc = "opening" /\ record = None /\ made < MaxTxns /\ want \in SUBSET Contents
  BY DEF OpenRecord, UploadInv, TypeOK, CallInv
<1>3. PICK c \in want : record' = <<made + 1, c>> /\ Go("begin", <<made + 1, c>>, {})
  BY DEF OpenRecord
<1>4. made \in Nat /\ made' = made + 1 /\ made' \in 0..MaxTxns /\ made + 1 \in 1..MaxTxns
  BY <1>2, ConstantsAssumption DEF OpenRecord, UploadInv, TypeOK
<1>5. record' \in Txns /\ record' # None /\ ~Opened(record')
  BY <1>2, <1>3, <1>4 DEF Txns, None, Opened
<1>6. /\ pc' = "begin" /\ txn' = record' /\ want' = {} /\ i' = 0 /\ hi' = 0 /\ snap' = {}
      /\ fresh' \in BOOLEAN
  BY <1>3 DEF Go
<1>7. chunks[record'] = {}
  BY <1>5 DEF UploadInv
<1>8. TypeOK'
  BY <1>1, <1>4, <1>5, <1>6, ConstantsAssumption DEF UploadInv, TypeOK, Pcs
<1>9. 0..(0 - 1) = {} /\ 0 \in 0..ChunkCount
  BY ConstantsAssumption
<1>10. ChunkInv' /\ PrefixKept'
  BY <1>1, <1>6, <1>7, <1>9 DEF ChunkInv, PrefixKept
<1>11. NoOrphans'
  <2>1. \A t \in Txns : t # None
    BY DEF Txns, None
  <2> QED BY <1>1, <1>2, <2>1 DEF UploadInv, NoOrphans
<1>12. (\A t \in Txns : t = record \/ chunks[t] # {} => Opened(t))'
  <2>1. Opened(record)'
    BY <1>3, <1>4 DEF Opened
  <2> QED BY <1>1, <1>4, <2>1 DEF UploadInv, Opened
<1> QED
  BY <1>1, <1>5, <1>6, <1>8, <1>10, <1>11, <1>12 DEF UploadInv, CallInv, SearchInv, LinkedWhole,
     Whole

(* The next chunk, which is the first one absent. *)
LEMMA PutStep ==
    ASSUME UploadInv, PutChunk
    PROVE  UploadInv'
<1>1. UNCHANGED <<record, link, txn, want, hi, snap, made, troubles, cut, leaked, replaced>>
  BY DEF PutChunk, call, ghosts
<1>2. /\ pc = "chunk" /\ record \in Txns /\ record # None /\ txn = record
      /\ i \in 0..ChunkCount /\ i < ChunkCount /\ chunks[record] \in SUBSET Chunks
      /\ record \in cut \/ chunks[record] = 0..(i - 1)
  BY DEF PutChunk, UploadInv, TypeOK, CallInv, ChunkInv
<1>3. /\ chunks' = [chunks EXCEPT ![record] = @ \cup {i}]
      /\ i' = i + 1
      /\ \/ i + 1 = ChunkCount /\ pc' = "link"
         \/ i + 1 # ChunkCount /\ pc' = "chunk"
  BY <1>2 DEF PutChunk
<1>4. fresh' \in BOOLEAN
  BY DEF PutChunk, UploadInv, TypeOK
<1>5. /\ chunks' \in [Txns -> SUBSET Chunks]
      /\ chunks'[record] = chunks[record] \cup {i}
      /\ \A t \in Txns : t # record => chunks'[t] = chunks[t]
  BY <1>2, <1>3, ConstantsAssumption DEF UploadInv, TypeOK, Chunks
<1>6. i' \in 0..ChunkCount
  BY <1>2, <1>3, ConstantsAssumption
<1>7. TypeOK'
  BY <1>1, <1>3, <1>4, <1>5, <1>6 DEF UploadInv, TypeOK, Pcs
<1>8. record \in cut \/ chunks'[record] = 0..(i' - 1)
  BY <1>2, <1>3, <1>5, ConstantsAssumption
<1>9. ChunkInv'
  BY <1>1, <1>2, <1>3, <1>6, <1>8, ConstantsAssumption DEF ChunkInv, Whole, Chunks
<1>10. LinkedWhole'
  <2>1. ASSUME link = record, Whole(record) PROVE chunks'[record] = Chunks
    BY <1>2, <1>5, <2>1, ConstantsAssumption DEF Whole, Chunks
  <2>2. link # None => link \in Txns
    BY DEF UploadInv, TypeOK
  <2> QED BY <1>1, <1>2, <1>5, <2>1, <2>2 DEF UploadInv, LinkedWhole, Whole
<1>11. PrefixKept'
  BY <1>1, <1>6, <1>8 DEF PrefixKept
<1>12. NoOrphans'
  BY <1>1, <1>5 DEF UploadInv, NoOrphans
<1>13. (\A t \in Txns : t = record \/ chunks[t] # {} => Opened(t))'
  BY <1>1, <1>2, <1>5 DEF UploadInv, Opened
<1> QED
  BY <1>1, <1>2, <1>3, <1>7, <1>9, <1>10, <1>11, <1>12, <1>13 DEF UploadInv, CallInv, SearchInv

(* The link to a file that is whole. *)
LEMMA LinkStep ==
    ASSUME UploadInv, Link
    PROVE  UploadInv'
<1>1. UNCHANGED <<record, chunks, made, troubles, leaked>>
  BY DEF Link
<1>2. /\ pc = "linking" /\ record \in Txns /\ record # None /\ txn = record
      /\ record \in cut \/ Whole(record)
  BY DEF Link, UploadInv, TypeOK, CallInv, ChunkInv
<1>3. /\ pc' = "close" /\ txn' = record /\ want' = {} /\ i' = 0 /\ hi' = 0 /\ snap' = {}
      /\ fresh' \in BOOLEAN
  BY <1>2 DEF Link, Go
<1>4. /\ link' = record
      /\ replaced' = (IF link = None THEN replaced ELSE replaced \cup {link}) \ {record}
      /\ cut' = IF Whole(record) THEN cut \ {record} ELSE cut
  BY <1>2 DEF Link, AddChild
<1>5. replaced' \in SUBSET Txns /\ cut' \in SUBSET Txns
  BY <1>4 DEF UploadInv, TypeOK
<1>6. TypeOK'
  BY <1>1, <1>2, <1>3, <1>4, <1>5, ConstantsAssumption DEF UploadInv, TypeOK, Pcs
<1>7. LinkedWhole'
  BY <1>1, <1>2, <1>4 DEF LinkedWhole, Whole
<1>8. PrefixKept'
  <2>1. Whole(record) => chunks[record] = 0..(ChunkCount - 1) /\ ChunkCount \in 0..ChunkCount
    BY ConstantsAssumption DEF Whole, Chunks
  <2> QED BY <1>1, <1>4, <2>1 DEF UploadInv, PrefixKept
<1>9. NoOrphans'
  <2>1. \A t \in Txns : t # None
    BY DEF Txns, None
  <2> QED BY <1>1, <1>4, <2>1 DEF UploadInv, NoOrphans
<1> QED
  BY <1>1, <1>2, <1>3, <1>4, <1>6, <1>7, <1>8, <1>9 DEF UploadInv, CallInv, SearchInv, ChunkInv,
     Opened

(* The record is removed: its chunks are linked or gone, or were leaked. *)
LEMMA CloseStep ==
    ASSUME UploadInv, BeginClose \/ Close
    PROVE  UploadInv'
<1>1. UNCHANGED <<chunks, link, made, troubles, cut, leaked, replaced>>
  BY DEF BeginClose, Close, stored, ghosts
<1>2. pc \in {"close", "closing"} /\ record \in Txns /\ record # None /\ txn = record
  BY DEF BeginClose, Close, UploadInv, TypeOK, CallInv
<1>3. CASE BeginClose
  <2>1. /\ pc' = "closing" /\ fresh' \in BOOLEAN /\ pc = "close"
        /\ UNCHANGED <<record, txn, want, i, hi, snap>>
    BY <1>2, <1>3 DEF BeginClose, stored, call, search
  <2>2. TypeOK'
    BY <1>1, <2>1 DEF UploadInv, TypeOK, Pcs
  <2> QED
    BY <1>1, <2>1, <2>2 DEF UploadInv, CallInv, SearchInv, ChunkInv, LinkedWhole, PrefixKept,
       NoOrphans, Whole, Opened
<1>4. CASE Close
  <2>1. record' = None /\ Closed
    BY <1>4 DEF Close
  <2>2. /\ (pc' = "idle" /\ want = {}) \/ (pc' = "open" /\ want # {})
        /\ want' = want /\ txn' = None /\ i' = 0 /\ hi' = 0 /\ snap' = {} /\ fresh' \in BOOLEAN
    <3>1. CASE want = {}
      BY <2>1, <3>1 DEF Closed, Return, Go
    <3>2. CASE want # {}
      BY <2>1, <3>2 DEF Closed, Go
    <3> QED BY <3>1, <3>2
  <2>3. TypeOK'
    BY <1>1, <2>1, <2>2, ConstantsAssumption DEF UploadInv, TypeOK, Pcs
  <2>4. CallInv'
    BY <1>1, <2>1, <2>2 DEF UploadInv, CallInv
  <2>5. NoOrphans'
    BY <1>1, <1>2, <2>1 DEF UploadInv, ChunkInv, NoOrphans
  <2>6. \A t \in Txns : t # None
    BY DEF Txns, None
  <2> QED
    BY <1>1, <2>1, <2>2, <2>3, <2>4, <2>5, <2>6 DEF UploadInv, SearchInv, ChunkInv, LinkedWhole,
       PrefixKept, Whole, Opened
<1> QED BY <1>3, <1>4

(* Removing the chunks of t, as long as the client is not about to upload    *)
(* more of them on the strength of having seen these.                        *)
LEMMA LoseFacts ==
    ASSUME UploadInv, NEW t \in Txns, Lose(t)
    PROVE  /\ chunks' \in [Txns -> SUBSET Chunks] /\ cut' \in SUBSET Txns
           /\ chunks'[t] = {}
           /\ \A x \in Txns : x # t => chunks'[x] = chunks[x]
           /\ cut \subseteq cut'
           /\ t = link => t \in cut'
  BY DEF UploadInv, TypeOK, Lose

(* The clean-up of an open transaction. *)
LEMMA ClearStep ==
    ASSUME UploadInv, ClearChunks
    PROVE  UploadInv'
<1>1. UNCHANGED <<record, link, made, troubles, replaced>>
  BY DEF ClearChunks
<1>2. /\ pc = "clearing" /\ record \in Txns /\ record # None /\ txn = record
      /\ snap = {} => chunks[record] = {}
  BY DEF ClearChunks, UploadInv, TypeOK, CallInv, SearchInv
<1>3. /\ pc' = "close" /\ txn' = record /\ want' = want /\ i' = 0 /\ hi' = 0 /\ snap' = {}
      /\ fresh' \in BOOLEAN
  BY <1>2 DEF ClearChunks, Go
<1>4. leaked \subseteq leaked' /\ leaked' \in SUBSET Txns
  BY <1>2 DEF ClearChunks, UploadInv, TypeOK
<1>5. /\ chunks' \in [Txns -> SUBSET Chunks] /\ cut' \in SUBSET Txns
      /\ chunks'[record] = {} \/ record \in leaked'
      /\ chunks'[record] \in {{}, chunks[record]}
      /\ \A x \in Txns : x # record => chunks'[x] = chunks[x]
      /\ cut \subseteq cut'
      /\ record = link => chunks'[record] = chunks[record] \/ record \in cut'
  <2>1. CASE snap # {} /\ fresh
    <3>1. Lose(record)
      BY <1>2, <2>1 DEF ClearChunks
    <3> QED BY <1>2, <3>1, LoseFacts
  <2>2. CASE ~(snap # {} /\ fresh)
    <3>1. UNCHANGED <<chunks, cut>>
      BY <2>2 DEF ClearChunks
    <3>2. snap # {} => record \in leaked'
      BY <1>2, <2>2 DEF ClearChunks
    <3> QED BY <1>2, <3>1, <3>2 DEF UploadInv, TypeOK
  <2> QED BY <2>1, <2>2
<1>6. TypeOK'
  BY <1>1, <1>2, <1>3, <1>4, <1>5, ConstantsAssumption DEF UploadInv, TypeOK, Pcs
<1>7. LinkedWhole'
  BY <1>1, <1>2, <1>5 DEF UploadInv, TypeOK, LinkedWhole, Whole
<1>8. PrefixKept'
  <2>1. 0..(0 - 1) = {} /\ 0 \in 0..ChunkCount
    BY ConstantsAssumption
  <2>2. chunks'[record] = {} => PrefixKept'
    BY <1>1, <2>1 DEF PrefixKept
  <2>3. chunks'[record] = chunks[record] => PrefixKept'
    BY <1>1, <1>5 DEF UploadInv, PrefixKept
  <2> QED BY <1>5, <2>2, <2>3
<1>9. NoOrphans'
  BY <1>1, <1>4, <1>5 DEF UploadInv, NoOrphans
<1>10. ChunkInv' /\ CallInv' /\ SearchInv'
  BY <1>1, <1>2, <1>3, <1>5 DEF UploadInv, CallInv, ChunkInv, SearchInv
<1> QED
  BY <1>1, <1>5, <1>6, <1>7, <1>8, <1>9, <1>10 DEF UploadInv, Opened

(* Another device commits to the writer, or the file is deleted. *)
LEMMA OthersStep ==
    ASSUME UploadInv, OtherCommit \/ DeleteFile
    PROVE  UploadInv'
<1>1. UNCHANGED <<record, pc, txn, want, i, hi, snap, made, leaked, replaced>>
  BY DEF OtherCommit, DeleteFile, stored, call, search, ghosts
<1>2. troubles' \in 0..MaxTroubles
  BY ConstantsAssumption DEF OtherCommit, DeleteFile, Trouble, UploadInv, TypeOK
<1>3. fresh' \in BOOLEAN
  BY DEF OtherCommit, DeleteFile, UploadInv, TypeOK
<1>4. CASE OtherCommit
  <2>1. UNCHANGED <<chunks, link, cut>>
    BY <1>4 DEF OtherCommit, stored, ghosts
  <2>2. TypeOK'
    BY <1>1, <1>2, <1>3, <2>1 DEF UploadInv, TypeOK
  <2> QED
    BY <1>1, <2>1, <2>2 DEF UploadInv, CallInv, SearchInv, ChunkInv, LinkedWhole, PrefixKept,
       NoOrphans, Whole, Opened
<1>5. CASE DeleteFile
  <2>1. link \in Txns /\ Lose(link) /\ link' = None
    BY <1>5 DEF DeleteFile, UploadInv, TypeOK
  <2>2. /\ chunks' \in [Txns -> SUBSET Chunks] /\ cut' \in SUBSET Txns
        /\ chunks'[link] = {}
        /\ \A x \in Txns : x # link => chunks'[x] = chunks[x]
        /\ cut \subseteq cut' /\ link \in cut'
    BY <2>1, LoseFacts
  <2>3. TypeOK'
    BY <1>1, <1>2, <1>3, <2>1, <2>2 DEF UploadInv, TypeOK
  <2>4. record # None => record \in Txns /\ (record = link \/ chunks'[record] = chunks[record])
    BY <2>2 DEF UploadInv, TypeOK
  <2>5. SearchInv'
    BY <1>1, <2>2, <2>4 DEF UploadInv, CallInv, SearchInv
  <2>6. ChunkInv'
    BY <1>1, <2>1, <2>2, <2>4 DEF UploadInv, CallInv, ChunkInv, Whole
  <2>7. PrefixKept'
    BY <1>1, <2>2, <2>4 DEF UploadInv, PrefixKept
  <2>8. NoOrphans'
    BY <1>1, <2>1, <2>2 DEF UploadInv, NoOrphans
  <2>9. CallInv' /\ LinkedWhole'
    BY <1>1, <2>1 DEF UploadInv, CallInv, LinkedWhole
  <2> QED
    BY <1>1, <2>2, <2>3, <2>5, <2>6, <2>7, <2>8, <2>9 DEF UploadInv, Opened
<1> QED BY <1>4, <1>5

-----------------------------------------------------------------------------
(* UploadInv holds in every reachable state: however uploads, resumptions    *)
(* and clean-ups are interrupted, the client works on the transaction whose  *)
(* record is open and uploads the first chunk that is absent.                *)
THEOREM UploadAlways == Spec => []UploadInv
<1>1. UploadInv /\ [Next]_vars => UploadInv'
  <2> SUFFICES ASSUME UploadInv, [Next]_vars PROVE UploadInv'
    OBVIOUS
  <2>1. CASE (\E c \in Contents : Upload(c)) \/ Resume \/ ClearOpen
    BY <2>1, StartStep
  <2>2. CASE Progress
    <3>1. CASE Find \/ ReadPointer \/ BeginClear
      BY <3>1, ReadStep
    <3>2. CASE Search
      BY <3>2, SearchStep
    <3>3. CASE OpenRecord
      BY <3>3, OpenStep
    <3>4. CASE PutChunk
      BY <3>4, PutStep
    <3>5. CASE Link
      BY <3>5, LinkStep
    <3>6. CASE BeginClose \/ Close
      BY <3>6, CloseStep
    <3>7. CASE ClearChunks
      BY <3>7, ClearStep
    <3>8. CASE Refused
      BY <3>8, ReturnStep
    <3> QED BY <2>2, <3>1, <3>2, <3>3, <3>4, <3>5, <3>6, <3>7, <3>8 DEF Progress
  <2>3. CASE Stop
    BY <2>3, ReturnStep
  <2>4. CASE OtherCommit \/ DeleteFile
    BY <2>4, OthersStep
  <2>5. CASE UNCHANGED vars
    <3>1. TypeOK' /\ CallInv' /\ SearchInv'
      BY <2>5 DEF vars, stored, call, search, ghosts, UploadInv, TypeOK, CallInv, SearchInv, Opened
    <3>2. ChunkInv' /\ LinkedWhole' /\ PrefixKept' /\ NoOrphans'
      BY <2>5 DEF vars, stored, call, search, ghosts, UploadInv, ChunkInv, LinkedWhole, PrefixKept,
         NoOrphans, Whole, Opened
    <3>3. (\A t \in Txns : t = record \/ chunks[t] # {} => Opened(t))'
      BY <2>5 DEF vars, stored, call, search, ghosts, UploadInv, Opened
    <3> QED BY <3>1, <3>2, <3>3 DEF UploadInv
  <2> QED BY <2>1, <2>2, <2>3, <2>4, <2>5 DEF Next
<1> QED BY <1>1, InitInv, PTL DEF Spec

(* A file in the directory has all its chunks, unless they were removed      *)
(* after an earlier link while its record was still open: what               *)
(* upload_file_with_transaction and resume_transaction link is whole.        *)
THEOREM LinkedAlwaysWhole == Spec => []LinkedWhole
BY UploadAlways, PTL DEF UploadInv

(* The chunks of an open transaction are a prefix of the file, which         *)
(* find_first_absent_chunk relies on.                                        *)
THEOREM PrefixAlwaysKept == Spec => []PrefixKept
BY UploadAlways, PTL DEF UploadInv

(* No chunk is left in the champ without a link or a record that leads to    *)
(* it, but those of replaced files and of clean-ups that were refused.       *)
THEOREM NeverOrphans == Spec => []NoOrphans
BY UploadAlways, PTL DEF UploadInv
=============================================================================
