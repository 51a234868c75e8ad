---------------------------- MODULE CsvReaderProofs ----------------------------
(***************************************************************************)
(* Proofs about CsvReader, for every set of files, page and buffer sizes   *)
(* that leave room for a page.                                             *)
(*                                                                         *)
(* First the two threads: no page is read past the end of its buffer, and  *)
(* they never hold the parser at the same time (ReaderInv).  What the      *)
(* parser makes of a text plays no part in it.                             *)
(*                                                                         *)
(* Then the parser: a feed is the end of a run, one step per character     *)
(* (Run).  Two runs over the same characters stay the same (Same) but for  *)
(* where the rows are kept and for the rows taken before, so wherever the  *)
(* buffers are cut the parser is where one feed of the whole is at that    *)
(* place (Following).  What one feed has parsed only grows (Grows), so the *)
(* rows of the loop are those of all, in their order (Loading).            *)
(*                                                                         *)
(* Then the strings behind the rows: what is reserved for a text is enough *)
(* for it when no row goes on from the text before (FeedStays), and behind *)
(* whole lines with a delimiter none does (LinesTaken, Staying).           *)
(*                                                                         *)
(* Last the refinement: where a read has started all rows complete there   *)
(* are loaded (Bringing), so a read that brings none is the one behind the *)
(* last row, and every step is one of CostTable or leaves it alone.        *)
(***************************************************************************)
EXTENDS CsvReader, Counting

\* The worker has been started and has not come to its end.
Alive == {"running", "waiting", "feeding"}

\* Before the first read, while reading, and after the worker has been joined.
Before == {"guess", "fopen", "unopened"}
Reading == {"read", "flush", "drain"}
Joined == {"take", "body", "next", "undefined", "threw", "done"}

\* What waits in feed_buffer.
WorkItem == [null : BOOLEAN, text : Seq(STRING)]

\* The types of what the threads share.
Typing ==
    /\ file \in Files
    /\ pos \in 0 .. Len(file.content)
    /\ infile \in BOOLEAN /\ feof \in BOOLEAN
    /\ bytes \in {0, FirstBytes, ChunkBytes}
    /\ processed \in Nat
    /\ buffer \in Seq(STRING)
    /\ feed_buffer \in Seq(WorkItem)
    /\ worker \in {"none", "dead"} \cup Alive
    /\ delivered \in Nat
    /\ pc \in Before \cup Reading \cup {"join"} \cup Joined

\* What is handed over and what is not has been read.
Accounted == processed + Len(buffer) <= pos

\* Between two pages the buffer is not full.
Room ==
    /\ pc \in Reading => bytes \in {FirstBytes, ChunkBytes}
    /\ pc = "read" => buffer = <<>> \/ ~Full(buffer)

\* Only a worker that feeds has a text.
Fed == worker # "feeding" => chunk = <<>>

\* The item that ends the worker is put into the queue last, once, and is what it
\* takes last.
Protocol ==
    /\ pc \in Before => worker = "none" /\ feed_buffer = <<>>
    /\ pc \in Reading => worker \in Alive /\ \A k \in DOMAIN feed_buffer : ~feed_buffer[k].null
    /\ pc = "join" =>
          \/ worker = "dead" /\ feed_buffer = <<>>
          \/ /\ worker \in Alive /\ feed_buffer # <<>>
             /\ \A k \in DOMAIN feed_buffer : feed_buffer[k].null <=> k = Len(feed_buffer)
    /\ pc \in Joined => worker = "dead" /\ feed_buffer = <<>>

\* The null item holds no text.
NullIsEmpty == \A k \in DOMAIN feed_buffer : feed_buffer[k].null => feed_buffer[k].text = <<>>

\* The inductive invariant of the two threads.
ReaderInv == Typing /\ Accounted /\ Room /\ Fed /\ Protocol /\ NullIsEmpty

--------------------------------------------------------------------------------

\* A product with the same positive factor is smaller only if the other factor is.
LEMMA CancelFactor ==
    ASSUME NEW d \in Nat \ {0}, NEW a \in Int, NEW b \in Int, d * a <= d * b
    PROVE  a <= b
  <1> SUFFICES ASSUME b + 1 <= a PROVE FALSE
    OBVIOUS
  <1>1. d * (b + 1) <= d * a
    <2>1. PICK c \in Nat : a = (b + 1) + c
      <3>1. a - (b + 1) \in Nat
        OBVIOUS
      <3> QED
        BY <3>1
    <2>2. d * a = d * (b + 1) + d * c
      BY <2>1
    <2>3. d * c >= 0
      OBVIOUS
    <2> QED
      BY <2>2, <2>3
  <1>2. d * (b + 1) = d * b + d
    OBVIOUS
  <1> QED
    BY <1>1, <1>2

\* The sizes are positive numbers.
LEMMA Sizes ==
    /\ PageSize \in Nat \ {0, 1} /\ FirstBytes \in Nat \ {0, 1}
    /\ ChunkBytes \in Nat \ {0, 1} /\ BufferMax \in Nat \ {0, 1}
    /\ FlushNum \in Nat /\ FlushDen \in Nat \ {0}
    /\ \A n \in {FirstBytes, ChunkBytes} : BufferSize(n) \in Nat
  BY ReaderAssumption DEF BufferSize

\* A buffer that is not full has room for a page (csv.hpp:4934).
LEMMA RoomForAPage ==
    ASSUME NEW n \in {FirstBytes, ChunkBytes}, NEW len \in Nat,
           len = 0 \/ FlushDen * len <= FlushNum * BufferSize(n)
    PROVE  len + PageSize <= BufferSize(n)
  <1> DEFINE L == BufferSize(n)
  <1>1. L \in Nat /\ PageSize \in Nat /\ FlushNum \in Nat /\ FlushDen \in Nat \ {0}
    BY Sizes
  <1>2. FlushNum * L + FlushDen * PageSize <= FlushDen * L
    BY BufferAssumption
  <1>3. FlushDen * len <= FlushNum * L
    <2>1. CASE len = 0
      <3>1. FlushDen * len = 0 /\ FlushNum * L >= 0
        BY <1>1, <2>1
      <3> QED
        BY <3>1, <1>1
    <2> QED
      BY <2>1
  <1> HIDE DEF L
  <1>4. FlushDen * (len + PageSize) <= FlushDen * L
    <2>1. FlushDen * (len + PageSize) = FlushDen * len + FlushDen * PageSize
      BY <1>1
    <2>2. FlushDen * len \in Int /\ FlushDen * PageSize \in Int /\ FlushNum * L \in Int
          /\ FlushDen * L \in Int
      BY <1>1
    <2> QED
      BY <1>2, <1>3, <2>1, <2>2
  <1>5. len + PageSize <= L
    BY <1>1, <1>4, CancelFactor
  <1> QED
    BY <1>5 DEF L

--------------------------------------------------------------------------------
(* One lemma for the steps of each thread. *)

\* It holds before anything is read.
LEMMA InitReader == Init => ReaderInv
  <1> SUFFICES ASSUME Init PROVE ReaderInv
    OBVIOUS
  <1>1. file.content \in Seq(STRING)
    BY ReaderAssumption DEF Init
  <1>2. Len(file.content) \in Nat /\ <<>> \in Seq(STRING) /\ <<>> \in Seq(WorkItem)
    BY <1>1
  <1>3. Typing
    <2>1. /\ file \in Files /\ pos = 0 /\ infile = FALSE /\ feof = FALSE /\ bytes = 0
          /\ processed = 0 /\ buffer = <<>> /\ feed_buffer = <<>> /\ worker = "none"
          /\ delivered = 0 /\ pc = "guess"
      BY DEF Init
    <2>2. pos \in 0 .. Len(file.content) /\ processed \in Nat /\ delivered \in Nat
      BY <1>2, <2>1
    <2>3. buffer \in Seq(STRING)
      BY <1>2, <2>1
    <2>4. feed_buffer \in Seq(WorkItem)
      BY <1>2, <2>1
    <2> QED
      BY <2>1, <2>2, <2>3, <2>4, Zenon DEF Typing, Before
  <1> QED
    BY <1>3 DEF Init, ReaderInv, Accounted, Room, Fed, Protocol, NullIsEmpty, Before, Reading, Joined

\* fgets puts a line behind what is in the buffer, which is handed over when it is
\* full then (csv.hpp:4929-4934).
LEMMA GetLineStep ==
    ASSUME ReaderInv, GetLine
    PROVE  ReaderInv'
  <1>1. file.content \in Seq(STRING)
    BY ReaderAssumption DEF ReaderInv, Typing
  <1>2. PICK n \in 1 .. Len(file.content) - pos :
            /\ buffer' = buffer \o SubSeq(file.content, pos + 1, pos + n)
            /\ pos' = pos + n
            /\ feof' = (feof \/ (n < PageSize - 1 /\ file.content[pos + n] # "\n"))
    BY DEF GetLine
  <1>3. pos \in Nat /\ Len(file.content) \in Nat /\ pos + n \in 0 .. Len(file.content)
    BY <1>1, <1>2 DEF ReaderInv, Typing
  <1>4. /\ SubSeq(file.content, pos + 1, pos + n) \in Seq(STRING)
        /\ Len(SubSeq(file.content, pos + 1, pos + n)) = n
    <2>1. \A i \in pos + 1 .. pos + n : file.content[i] \in STRING
      BY <1>1, <1>3, ElementOfSeq
    <2> QED
      BY <1>3, <2>1, SubSeqProperties
  <1>5. buffer' \in Seq(STRING) /\ Len(buffer') = Len(buffer) + n
    BY <1>2, <1>4, ConcatProperties DEF ReaderInv, Typing
  <1>6. Typing'
    BY <1>2, <1>3, <1>5 DEF GetLine, ReaderInv, Typing, Reading, threadVars, loopVars
  <1>7. Accounted'
    BY <1>2, <1>3, <1>5 DEF GetLine, ReaderInv, Typing, Accounted
  <1>8. Room'
    BY DEF GetLine, ReaderInv, Room, Reading, Full, Limit
  <1>9. (Fed /\ Protocol /\ NullIsEmpty)'
    BY DEF GetLine, ReaderInv, Fed, Protocol, NullIsEmpty, Before, Reading, Joined, threadVars
  <1> QED
    BY <1>6, <1>7, <1>8, <1>9 DEF ReaderInv

\* An item that is no null pointer is put behind such items (csv.hpp:4936-4944).
LEMMA FlushStep ==
    ASSUME ReaderInv, Flush
    PROVE  ReaderInv'
  <1>1. Item(buffer) \in WorkItem /\ ~Item(buffer).null
    BY DEF ReaderInv, Typing, Item, WorkItem
  <1>2. /\ feed_buffer' \in Seq(WorkItem)
        /\ Len(feed_buffer') = Len(feed_buffer) + 1
        /\ \A k \in 1 .. Len(feed_buffer) : feed_buffer'[k] = feed_buffer[k]
        /\ feed_buffer'[Len(feed_buffer) + 1] = Item(buffer)
    BY <1>1, AppendProperties DEF Flush, ReaderInv, Typing
  <1>3. Typing'
    BY <1>2 DEF Flush, ReaderInv, Typing, Reading, Alive, Notified, fileVars, loopVars
  <1>4. Accounted'
    BY DEF Flush, ReaderInv, Typing, Accounted, fileVars
  <1>5. Room'
    BY DEF Flush, ReaderInv, Room, Reading, fileVars
  <1>6. Fed'
    BY DEF Flush, ReaderInv, Fed, Notified
  <1>7. Protocol' /\ NullIsEmpty'
    <2>1. \A k \in DOMAIN feed_buffer' : ~feed_buffer'[k].null
      BY <1>1, <1>2 DEF Flush, ReaderInv, Typing, Protocol, Reading
    <2> QED
      BY <2>1 DEF Flush, ReaderInv, Protocol, NullIsEmpty, Before, Reading, Joined, Alive, Notified
  <1> QED
    BY <1>3, <1>4, <1>5, <1>6, <1>7 DEF ReaderInv

\* The rest of the buffer and the null pointer come last (csv.hpp:4949-4953).
LEMMA DrainStep ==
    ASSUME ReaderInv, Drain
    PROVE  ReaderInv'
  <1>1. /\ Item(buffer) \in WorkItem /\ ~Item(buffer).null
        /\ Null \in WorkItem /\ Null.null /\ Null.text = <<>>
    BY DEF ReaderInv, Typing, Item, Null, WorkItem
  <1>2. /\ <<Item(buffer), Null>> \in Seq(WorkItem)
        /\ Len(<<Item(buffer), Null>>) = 2
        /\ <<Item(buffer), Null>>[1] = Item(buffer)
        /\ <<Item(buffer), Null>>[2] = Null
    BY <1>1
  <1>3. /\ feed_buffer' \in Seq(WorkItem)
        /\ Len(feed_buffer') = Len(feed_buffer) + 2
        /\ \A k \in 1 .. Len(feed_buffer) : feed_buffer'[k] = feed_buffer[k]
        /\ feed_buffer'[Len(feed_buffer) + 1] = Item(buffer)
        /\ feed_buffer'[Len(feed_buffer) + 2] = Null
    <2>1. feed_buffer' = feed_buffer \o <<Item(buffer), Null>>
      BY DEF Drain
    <2>2. feed_buffer \in Seq(WorkItem) /\ Len(feed_buffer) \in Nat
      BY DEF ReaderInv, Typing
    <2> QED
      BY <1>2, <2>1, <2>2, ConcatProperties
  <1>4. Typing'
    BY <1>3 DEF Drain, ReaderInv, Typing, Reading, Alive, Notified, fileVars, loopVars
  <1>5. (Accounted /\ Room /\ Fed)'
    BY DEF Drain, ReaderInv, Typing, Accounted, Room, Reading, Fed, Notified, fileVars
  <1>6. \A k \in DOMAIN feed_buffer' :
            /\ feed_buffer'[k].null <=> k = Len(feed_buffer')
            /\ feed_buffer'[k].null => feed_buffer'[k].text = <<>>
    <2>1. \A k \in 1 .. Len(feed_buffer) : ~feed_buffer'[k].null
      BY <1>3 DEF Drain, ReaderInv, Typing, Protocol, Reading
    <2>2. Len(feed_buffer) \in Nat /\ DOMAIN feed_buffer' = 1 .. Len(feed_buffer) + 2
      BY <1>3 DEF ReaderInv, Typing
    <2> QED
      BY <1>1, <1>3, <2>1, <2>2
  <1>7. feed_buffer' # <<>> /\ worker' \in Alive
    BY <1>3 DEF Drain, ReaderInv, Typing, Protocol, Reading, Alive, Notified
  <1>8. (Protocol /\ NullIsEmpty)'
    BY <1>6, <1>7 DEF Drain, Protocol, NullIsEmpty, Before, Reading, Joined
  <1> QED
    BY <1>4, <1>5, <1>8 DEF ReaderInv

\* The other steps of the main thread leave the queue alone, and start a worker
\* where there is none, or end one that is done.
LEMMA OtherMainSteps ==
    ASSUME ReaderInv,
           \/ OpenFails \/ GuessFromHead \/ OpenFile \/ NoLine \/ EnoughBytes \/ Join
           \/ TakeRow \/ TakeFromNone \/ ReadMore \/ AtEnd \/ ReadMoved \/ LoadRow
           \/ RowThrows
    PROVE  ReaderInv'
  <1> USE DEF fileVars, readVars, threadVars, loopVars
  <1>1. CASE OpenFails \/ GuessFromHead
    BY <1>1 DEF OpenFails, GuessFromHead, ReaderInv, Typing, Accounted, Room, Fed, Protocol,
               NullIsEmpty, Before, Reading, Joined
  <1>2. CASE OpenFile \/ ReadMore
    <2>1. <<>> \in Seq(STRING) /\ Len(<<>>) = 0 /\ 0 \in Nat
      OBVIOUS
    <2>2. /\ bytes' \in {FirstBytes, ChunkBytes} /\ processed' = 0 /\ buffer' = <<>>
          /\ worker' = "running" /\ pc' = "read" /\ infile' \in BOOLEAN
          /\ feed_buffer = <<>> /\ worker # "feeding"
          /\ UNCHANGED <<file, pos, feof, feed_buffer, chunk, loopVars>>
      BY <1>2 DEF OpenFile, ReadMore, StartReading, ReaderInv, Typing, Protocol, Before, Joined
    <2>3. Typing'
      BY <2>1, <2>2 DEF ReaderInv, Typing, Alive, Reading
    <2>4. (Accounted /\ Room /\ Fed /\ Protocol /\ NullIsEmpty)'
      BY <2>1, <2>2 DEF ReaderInv, Typing, Accounted, Room, Fed, Protocol, NullIsEmpty, Before,
                        Reading, Joined, Alive
    <2> QED
      BY <2>3, <2>4 DEF ReaderInv
  <1>3. CASE NoLine \/ EnoughBytes
    BY <1>3 DEF NoLine, EnoughBytes, ReaderInv, Typing, Accounted, Room, Fed, Protocol,
               NullIsEmpty, Before, Reading, Joined
  <1>4. CASE Join
    BY <1>4 DEF Join, ReaderInv, Typing, Accounted, Room, Fed, Protocol, NullIsEmpty, Before,
               Reading, Joined, Alive
  <1>5. CASE TakeRow \/ TakeFromNone \/ AtEnd \/ ReadMoved \/ LoadRow \/ RowThrows
    BY <1>5 DEF TakeRow, TakeFromNone, AtEnd, ReadMoved, LoadRow, RowThrows, ReaderInv, Typing, Accounted,
               Room, Fed, Protocol, NullIsEmpty, Before, Reading, Joined
  <1> QED
    BY <1>1, <1>2, <1>3, <1>4, <1>5

\* The worker takes from the front, so that the null pointer stays last, and ends
\* with it (csv.hpp:4869-4880).
LEMMA WorkerTakesStep ==
    ASSUME ReaderInv, WorkerTakes
    PROVE  ReaderInv'
  <1> USE DEF fileVars, readVars, loopVars
  <1>1. feed_buffer \in Seq(WorkItem) /\ feed_buffer # <<>> /\ feed_buffer' = Tail(feed_buffer)
    BY DEF WorkerTakes, ReaderInv, Typing
  <1>2. /\ Head(feed_buffer) = feed_buffer[1] /\ Len(feed_buffer) \in Nat \ {0}
        /\ feed_buffer[1] \in WorkItem
    BY <1>1
  <1>3. /\ Tail(feed_buffer) \in Seq(WorkItem) /\ Len(Tail(feed_buffer)) = Len(feed_buffer) - 1
        /\ \A k \in 1 .. Len(feed_buffer) - 1 : Tail(feed_buffer)[k] = feed_buffer[k + 1]
    BY <1>1
  <1>4. Typing'
    BY <1>1, <1>3 DEF WorkerTakes, ReaderInv, Typing, Alive
  <1>5. (Accounted /\ Room)'
    BY DEF WorkerTakes, ReaderInv, Accounted, Room, Reading, Full, Limit
  <1>6. Fed' /\ NullIsEmpty'
    BY <1>1, <1>2, <1>3 DEF WorkerTakes, ReaderInv, Typing, NullIsEmpty, Fed
  <1>7. CASE pc \in Reading
    BY <1>1, <1>2, <1>3, <1>4, <1>5, <1>6, <1>7
       DEF WorkerTakes, ReaderInv, Protocol, Before, Reading, Joined, Alive
  <1>8. CASE pc = "join"
    <2>1. \A k \in DOMAIN feed_buffer : feed_buffer[k].null <=> k = Len(feed_buffer)
      BY <1>8 DEF WorkerTakes, ReaderInv, Protocol
    <2>2. CASE Len(feed_buffer) = 1
      <3>1. Head(feed_buffer).null /\ feed_buffer' = <<>>
        BY <1>1, <1>2, <1>3, <2>1, <2>2
      <3>2. Protocol'
        BY <1>8, <3>1 DEF WorkerTakes, Protocol, Before, Reading, Joined
      <3> QED
        BY <1>4, <1>5, <1>6, <3>2 DEF ReaderInv
    <2>3. CASE Len(feed_buffer) # 1
      <3>1. ~Head(feed_buffer).null /\ feed_buffer' # <<>>
        BY <1>1, <1>2, <1>3, <2>1, <2>3
      <3>2. \A k \in DOMAIN feed_buffer' : feed_buffer'[k].null <=> k = Len(feed_buffer')
        BY <1>1, <1>2, <1>3, <2>1
      <3>3. Protocol'
        BY <1>8, <3>1, <3>2 DEF WorkerTakes, Protocol, Before, Reading, Joined, Alive
      <3> QED
        BY <1>4, <1>5, <1>6, <3>3 DEF ReaderInv
    <2> QED
      BY <2>2, <2>3
  <1>9. pc \in Reading \/ pc = "join"
    BY DEF WorkerTakes, ReaderInv, Typing, Protocol
  <1> QED
    BY <1>7, <1>8, <1>9

\* The worker waits, wakes up or feeds.
LEMMA OtherWorkerSteps ==
    ASSUME ReaderInv, WorkerWaits \/ SpuriousWakeup \/ WorkerFeeds
    PROVE  ReaderInv'
  BY DEF WorkerWaits, SpuriousWakeup, WorkerFeeds, ReaderInv, Typing, Accounted, Room, Full, Limit,
         Fed, Protocol, NullIsEmpty, Before, Reading, Joined, Alive, fileVars, readVars, loopVars

\* No step breaks it.
LEMMA ReaderStep ==
    ASSUME ReaderInv, [Next]_vars
    PROVE  ReaderInv'
  <1>1. CASE Next
    BY <1>1, GetLineStep, FlushStep, DrainStep, OtherMainSteps, WorkerTakesStep, OtherWorkerSteps
       DEF Next, MainStep, WorkerStep
  <1>2. CASE UNCHANGED vars
    BY <1>2 DEF vars, fileVars, readVars, threadVars, loopVars, ReaderInv, Typing, Accounted, Room,
               Full, Limit, Fed, Protocol, NullIsEmpty
  <1> QED
    BY <1>1, <1>2

\* So it always holds.
LEMMA ReaderInvariant == Spec => []ReaderInv
  BY InitReader, ReaderStep, PTL DEF Spec

--------------------------------------------------------------------------------
(* The results. *)

\* The reader's variables stay in their types: no more is handed over than was read,
\* and the queue's end is where the worker needs it.
THEOREM CsvTypeCorrect == Spec => []CsvTypeOK
  <1>1. ASSUME ReaderInv PROVE CsvTypeOK
    <2>1. processed \in 0 .. pos /\ Len(buffer) <= pos
      BY <1>1 DEF ReaderInv, Typing, Accounted
    <2>2. \A k \in DOMAIN feed_buffer :
              feed_buffer[k].null <=> (pc = "join" /\ k = Len(feed_buffer))
      <3>1. CASE pc = "join"
        BY <1>1, <3>1 DEF ReaderInv, Protocol
      <3>2. CASE pc \in Reading
        BY <1>1, <3>2 DEF ReaderInv, Protocol, Reading
      <3>3. CASE pc \in Before \cup Joined
        BY <1>1, <3>3 DEF ReaderInv, Protocol, Before, Joined
      <3> QED
        BY <1>1, <3>1, <3>2, <3>3 DEF ReaderInv, Typing
    <2> QED
      BY <1>1, <2>1, <2>2
         DEF ReaderInv, Typing, Fed, Alive, Before, Reading, Joined, CsvTypeOK, Ended
  <1> QED
    BY <1>1, ReaderInvariant, PTL

\* fgets never writes behind the end of its buffer (csv.hpp:4921-4934).
THEOREM BufferFitsAlways == Spec => []BufferFits
  <1>1. ASSUME ReaderInv PROVE BufferFits
    <2> SUFFICES ASSUME pc = "read" PROVE Len(buffer) + PageSize <= Limit
      BY DEF BufferFits
    <2>1. bytes \in {FirstBytes, ChunkBytes} /\ Len(buffer) \in Nat
      BY <1>1 DEF ReaderInv, Typing, Room, Reading
    <2>2. Len(buffer) = 0 \/ FlushDen * Len(buffer) <= FlushNum * BufferSize(bytes)
      <3>1. CASE buffer = <<>>
        BY <3>1
      <3>2. CASE ~Full(buffer)
        <4>1. FlushDen * Len(buffer) \in Int /\ FlushNum * BufferSize(bytes) \in Int
          BY <2>1, Sizes
        <4> QED
          BY <3>2, <4>1 DEF Full, Limit
      <3> QED
        BY <1>1, <3>1, <3>2 DEF ReaderInv, Room
    <2> QED
      BY <2>1, <2>2, RoomForAPage DEF Limit
  <1> QED
    BY <1>1, ReaderInvariant, PTL

\* Rows are taken only when the worker is gone and nothing is left for it
\* (csv.hpp:4954-4957, 4987-5001).
THEOREM RowsUnsharedAlways == Spec => []RowsUnshared
  <1>1. ASSUME ReaderInv PROVE RowsUnshared
    BY <1>1 DEF ReaderInv, Protocol, Joined, RowsUnshared
  <1> QED
    BY <1>1, ReaderInvariant, PTL

--------------------------------------------------------------------------------
(* The run of the parser over a text, step by step. *)

\* The state of feed() before its loop.
Start(r) == [r |-> r, quote_escape |-> FALSE, skip |-> FALSE]

\* run[i] is the state behind i characters.
IsRun(run, r, in) ==
    run = [i \in 0 .. Len(in) |->
              IF i = 0 THEN Start(r)
              ELSE CHOOSE w \in {FeedStep(s, in, i) : s \in {run[i - 1]}} : TRUE]

\* The run there is, as Feed chooses it.
Run(r, in) == CHOOSE run : IsRun(run, r, in)

\* What feed() does before its loop (csv.hpp:4724).
Reserved(r, in) == [r EXCEPT !.record_buffer = Reserve(@, Len(in))]

\* A feed is the end of its run, in a new buffer.
LEMMA FeedIsRun ==
    ASSUME NEW r, NEW in
    PROVE  Feed(r, in) = [Run(Reserved(r, in), in)[Len(in)].r EXCEPT !.record_buffer = Reset(@)]
  BY Zenon DEF Feed, Applied, Run, IsRun, Start, Reserved

\* Every text has a run, of which a feed is the end (csv.hpp:4723-4790).
LEMMA RunSteps ==
    ASSUME NEW r, NEW in, Len(in) \in Nat
    PROVE  /\ Run(r, in)[0] = Start(r)
           /\ \A i \in 1 .. Len(in) : Run(r, in)[i] = FeedStep(Run(r, in)[i - 1], in, i)
  <1> DEFINE Next1(g, i) == IF i = 0 THEN Start(r)
                         ELSE CHOOSE w \in {FeedStep(s, in, i) : s \in {g[i - 1]}} : TRUE
             Upto(g, n) == g = [i \in 0 .. n |-> Next1(g, i)]
             Bad == {n \in Nat : ~\E g : Upto(g, n)}
  <1>1. Bad = {}
    <2> SUFFICES ASSUME Bad # {} PROVE FALSE
      OBVIOUS
    <2>1. PICK n \in Bad : \A k \in Bad : n <= k
      BY LeastNatural
    <2>2. CASE n = 0
      <3>1. Upto([i \in 0 .. 0 |-> Start(r)], 0)
        OBVIOUS
      <3> QED BY <2>1, <2>2, <3>1
    <2>3. CASE n # 0
      <3>1. n \in Nat /\ n - 1 \in Nat /\ n - 1 \notin Bad
        <4>1. n \in Nat /\ n - 1 \in Nat /\ ~(n <= n - 1)
          BY <2>1, <2>3
        <4> QED BY <2>1, <4>1
      <3>2. PICK g : Upto(g, n - 1)
        BY <3>1
      <3> DEFINE h == [i \in 0 .. n |-> Next1(g, i)]
      <3>3. \A i \in 0 .. n - 1 : h[i] = g[i]
        <4> HIDE DEF Next1
        <4> QED BY <3>1, <3>2
      <3>4. \A i \in 0 .. n : Next1(g, i) = Next1(h, i)
        <4> SUFFICES ASSUME NEW i \in 0 .. n, i # 0 PROVE g[i - 1] = h[i - 1]
          OBVIOUS
        <4>1. i - 1 \in 0 .. n - 1
          BY <3>1
        <4> QED BY <3>3, <4>1
      <3>5. h = [i \in 0 .. n |-> Next1(g, i)]
        OBVIOUS
      <3> HIDE DEF h
      <3>6. Upto(h, n)
        <4> HIDE DEF Next1
        <4> QED BY ONLY <3>4, <3>5
      <3> QED BY <2>1, <3>6
    <2> QED BY <2>2, <2>3
  <1>2. \E g : IsRun(g, r, in)
    <2>1. \E g : Upto(g, Len(in))
      BY <1>1
    <2> QED BY <2>1, Zenon DEF IsRun
  <1> DEFINE run == Run(r, in)
  <1>3. IsRun(run, r, in)
    BY <1>2 DEF Run
  <1> HIDE DEF run
  <1>4. \A i \in 0 .. Len(in) : run[i] = Next1(run, i)
    BY <1>3, Zenon DEF IsRun
  <1>5. \A g, i : i # 0 => Next1(g, i) = FeedStep(g[i - 1], in, i)
    OBVIOUS
  <1> HIDE DEF Next1
  <1>6. run[0] = Start(r)
    <2>1. Next1(run, 0) = Start(r)
      BY DEF Next1
    <2> QED BY <1>4, <2>1
  <1>7. \A i \in 1 .. Len(in) : run[i] = FeedStep(run[i - 1], in, i)
    <2> TAKE i \in 1 .. Len(in)
    <2>1. i \in 0 .. Len(in) /\ i # 0
      OBVIOUS
    <2> QED BY <1>4, <1>5, <2>1
  <1> QED BY <1>6, <1>7 DEF run

--------------------------------------------------------------------------------
(* What a step of the parser keeps. *)

\* A record of these fields.
Holds(r, fields) == r = [name \in fields |-> r[name]]

\* The fields of a buffer, of a parser and of the state of the loop.
BufferFields == {"text", "splits", "current_end", "views", "capacity"}
ReaderFields == {"delimiter", "quote_char", "header_row", "record_buffer", "col_names",
                 "header_was_parsed", "row_num", "records", "bad"}
StateFields == {"r", "quote_escape", "skip"}

\* A row in the queue of rows.
RowView == [text : Seq(STRING), splits : Seq(Int), moved : BOOLEAN]

\* What the code has as RawRowBuffer, CSVReader and the locals of feed().
IsBuffer(b) ==
    /\ Holds(b, BufferFields)
    /\ b.text \in Seq(STRING) /\ b.splits \in Seq(Int)
    /\ b.current_end \in Int /\ b.views \in Int /\ b.capacity \in Int

IsReader(r) ==
    /\ Holds(r, ReaderFields)
    /\ IsBuffer(r.record_buffer)
    /\ r.header_was_parsed \in BOOLEAN
    /\ r.records \in Seq(RowView)

IsState(s) ==
    /\ Holds(s, StateFields)
    /\ s.quote_escape \in BOOLEAN /\ s.skip \in BOOLEAN
    /\ IsReader(s.r)

\* The parts of the format that feed() only reads.
SameFormat(r, u) ==
    r.delimiter = u.delimiter /\ r.quote_char = u.quote_char /\ r.header_row = u.header_row

\* Rows of the same text, wherever it is kept.
SameRow(a, b) == a.text = b.text /\ a.splits = b.splits

\* What r has parsed is what u has, of whose rows the first t are gone from r.
Same(r, u, t) ==
    /\ SameFormat(r, u)
    /\ r.col_names = u.col_names /\ r.header_was_parsed = u.header_was_parsed
    /\ r.row_num = u.row_num /\ r.bad = u.bad
    /\ SameRow(r.record_buffer, u.record_buffer)
    /\ Len(u.records) = t + Len(r.records)
    /\ \A k \in 1 .. Len(r.records) : SameRow(r.records[k], u.records[t + k])

\* A character is added to the text, whose string may move (csv.hpp:4772, 4780).
LEMMA AppendTextEffect ==
    ASSUME NEW r, IsReader(r), NEW ch \in STRING
    PROVE  LET a == AppendText(r, ch)
           IN  /\ IsReader(a)
               /\ SameFormat(a, r)
               /\ a.col_names = r.col_names /\ a.header_was_parsed = r.header_was_parsed
               /\ a.row_num = r.row_num /\ a.bad = r.bad
               /\ a.record_buffer.text = Append(r.record_buffer.text, ch)
               /\ a.record_buffer.splits = r.record_buffer.splits
               /\ Len(a.records) = Len(r.records)
               /\ \A k \in 1 .. Len(r.records) : SameRow(a.records[k], r.records[k])
  <1> DEFINE kept == Len(r.records) - r.record_buffer.views
             left == [k \in DOMAIN r.records |->
                         IF k > kept THEN [r.records[k] EXCEPT !.moved = TRUE] ELSE r.records[k]]
             mine == Append(r.record_buffer.text, ch)
  <1> USE DEF Holds, ReaderFields, BufferFields
  <1>1. IsBuffer(r.record_buffer) /\ r.records \in Seq(RowView) /\ Len(r.records) \in Nat
    BY DEF IsReader
  <1>2. mine \in Seq(STRING)
    BY <1>1 DEF IsBuffer
  <1>3. /\ left \in Seq(RowView) /\ Len(left) = Len(r.records)
        /\ \A k \in 1 .. Len(r.records) : SameRow(left[k], r.records[k])
    <2>1. DOMAIN r.records = 1 .. Len(r.records) /\ \A k \in 1 .. Len(r.records) : r.records[k] \in RowView
      BY <1>1
    <2>2. \A k \in 1 .. Len(r.records) : left[k] \in RowView /\ SameRow(left[k], r.records[k])
      BY <2>1 DEF RowView, SameRow
    <2>3. left = [k \in 1 .. Len(r.records) |-> left[k]]
      BY <2>1
    <2> HIDE DEF left
    <2>4. left \in [1 .. Len(r.records) -> RowView]
      BY ONLY <2>2, <2>3
    <2>5. left \in Seq(RowView)
      BY <1>1, <2>4, SeqDef
    <2> QED BY <1>1, <2>2, <2>4, <2>5
  <1> HIDE DEF left, mine
  <1>4. CASE ~Outgrown(r.record_buffer)
    <2>1. AppendText(r, ch) = [r EXCEPT !.record_buffer.text = mine]
      BY <1>4 DEF AppendText, mine
    <2>2. IsReader([r EXCEPT !.record_buffer.text = mine])
      BY <1>1, <1>2 DEF IsReader, IsBuffer
    <2> QED BY <2>1, <2>2, <1>1, <1>2 DEF IsReader, IsBuffer, SameFormat, SameRow, mine
  <1>5. CASE Outgrown(r.record_buffer)
    <2> DEFINE b == [Moved(r.record_buffer) EXCEPT !.text = mine]
               a == [r EXCEPT !.record_buffer = b, !.records = left]
    <2>0. IsBuffer(Moved(r.record_buffer))
          /\ Moved(r.record_buffer).text = r.record_buffer.text
          /\ Moved(r.record_buffer).splits = r.record_buffer.splits
      <3> DEFINE c == 2 * r.record_buffer.capacity + 1
                 m == [r.record_buffer EXCEPT !.capacity = c, !.views = 0]
      <3>1. c \in Int /\ Moved(r.record_buffer) = m
        BY <1>1 DEF IsBuffer, Moved
      <3> HIDE DEF c
      <3>2. /\ m.text = r.record_buffer.text /\ m.splits = r.record_buffer.splits
            /\ m.current_end = r.record_buffer.current_end /\ m.views = 0 /\ m.capacity = c
            /\ Holds(m, BufferFields)
        BY <1>1 DEF IsBuffer
      <3> HIDE DEF m, Holds
      <3> QED BY <1>1, <3>1, <3>2 DEF IsBuffer
    <2>1. AppendText(r, ch) = a
      BY <1>5, <2>0 DEF AppendText, mine, left, IsReader
    <2>3. IsBuffer(b) /\ b.text = mine /\ b.splits = r.record_buffer.splits
      BY <2>0, <1>2 DEF IsBuffer
    <2> HIDE DEF b
    <2>2. /\ a.record_buffer = b
          /\ a.records = left /\ SameFormat(a, r)
          /\ a.col_names = r.col_names /\ a.header_was_parsed = r.header_was_parsed
          /\ a.row_num = r.row_num /\ a.bad = r.bad
      BY DEF IsReader, SameFormat
    <2>4. IsReader(a)
      BY <2>2, <2>3, <1>3 DEF IsReader
    <2> HIDE DEF a
    <2> QED BY <2>1, <2>2, <2>3, <2>4, <1>3 DEF mine
  <1> QED BY <1>4, <1>5

\* Whether a record is a row, the header, or taken from the buffer for nothing.
IsRow(r) == r.header_was_parsed /\ RowSize(GetRow(r.record_buffer)) = Len(r.col_names)
IsHeader(r) == ~r.header_was_parsed /\ r.row_num = r.header_row
IsRejected(r) ==
    /\ r.header_was_parsed /\ ~(RowSize(GetRow(r.record_buffer)) = Len(r.col_names))
    /\ RowSize(GetRow(r.record_buffer)) > 1

\* A record goes into the rows, into the header or nowhere (csv.hpp:4793-4838).
LEMMA WriteRecordEffect ==
    ASSUME NEW r, IsReader(r)
    PROVE  LET w == WriteRecord(r)
               buf == r.record_buffer
               taken == IsRow(r) \/ IsHeader(r) \/ IsRejected(r)
           IN  /\ IsReader(w)
               /\ SameFormat(w, r)
               /\ w.col_names = IF IsHeader(r) THEN Fields(GetRow(buf)) ELSE r.col_names
               /\ w.header_was_parsed <=> r.header_was_parsed \/ IsHeader(r)
               /\ w.row_num = IF IsRow(r) \/ ~r.header_was_parsed THEN r.row_num + 1 ELSE r.row_num
               /\ w.bad = IF IsRejected(r)
                          THEN Append(r.bad, [size |-> RowSize(GetRow(buf)), at |-> r.row_num])
                          ELSE r.bad
               /\ w.record_buffer.text = IF taken THEN <<>> ELSE buf.text
               /\ w.record_buffer.splits = IF taken THEN <<>> ELSE buf.splits
               /\ w.record_buffer.capacity = buf.capacity
               /\ BufferLength(w.record_buffer) = BufferLength(buf)
               /\ w.records = IF IsRow(r) THEN Append(r.records, GetRow(buf)) ELSE r.records
  <1> DEFINE buf == r.record_buffer
             line == GetRow(buf)
             size == RowSize(line)
             left(kept) == [buf EXCEPT !.text = <<>>, !.splits = <<>>, !.current_end = BufferLength(buf),
                                       !.views = IF kept THEN @ + 1 ELSE @]
  <1>1. IsBuffer(buf) /\ r.records \in Seq(RowView) /\ r.header_was_parsed \in BOOLEAN
    BY DEF IsReader
  <1>2. line \in RowView /\ size \in Nat /\ size >= 1
    BY <1>1 DEF IsBuffer, GetRow, RowView, RowSize
  <1>3. ASSUME NEW kept \in BOOLEAN
        PROVE  /\ AfterGetRow(buf, kept) = left(kept) /\ IsBuffer(left(kept))
               /\ left(kept).text = <<>> /\ left(kept).splits = <<>>
               /\ left(kept).capacity = buf.capacity /\ BufferLength(left(kept)) = BufferLength(buf)
    <2> DEFINE e == BufferLength(buf)
               v == IF kept THEN buf.views + 1 ELSE buf.views
               m == [buf EXCEPT !.text = <<>>, !.splits = <<>>, !.current_end = e, !.views = v]
    <2>1. e \in Int /\ v \in Int
      BY <1>1 DEF IsBuffer, BufferLength
    <2>2. AfterGetRow(buf, kept) = m /\ left(kept) = m
      BY DEF AfterGetRow
    <2> HIDE DEF v, e
    <2>3. /\ m.text = <<>> /\ m.splits = <<>> /\ m.current_end = e /\ m.views = v
          /\ m.capacity = buf.capacity /\ Holds(m, BufferFields)
      BY <1>1 DEF IsBuffer, Holds, BufferFields
    <2> HIDE DEF m
    <2>4. IsBuffer(m)
      BY <1>1, <2>1, <2>3 DEF IsBuffer
    <2>5. BufferLength(m) = e
      BY <2>1, <2>3 DEF BufferLength
    <2> QED BY <2>2, <2>3, <2>4, <2>5 DEF e
  <1> HIDE DEF left
  <1>4. CASE IsRow(r)
    <2> DEFINE b == left(TRUE)
               recs == Append(r.records, line)
               num == r.row_num + 1
               w == [r EXCEPT !.record_buffer = b, !.records = recs, !.row_num = num]
    <2>1. WriteRecord(r) = w
      <3>1. [[r EXCEPT !.record_buffer = b] EXCEPT !.records = Append(@, line), !.row_num = @ + 1] = w
        BY DEF IsReader, Holds, ReaderFields
      <3> QED BY <1>3, <1>4, <3>1 DEF IsRow, WriteRecord
    <2>2. recs \in Seq(RowView)
      BY <1>1, <1>2
    <2> HIDE DEF b, recs, num
    <2>3. /\ w.record_buffer = b /\ w.records = recs /\ w.row_num = num /\ Holds(w, ReaderFields)
          /\ w.header_was_parsed = r.header_was_parsed /\ w.col_names = r.col_names /\ w.bad = r.bad
          /\ SameFormat(w, r)
      BY DEF IsReader, Holds, ReaderFields, SameFormat
    <2> HIDE DEF w
    <2>4. IsReader(w)
      BY <1>1, <1>3, <2>2, <2>3 DEF IsReader, b
    <2>5. ~IsHeader(r) /\ ~IsRejected(r) /\ r.header_was_parsed
      BY <1>4 DEF IsRow, IsHeader, IsRejected
    <2>6. b.text = <<>> /\ b.splits = <<>> /\ b.capacity = buf.capacity /\ BufferLength(b) = BufferLength(buf)
      BY <1>3 DEF b
    <2> QED BY <1>4, <2>1, <2>3, <2>4, <2>5, <2>6 DEF recs, num
  <1>5. CASE IsRejected(r)
    <2> DEFINE b == left(FALSE)
               bad == Append(r.bad, [size |-> size, at |-> r.row_num])
               w == [r EXCEPT !.record_buffer = b, !.bad = bad]
    <2>1. WriteRecord(r) = w
      <3> DEFINE x == [r EXCEPT !.record_buffer = b]
      <3>1. WriteRecord(r) = BadRowHandler(x, size)
        <4>1. AfterGetRow(buf, FALSE) = b
          BY <1>3
        <4>2. WriteRecord(r) = BadRowHandler([r EXCEPT !.record_buffer = AfterGetRow(@, FALSE)],
                                             RowSize(GetRow(r.record_buffer)))
          BY ONLY <1>5 DEF IsRejected, WriteRecord
        <4> QED BY <4>1, <4>2
      <3>2. x.row_num = r.row_num /\ x.bad = r.bad
        BY DEF IsReader, Holds, ReaderFields
      <3>3. BadRowHandler(x, size) = [x EXCEPT !.bad = bad]
        BY <3>2 DEF BadRowHandler
      <3>4. [x EXCEPT !.bad = bad] = w
        BY DEF IsReader, Holds, ReaderFields
      <3> QED BY <3>1, <3>3, <3>4
    <2> HIDE DEF b, bad
    <2>3. /\ w.record_buffer = b /\ w.records = r.records /\ w.row_num = r.row_num /\ Holds(w, ReaderFields)
          /\ w.header_was_parsed = r.header_was_parsed /\ w.col_names = r.col_names /\ w.bad = bad
          /\ SameFormat(w, r)
      BY DEF IsReader, Holds, ReaderFields, SameFormat
    <2> HIDE DEF w
    <2>4. IsReader(w)
      BY <1>1, <1>3, <2>3 DEF IsReader, b
    <2>5. ~IsHeader(r) /\ ~IsRow(r) /\ r.header_was_parsed
      BY <1>5 DEF IsRow, IsHeader, IsRejected
    <2>6. b.text = <<>> /\ b.splits = <<>> /\ b.capacity = buf.capacity /\ BufferLength(b) = BufferLength(buf)
      BY <1>3 DEF b
    <2> QED BY <1>5, <2>1, <2>3, <2>4, <2>5, <2>6 DEF bad
  <1>6. CASE IsHeader(r)
    <2> DEFINE b == left(FALSE)
               names == Fields(line)
               num == r.row_num + 1
               w == [r EXCEPT !.record_buffer = b, !.col_names = names,
                              !.header_was_parsed = TRUE, !.row_num = num]
    <2>1. WriteRecord(r) = w
      <3>1. [[[r EXCEPT !.record_buffer = b]
                 EXCEPT !.col_names = names, !.header_was_parsed = TRUE] EXCEPT !.row_num = @ + 1] = w
        BY DEF IsReader, Holds, ReaderFields
      <3> QED BY <1>3, <1>6, <3>1 DEF IsHeader, WriteRecord, SetColNames
    <2> HIDE DEF b, names, num
    <2>3. /\ w.record_buffer = b /\ w.records = r.records /\ w.row_num = num /\ Holds(w, ReaderFields)
          /\ w.header_was_parsed = TRUE /\ w.col_names = names /\ w.bad = r.bad
          /\ SameFormat(w, r)
      BY DEF IsReader, Holds, ReaderFields, SameFormat
    <2> HIDE DEF w
    <2>4. IsReader(w)
      BY <1>1, <1>3, <2>3 DEF IsReader, b
    <2>5. ~IsRejected(r) /\ ~IsRow(r) /\ ~r.header_was_parsed
      BY <1>6 DEF IsRow, IsHeader, IsRejected
    <2>6. b.text = <<>> /\ b.splits = <<>> /\ b.capacity = buf.capacity /\ BufferLength(b) = BufferLength(buf)
      BY <1>3 DEF b
    <2> QED BY <1>6, <2>1, <2>3, <2>4, <2>5, <2>6 DEF num, names
  <1>7. CASE ~r.header_was_parsed /\ ~IsHeader(r)
    <2> DEFINE num == r.row_num + 1
               w == [r EXCEPT !.row_num = num]
    <2>1. WriteRecord(r) = w
      BY <1>7 DEF IsHeader, WriteRecord
    <2> HIDE DEF num
    <2>3. /\ w.record_buffer = buf /\ w.records = r.records /\ w.row_num = num /\ Holds(w, ReaderFields)
          /\ w.header_was_parsed = r.header_was_parsed /\ w.col_names = r.col_names /\ w.bad = r.bad
          /\ SameFormat(w, r)
      BY DEF IsReader, Holds, ReaderFields, SameFormat
    <2> HIDE DEF w
    <2>4. IsReader(w)
      BY <1>1, <2>3 DEF IsReader
    <2> QED BY <1>7, <2>1, <2>3, <2>4 DEF num, IsRow, IsRejected
  <1>8. CASE r.header_was_parsed /\ ~IsRow(r) /\ ~IsRejected(r)
    <2>1. WriteRecord(r) = r
      BY <1>2, <1>8 DEF IsRow, IsRejected, WriteRecord
    <2> QED BY <1>8, <2>1 DEF SameFormat, IsHeader
  <1> QED BY <1>4, <1>5, <1>6, <1>7, <1>8

\* Whatever is parsed the same is written the same.
LEMMA WriteRecordSame ==
    ASSUME NEW r, NEW u, NEW t \in Nat, IsReader(r), IsReader(u), Same(r, u, t)
    PROVE  IsReader(WriteRecord(r)) /\ Same(WriteRecord(r), WriteRecord(u), t)
  <1> DEFINE w == WriteRecord(r)
             v == WriteRecord(u)
  <1>1. GetRow(r.record_buffer) = GetRow(u.record_buffer)
    BY DEF Same, SameRow, GetRow
  <1>2. (IsRow(r) <=> IsRow(u)) /\ (IsHeader(r) <=> IsHeader(u)) /\ (IsRejected(r) <=> IsRejected(u))
    BY <1>1 DEF Same, SameFormat, IsRow, IsHeader, IsRejected
  <1>3. /\ IsReader(w) /\ IsReader(v) /\ SameFormat(w, r) /\ SameFormat(v, u)
        /\ w.record_buffer.text = v.record_buffer.text
        /\ w.record_buffer.splits = v.record_buffer.splits
        /\ w.col_names = v.col_names /\ w.row_num = v.row_num /\ w.bad = v.bad
        /\ w.records = IF IsRow(r) THEN Append(r.records, GetRow(r.record_buffer)) ELSE r.records
        /\ v.records = IF IsRow(r) THEN Append(u.records, GetRow(r.record_buffer)) ELSE u.records
    <2>1. /\ IsReader(w) /\ SameFormat(w, r)
          /\ w.col_names = IF IsHeader(r) THEN Fields(GetRow(r.record_buffer)) ELSE r.col_names
          /\ w.row_num = IF IsRow(r) \/ ~r.header_was_parsed THEN r.row_num + 1 ELSE r.row_num
          /\ w.bad = IF IsRejected(r)
                     THEN Append(r.bad, [size |-> RowSize(GetRow(r.record_buffer)), at |-> r.row_num])
                     ELSE r.bad
          /\ w.record_buffer.text =
                IF IsRow(r) \/ IsHeader(r) \/ IsRejected(r) THEN <<>> ELSE r.record_buffer.text
          /\ w.record_buffer.splits =
                IF IsRow(r) \/ IsHeader(r) \/ IsRejected(r) THEN <<>> ELSE r.record_buffer.splits
          /\ w.records = IF IsRow(r) THEN Append(r.records, GetRow(r.record_buffer)) ELSE r.records
      BY WriteRecordEffect
    <2>2. /\ IsReader(v) /\ SameFormat(v, u)
          /\ v.col_names = IF IsHeader(u) THEN Fields(GetRow(u.record_buffer)) ELSE u.col_names
          /\ v.row_num = IF IsRow(u) \/ ~u.header_was_parsed THEN u.row_num + 1 ELSE u.row_num
          /\ v.bad = IF IsRejected(u)
                     THEN Append(u.bad, [size |-> RowSize(GetRow(u.record_buffer)), at |-> u.row_num])
                     ELSE u.bad
          /\ v.record_buffer.text =
                IF IsRow(u) \/ IsHeader(u) \/ IsRejected(u) THEN <<>> ELSE u.record_buffer.text
          /\ v.record_buffer.splits =
                IF IsRow(u) \/ IsHeader(u) \/ IsRejected(u) THEN <<>> ELSE u.record_buffer.splits
          /\ v.records = IF IsRow(u) THEN Append(u.records, GetRow(u.record_buffer)) ELSE u.records
      BY WriteRecordEffect
    <2> HIDE DEF w, v
    <2> QED BY ONLY <1>1, <1>2, <2>1, <2>2, Same(r, u, t) DEF Same, SameRow
  <1>4. w.header_was_parsed = v.header_was_parsed
    <2>1. /\ w.header_was_parsed <=> r.header_was_parsed \/ IsHeader(r)
          /\ v.header_was_parsed <=> u.header_was_parsed \/ IsHeader(u)
      BY WriteRecordEffect
    <2> QED BY <1>2, <1>3, <2>1 DEF IsReader, Same
  <1> HIDE DEF w, v
  <1>5. /\ Len(v.records) = t + Len(w.records)
        /\ \A k \in 1 .. Len(w.records) : SameRow(w.records[k], v.records[t + k])
    <2>1. r.records \in Seq(RowView) /\ u.records \in Seq(RowView)
          /\ GetRow(r.record_buffer) \in RowView
      BY DEF IsReader, IsBuffer, GetRow, RowView
    <2>2. /\ Len(u.records) = t + Len(r.records)
          /\ \A k \in 1 .. Len(r.records) : SameRow(r.records[k], u.records[t + k])
      BY DEF Same
    <2>3. CASE IsRow(r)
      <3> DEFINE n == Len(r.records)
                 line == GetRow(r.record_buffer)
      <3>1. n \in Nat /\ Len(u.records) = t + n
        BY <2>1, <2>2
      <3>2. /\ Len(w.records) = n + 1 /\ w.records[n + 1] = line
            /\ \A k \in 1 .. n : w.records[k] = r.records[k]
        BY <1>3, <2>1, <2>3, AppendProperties
      <3>3. /\ Len(v.records) = t + n + 1 /\ v.records[t + n + 1] = line
            /\ \A k \in 1 .. t + n : v.records[k] = u.records[k]
        <4>1. v.records = Append(u.records, line) /\ Len(u.records) = t + n /\ t + n \in Nat
          BY <1>3, <2>3, <3>1
        <4> HIDE DEF n, line
        <4> QED BY <2>1, <4>1, AppendProperties DEF line
      <3>4. ASSUME NEW k \in 1 .. n + 1 PROVE SameRow(w.records[k], v.records[t + k])
        <4>1. CASE k = n + 1
          <5>1. t + k = t + n + 1
            BY <3>1, <4>1
          <5> QED BY <3>2, <3>3, <4>1, <5>1 DEF SameRow
        <4>2. CASE k # n + 1
          <5>1. k \in 1 .. n /\ t + k \in 1 .. t + n
            BY <3>1, <4>2
          <5> QED BY <2>2, <3>2, <3>3, <5>1
        <4> QED BY <4>1, <4>2
      <3> QED BY <3>1, <3>2, <3>3, <3>4
    <2>4. CASE ~IsRow(r)
      BY <1>3, <2>2, <2>4
    <2> QED BY <2>3, <2>4
  <1>6. SameFormat(w, v)
    BY <1>3 DEF Same, SameFormat
  <1>7. Same(w, v, t)
    BY <1>3, <1>4, <1>5, <1>6 DEF Same, SameRow
  <1> QED BY <1>3, <1>7 DEF w, v

\* Whatever is parsed the same goes on the same.
LEMMA AppendTextSame ==
    ASSUME NEW r, NEW u, NEW t \in Nat, NEW ch \in STRING, IsReader(r), IsReader(u), Same(r, u, t)
    PROVE  IsReader(AppendText(r, ch)) /\ Same(AppendText(r, ch), AppendText(u, ch), t)
  <1> DEFINE a == AppendText(r, ch)
             b == AppendText(u, ch)
  <1>1. /\ IsReader(a) /\ SameFormat(a, r)
        /\ a.col_names = r.col_names /\ a.header_was_parsed = r.header_was_parsed
        /\ a.row_num = r.row_num /\ a.bad = r.bad
        /\ a.record_buffer.text = Append(r.record_buffer.text, ch)
        /\ a.record_buffer.splits = r.record_buffer.splits
        /\ Len(a.records) = Len(r.records)
        /\ \A k \in 1 .. Len(r.records) : SameRow(a.records[k], r.records[k])
    BY AppendTextEffect
  <1>2. /\ IsReader(b) /\ SameFormat(b, u)
        /\ b.col_names = u.col_names /\ b.header_was_parsed = u.header_was_parsed
        /\ b.row_num = u.row_num /\ b.bad = u.bad
        /\ b.record_buffer.text = Append(u.record_buffer.text, ch)
        /\ b.record_buffer.splits = u.record_buffer.splits
        /\ Len(b.records) = Len(u.records)
        /\ \A k \in 1 .. Len(u.records) : SameRow(b.records[k], u.records[k])
    BY AppendTextEffect
  <1> HIDE DEF a, b
  <1>3. ASSUME NEW k \in 1 .. Len(a.records) PROVE SameRow(a.records[k], b.records[t + k])
    <2>1. Len(r.records) \in Nat /\ Len(u.records) = t + Len(r.records)
      BY DEF IsReader, Same
    <2>2. k \in 1 .. Len(r.records) /\ t + k \in 1 .. Len(u.records)
      BY <1>1, <2>1
    <2> QED BY <1>1, <1>2, <2>2 DEF Same, SameRow
  <1>4. Same(a, b, t)
    BY <1>1, <1>2, <1>3 DEF Same, SameFormat, SameRow
  <1> QED BY <1>1, <1>4 DEF a, b

\* The row in progress gets another field.
Split(r) ==
    [r EXCEPT !.record_buffer.splits = Append(@, Len(r.record_buffer.text) % MaxSplit)]

\* Only the splits change (csv.hpp:4743-4745).
LEMMA SplitEffect ==
    ASSUME NEW r, IsReader(r)
    PROVE  LET z == Split(r)
           IN  /\ IsReader(z) /\ SameFormat(z, r)
               /\ z.col_names = r.col_names /\ z.header_was_parsed = r.header_was_parsed
               /\ z.row_num = r.row_num /\ z.bad = r.bad /\ z.records = r.records
               /\ z.record_buffer = [r.record_buffer EXCEPT !.splits = z.record_buffer.splits]
               /\ z.record_buffer.text = r.record_buffer.text
               /\ z.record_buffer.splits =
                      Append(r.record_buffer.splits, Len(r.record_buffer.text) % MaxSplit)
  <1> DEFINE n == Len(r.record_buffer.text) % MaxSplit
             q == Append(r.record_buffer.splits, n)
             c == [r.record_buffer EXCEPT !.splits = q]
             z == Split(r)
  <1>1. n \in Int
    BY ParserAssumption DEF IsReader, IsBuffer
  <1> HIDE DEF n
  <1>2. q \in Seq(Int)
    BY <1>1 DEF IsReader, IsBuffer
  <1>3. z = [r EXCEPT !.record_buffer = c]
    BY DEF Split, n
  <1> HIDE DEF q, z
  <1>4. IsBuffer(c) /\ c.text = r.record_buffer.text /\ c.splits = q
    BY <1>2 DEF IsReader, IsBuffer, Holds, BufferFields
  <1>5. c = [r.record_buffer EXCEPT !.splits = q]
    OBVIOUS
  <1> HIDE DEF c
  <1>6. /\ Holds(z, ReaderFields) /\ z.record_buffer = c /\ z.records = r.records
        /\ z.col_names = r.col_names /\ z.header_was_parsed = r.header_was_parsed
        /\ z.row_num = r.row_num /\ z.bad = r.bad /\ SameFormat(z, r)
    BY <1>3 DEF IsReader, Holds, ReaderFields, SameFormat
  <1>7. IsReader(z)
    BY <1>4, <1>6 DEF IsReader
  <1> QED BY <1>4, <1>5, <1>6, <1>7 DEF q, n, z

\* Whatever is parsed the same is split the same.
LEMMA SplitSame ==
    ASSUME NEW r, NEW u, NEW t \in Nat, IsReader(r), IsReader(u), Same(r, u, t)
    PROVE  IsReader(Split(r)) /\ Same(Split(r), Split(u), t)
  <1> DEFINE x == Split(r)
             y == Split(u)
  <1>1. /\ IsReader(x) /\ SameFormat(x, r)
        /\ x.col_names = r.col_names /\ x.header_was_parsed = r.header_was_parsed
        /\ x.row_num = r.row_num /\ x.bad = r.bad /\ x.records = r.records
        /\ x.record_buffer.text = r.record_buffer.text
        /\ x.record_buffer.splits = Append(r.record_buffer.splits, Len(r.record_buffer.text) % MaxSplit)
    BY SplitEffect
  <1>2. /\ IsReader(y) /\ SameFormat(y, u)
        /\ y.col_names = u.col_names /\ y.header_was_parsed = u.header_was_parsed
        /\ y.row_num = u.row_num /\ y.bad = u.bad /\ y.records = u.records
        /\ y.record_buffer.text = u.record_buffer.text
        /\ y.record_buffer.splits = Append(u.record_buffer.splits, Len(u.record_buffer.text) % MaxSplit)
    BY SplitEffect
  <1> HIDE DEF x, y
  <1>3. Same(x, y, t)
    BY <1>1, <1>2 DEF Same, SameFormat, SameRow
  <1> QED BY <1>1, <1>3 DEF x, y

\* A step puts a parser back into the state of the loop.
Put(s, r, escape, skip) == [s EXCEPT !.r = r, !.quote_escape = escape, !.skip = skip]

\* What has been put there is found there.
LEMMA PutState ==
    ASSUME NEW s, NEW r, NEW escape \in BOOLEAN, NEW skip \in BOOLEAN, IsState(s), IsReader(r)
    PROVE  /\ IsState(Put(s, r, escape, skip)) /\ Put(s, r, escape, skip).r = r
           /\ Put(s, r, escape, skip).quote_escape = escape /\ Put(s, r, escape, skip).skip = skip
  <1> DEFINE z == Put(s, r, escape, skip)
  <1>1. Holds(z, StateFields) /\ z.r = r /\ z.skip = skip /\ z.quote_escape = escape
    BY DEF IsState, Holds, StateFields, Put
  <1> HIDE DEF z
  <1>2. IsState(z)
    BY <1>1 DEF IsState
  <1> QED BY <1>1, <1>2 DEF z

\* What a step may do to the parser.
Outcome(r, ch) == {r, Split(r), WriteRecord(r), AppendText(r, ch)}

\* Every step of the loop has one of these outcomes (csv.hpp:4730-4786).
LEMMA FeedStepOutcome ==
    ASSUME NEW s, IsState(s), NEW in \in Seq(STRING), NEW i \in 1 .. Len(in)
    PROVE  \E r \in Outcome(s.r, in[i]), escape \in BOOLEAN, skip \in BOOLEAN :
               FeedStep(s, in, i) = Put(s, r, escape, skip)
  <1> DEFINE at(k) == IF k \in DOMAIN in THEN in[k] ELSE "NUL"
             flag(k) == ParseFlag(s.r, at(k))
             here == flag(i)
             e == s.quote_escape
             k0 == s.skip
             k1 == (at(i + 1) = "\n")
             k2 == (i > 1 /\ flag(i - 1) \in EndsField)
             k3 == flag(i + 1) \in EndsField
             k4 == (flag(i + 1) = "QUOTE")
  <1>0. /\ e \in BOOLEAN /\ k0 \in BOOLEAN
        /\ k1 \in BOOLEAN /\ k2 \in BOOLEAN /\ k3 \in BOOLEAN /\ k4 \in BOOLEAN /\ FALSE \in BOOLEAN
    BY DEF IsState
  <1>1. FeedStep(s, in, i) =
            IF k0 THEN [s EXCEPT !.skip = FALSE]
            ELSE IF here = "DELIMITER" /\ ~e THEN [s EXCEPT !.r = Split(s.r)]
            ELSE IF here = "NEWLINE" /\ ~e THEN [s EXCEPT !.r = WriteRecord(s.r), !.skip = k1]
            ELSE IF here = "QUOTE" /\ ~e THEN [s EXCEPT !.quote_escape = k2]
            ELSE IF here = "QUOTE" /\ k3 THEN [s EXCEPT !.quote_escape = FALSE]
            ELSE IF here = "QUOTE"
            THEN [[s EXCEPT !.skip = k4] EXCEPT !.r = AppendText([s EXCEPT !.skip = k4].r, in[i])]
            ELSE [s EXCEPT !.r = AppendText(s.r, in[i])]
    BY <1>0 DEF FeedStep, Split
  <1> HIDE DEF k1, k2, k3, k4, here
  <1>2. /\ \A x : [s EXCEPT !.r = x] = Put(s, x, e, k0)
        /\ \A x, k : [s EXCEPT !.r = x, !.skip = k] = Put(s, x, e, k)
        /\ \A k : [s EXCEPT !.quote_escape = k] = Put(s, s.r, k, k0)
        /\ \A k : [s EXCEPT !.skip = k] = Put(s, s.r, e, k)
        /\ \A x, k : [[s EXCEPT !.skip = k] EXCEPT !.r = x] = Put(s, x, e, k)
        /\ \A k : [s EXCEPT !.skip = k].r = s.r
    BY DEF IsState, Holds, StateFields, Put
  <1> HIDE DEF e, k0
  <1> USE <1>0, <1>1, <1>2 DEF Outcome
  <1>3. CASE k0
    BY <1>3
  <1>4. CASE ~k0 /\ here = "DELIMITER" /\ ~e
    BY <1>4
  <1>5. CASE ~k0 /\ here = "NEWLINE" /\ ~e
    <2>1. here # "DELIMITER" /\ FeedStep(s, in, i) = Put(s, WriteRecord(s.r), e, k1)
      BY <1>5
    <2> QED BY ONLY <1>0, <2>1 DEF Outcome
  <1>6. CASE ~k0 /\ here = "QUOTE" /\ ~e
    BY <1>6
  <1>7. CASE ~k0 /\ here = "QUOTE" /\ e /\ k3
    BY <1>7
  <1>8. CASE ~k0 /\ here = "QUOTE" /\ e /\ ~k3
    <2>1. FeedStep(s, in, i) = Put(s, AppendText(s.r, in[i]), e, k4)
      <3>1. FeedStep(s, in, i) =
                [[s EXCEPT !.skip = k4] EXCEPT !.r = AppendText([s EXCEPT !.skip = k4].r, in[i])]
        BY ONLY <1>0, <1>1, <1>8
      <3>2. [s EXCEPT !.skip = k4].r = s.r
        BY ONLY <1>2
      <3>3. FeedStep(s, in, i) = [[s EXCEPT !.skip = k4] EXCEPT !.r = AppendText(s.r, in[i])]
        BY ONLY <3>1, <3>2
      <3> QED BY ONLY <1>2, <3>3
    <2> QED BY ONLY <1>0, <2>1 DEF Outcome
  <1>9. CASE ~k0 /\ here # "QUOTE" /\ (here \in {"DELIMITER", "NEWLINE"} => e)
    BY <1>9
  <1> QED BY <1>3, <1>4, <1>5, <1>6, <1>7, <1>8, <1>9

\* Whatever a step does, what is parsed has the parser's shape and format.
LEMMA OutcomeTyped ==
    ASSUME NEW s, IsState(s), NEW in \in Seq(STRING), NEW i \in 1 .. Len(in)
    PROVE  IsState(FeedStep(s, in, i)) /\ SameFormat(FeedStep(s, in, i).r, s.r)
  <1>1. PICK r \in Outcome(s.r, in[i]), escape \in BOOLEAN, skip \in BOOLEAN :
            FeedStep(s, in, i) = Put(s, r, escape, skip)
    BY FeedStepOutcome
  <1>2. in[i] \in STRING /\ IsReader(s.r)
    BY DEF IsState
  <1>3. IsReader(r) /\ SameFormat(r, s.r)
    <2>1. CASE r = s.r
      BY <1>2, <2>1 DEF SameFormat
    <2>2. CASE r = Split(s.r)
      BY <1>2, <2>2, SplitEffect
    <2>3. CASE r = WriteRecord(s.r)
      BY <1>2, <2>3, WriteRecordEffect
    <2>4. CASE r = AppendText(s.r, in[i])
      BY <1>2, <2>4, AppendTextEffect
    <2> QED BY <2>1, <2>2, <2>3, <2>4 DEF Outcome
  <1>4. IsState(Put(s, r, escape, skip)) /\ Put(s, r, escape, skip).r = r
    BY <1>3, PutState
  <1> QED BY <1>1, <1>3, <1>4

\* Whether the character at i is followed by a newline.
Ahead(in, i) == i < Len(in) /\ in[i + 1] = "\n"

\* A step at a character that is no quote.
PlainStep(s, ch, ahead) ==
    IF s.skip THEN Put(s, s.r, FALSE, FALSE)
    ELSE IF ch = s.r.delimiter THEN Put(s, Split(s.r), FALSE, FALSE)
    ELSE IF ch \in Newlines THEN Put(s, WriteRecord(s.r), FALSE, ahead)
    ELSE Put(s, AppendText(s.r, ch), FALSE, FALSE)

\* This is such a step outside of quotes (csv.hpp:4742-4774).
LEMMA FeedStepPlain ==
    ASSUME NEW s, IsState(s), ~s.quote_escape, s.r.quote_char = Quote,
           NEW in \in Seq(STRING), NEW i \in 1 .. Len(in), in[i] # Quote
    PROVE  FeedStep(s, in, i) = PlainStep(s, in[i], Ahead(in, i))
  <1> DEFINE at(k) == IF k \in DOMAIN in THEN in[k] ELSE "NUL"
             flag(k) == ParseFlag(s.r, at(k))
             ahead == Ahead(in, i)
  <1>1. at(i) = in[i] /\ (at(i + 1) = "\n") = ahead /\ i \in DOMAIN in
    BY DEF Ahead
  <1>2. s.skip \in BOOLEAN /\ s.quote_escape = FALSE
    BY DEF IsState
  <1>3. /\ \A x : ~s.skip => [s EXCEPT !.r = x] = Put(s, x, FALSE, FALSE)
        /\ \A x, k : [s EXCEPT !.r = x, !.skip = k] = Put(s, x, FALSE, k)
        /\ [s EXCEPT !.skip = FALSE] = Put(s, s.r, FALSE, FALSE)
    BY <1>2 DEF IsState, Holds, StateFields, Put
  <1>4. CASE s.skip
    BY <1>3, <1>4 DEF FeedStep, PlainStep
  <1>5. CASE ~s.skip /\ in[i] = s.r.delimiter
    <2>1. flag(i) = "DELIMITER"
      BY <1>1, <1>5 DEF ParseFlag
    <2>2. FeedStep(s, in, i) = [s EXCEPT !.r = Split(s.r)]
      BY <1>1, <1>2, <1>5, <2>1 DEF FeedStep, Split
    <2> QED BY <1>3, <1>5, <2>2 DEF PlainStep
  <1>6. CASE ~s.skip /\ in[i] # s.r.delimiter /\ in[i] \in Newlines
    <2>1. flag(i) = "NEWLINE"
      BY <1>1, <1>6 DEF ParseFlag, Newlines
    <2>2. FeedStep(s, in, i) = [s EXCEPT !.r = WriteRecord(s.r), !.skip = (at(i + 1) = "\n")]
      BY <1>1, <1>2, <1>6, <2>1 DEF FeedStep
    <2>3. FeedStep(s, in, i) = [s EXCEPT !.r = WriteRecord(s.r), !.skip = ahead]
      BY <1>1, <2>2
    <2> HIDE DEF ahead
    <2>4. FeedStep(s, in, i) = Put(s, WriteRecord(s.r), FALSE, ahead)
      BY ONLY <1>3, <2>3
    <2> QED BY <1>6, <2>4 DEF PlainStep, ahead
  <1>7. CASE ~s.skip /\ in[i] # s.r.delimiter /\ in[i] \notin Newlines
    <2>1. flag(i) = "NOT_SPECIAL"
      BY <1>1, <1>7 DEF ParseFlag, Newlines
    <2>2. FeedStep(s, in, i) = [s EXCEPT !.r = AppendText(s.r, in[i])]
      BY <1>1, <1>2, <1>7, <2>1 DEF FeedStep
    <2> QED BY <1>3, <1>7, <2>2 DEF PlainStep
  <1> QED BY <1>2, <1>4, <1>5, <1>6, <1>7

\* It keeps two parsers the same.
LEMMA PlainStepSame ==
    ASSUME NEW s, NEW u, NEW t \in Nat, NEW ch \in STRING, NEW a \in BOOLEAN, NEW b \in BOOLEAN,
           IsState(s), IsState(u), Same(s.r, u.r, t), s.skip = u.skip
    PROVE  LET p == PlainStep(s, ch, a)
               q == PlainStep(u, ch, b)
           IN  /\ IsState(p) /\ ~p.quote_escape
               /\ IsState(q) /\ ~q.quote_escape
               /\ Same(p.r, q.r, t)
               /\ a = b => p.skip = q.skip
               /\ q.skip => ch \in Newlines /\ b
  <1> DEFINE p == PlainStep(s, ch, a)
             q == PlainStep(u, ch, b)
             no == FALSE
  <1>1. s.r.delimiter = u.r.delimiter /\ IsReader(s.r) /\ IsReader(u.r)
        /\ s.skip \in BOOLEAN /\ u.skip \in BOOLEAN
    BY DEF Same, SameFormat, IsState
  <1>2. no \in BOOLEAN /\ ~no
    OBVIOUS
  <1>3. \A v, r, e, k : IsState(v) /\ IsReader(r) /\ e \in BOOLEAN /\ k \in BOOLEAN =>
            /\ IsState(Put(v, r, e, k)) /\ Put(v, r, e, k).r = r
            /\ Put(v, r, e, k).quote_escape = e /\ Put(v, r, e, k).skip = k
    BY PutState
  <1>4. /\ s.skip => p = Put(s, s.r, no, no) /\ q = Put(u, u.r, no, no)
        /\ ~s.skip /\ ch = s.r.delimiter => p = Put(s, Split(s.r), no, no) /\ q = Put(u, Split(u.r), no, no)
        /\ ~s.skip /\ ch # s.r.delimiter /\ ch \in Newlines =>
              p = Put(s, WriteRecord(s.r), no, a) /\ q = Put(u, WriteRecord(u.r), no, b)
        /\ ~s.skip /\ ch # s.r.delimiter /\ ch \notin Newlines =>
              p = Put(s, AppendText(s.r, ch), no, no) /\ q = Put(u, AppendText(u.r, ch), no, no)
    BY <1>1 DEF PlainStep
  <1> HIDE DEF p, q, no
  <1>5. CASE s.skip
    <2>1. /\ IsState(p) /\ p.r = s.r /\ p.skip = no /\ p.quote_escape = no
          /\ IsState(q) /\ q.r = u.r /\ q.skip = no /\ q.quote_escape = no
      BY <1>1, <1>2, <1>3, <1>4, <1>5
    <2> QED BY <1>2, <2>1 DEF p, q
  <1>6. CASE ~s.skip /\ ch = s.r.delimiter
    <2>1. IsReader(Split(s.r)) /\ IsReader(Split(u.r)) /\ Same(Split(s.r), Split(u.r), t)
      BY <1>1, SplitSame, SplitEffect
    <2>2. /\ IsState(p) /\ p.r = Split(s.r) /\ p.skip = no /\ p.quote_escape = no
          /\ IsState(q) /\ q.r = Split(u.r) /\ q.skip = no /\ q.quote_escape = no
      BY <1>1, <1>2, <1>3, <1>4, <1>6, <2>1
    <2> QED BY <1>2, <2>1, <2>2 DEF p, q
  <1>7. CASE ~s.skip /\ ch # s.r.delimiter /\ ch \in Newlines
    <2>1. /\ IsReader(WriteRecord(s.r)) /\ IsReader(WriteRecord(u.r))
          /\ Same(WriteRecord(s.r), WriteRecord(u.r), t)
      BY <1>1, WriteRecordSame, WriteRecordEffect
    <2>2. /\ IsState(p) /\ p.r = WriteRecord(s.r) /\ p.skip = a /\ p.quote_escape = no
          /\ IsState(q) /\ q.r = WriteRecord(u.r) /\ q.skip = b /\ q.quote_escape = no
      BY <1>1, <1>2, <1>3, <1>4, <1>7, <2>1
    <2> QED BY <1>2, <1>7, <2>1, <2>2 DEF p, q
  <1>8. CASE ~s.skip /\ ch # s.r.delimiter /\ ch \notin Newlines
    <2>1. IsReader(AppendText(s.r, ch)) /\ IsReader(AppendText(u.r, ch))
          /\ Same(AppendText(s.r, ch), AppendText(u.r, ch), t)
      BY <1>1, AppendTextSame, AppendTextEffect
    <2>2. /\ IsState(p) /\ p.r = AppendText(s.r, ch) /\ p.skip = no /\ p.quote_escape = no
          /\ IsState(q) /\ q.r = AppendText(u.r, ch) /\ q.skip = no /\ q.quote_escape = no
      BY <1>1, <1>2, <1>3, <1>4, <1>8, <2>1
    <2> QED BY <1>2, <2>1, <2>2 DEF p, q
  <1> QED BY <1>1, <1>5, <1>6, <1>7, <1>8

\* g goes step by step along the text.
Steps(g, in) == \A i \in 1 .. Len(in) : g[i] = FeedStep(g[i - 1], in, i)

\* Along a run the parser keeps its shape and format.
LEMMA StepsTyped ==
    ASSUME NEW g, NEW in \in Seq(STRING), Steps(g, in), IsState(g[0])
    PROVE  \A i \in 0 .. Len(in) : IsState(g[i]) /\ SameFormat(g[i].r, g[0].r)
  <1> DEFINE Fine(i) == IsState(g[i]) /\ SameFormat(g[i].r, g[0].r)
             Bad == {i \in 0 .. Len(in) : ~Fine(i)}
  <1> SUFFICES ASSUME Bad # {} PROVE FALSE
    OBVIOUS
  <1>1. Len(in) \in Nat /\ Bad \in SUBSET Nat
    OBVIOUS
  <1>2. PICK n \in Bad : \A k \in Bad : n <= k
    BY <1>1, LeastNatural
  <1>3. n # 0
    BY DEF SameFormat
  <1>4. n \in 1 .. Len(in) /\ n - 1 \in 0 .. Len(in) /\ ~(n <= n - 1)
    BY <1>1, <1>3
  <1>5. Fine(n - 1)
    BY <1>2, <1>4
  <1>6. IsState(g[n]) /\ SameFormat(g[n].r, g[n - 1].r)
    BY <1>4, <1>5, OutcomeTyped DEF Steps
  <1> QED BY <1>2, <1>5, <1>6 DEF SameFormat

\* Two runs over the same characters, one of which is over a part of what the other
\* is over, stay the same but for the rows taken before.
LEMMA RunsTogether ==
    ASSUME NEW content \in Seq(STRING), Quote \notin ToSet(content),
           NEW in \in Seq(STRING), NEW p \in Nat, p + Len(in) <= Len(content),
           \A i \in 1 .. Len(in) : in[i] = content[p + i],
           NEW g, NEW h, NEW t \in Nat, Steps(g, in), Steps(h, content),
           IsState(g[0]), IsState(h[p]), Same(g[0].r, h[p].r, t), h[p].r.quote_char = Quote,
           ~g[0].quote_escape, ~h[p].quote_escape, g[0].skip = h[p].skip
    PROVE  \A i \in 0 .. Len(in) :
               /\ IsState(g[i]) /\ IsState(h[p + i]) /\ ~h[p + i].quote_escape
               /\ Same(g[i].r, h[p + i].r, t)
               /\ i > 0 => (h[p + i].skip => content[p + i] \in Newlines /\ Ahead(content, p + i))
  <1> DEFINE Fine(i) ==
                /\ IsState(g[i]) /\ IsState(h[p + i])
                /\ ~g[i].quote_escape /\ ~h[p + i].quote_escape
                /\ Same(g[i].r, h[p + i].r, t) /\ h[p + i].r.quote_char = Quote
                /\ i < Len(in) => g[i].skip = h[p + i].skip
                /\ i > 0 => (h[p + i].skip => content[p + i] \in Newlines /\ Ahead(content, p + i))
             Bad == {i \in 0 .. Len(in) : ~Fine(i)}
  <1>1. Len(in) \in Nat /\ Len(content) \in Nat /\ Bad \in SUBSET Nat
    OBVIOUS
  <1>2. Fine(0)
    OBVIOUS
  <1>3. ASSUME NEW i \in 0 .. Len(in) - 1, Fine(i) PROVE Fine(i + 1)
    <2> DEFINE ch == content[p + i + 1]
               a == Ahead(in, i + 1)
               b == Ahead(content, p + i + 1)
               s == g[i]
               u == h[p + i]
    <2>1. i + 1 \in 1 .. Len(in) /\ p + i + 1 \in 1 .. Len(content) /\ (i + 1) - 1 = i
          /\ (p + i + 1) - 1 = p + i /\ p + (i + 1) = p + i + 1 /\ i < Len(in)
      BY <1>1
    <2>2. in[i + 1] = ch /\ ch \in STRING /\ ch # Quote
      <3>1. content[p + i + 1] \in ToSet(content) /\ content[p + i + 1] \in STRING
        BY <2>1 DEF ToSet
      <3>2. in[i + 1] = content[p + (i + 1)]
        BY <2>1
      <3> QED BY <2>1, <3>1, <3>2
    <2>3. s.r.quote_char = Quote
      BY <1>3 DEF Same, SameFormat
    <2>4. g[i + 1] = PlainStep(s, ch, a) /\ h[p + (i + 1)] = PlainStep(u, ch, b)
      <3>1. g[i + 1] = FeedStep(s, in, i + 1) /\ h[p + i + 1] = FeedStep(u, content, p + i + 1)
        BY <2>1 DEF Steps
      <3>2. FeedStep(s, in, i + 1) = PlainStep(s, ch, a)
        BY <1>3, <2>1, <2>2, <2>3, FeedStepPlain
      <3>3. FeedStep(u, content, p + i + 1) = PlainStep(u, ch, b)
        BY <1>3, <2>1, <2>2, FeedStepPlain
      <3> QED BY <2>1, <3>1, <3>2, <3>3
    <2>5. i + 1 < Len(in) => a = b
      BY <1>1, <2>1 DEF Ahead
    <2>6. a \in BOOLEAN /\ b \in BOOLEAN
      BY DEF Ahead
    <2>7. s.skip = u.skip /\ IsState(s) /\ IsState(u) /\ Same(s.r, u.r, t)
      BY <1>3, <2>1
    <2> HIDE DEF s, u, a, b, ch
    <2>8. /\ IsState(g[i + 1]) /\ IsState(h[p + (i + 1)])
          /\ ~g[i + 1].quote_escape /\ ~h[p + (i + 1)].quote_escape
          /\ Same(g[i + 1].r, h[p + (i + 1)].r, t)
          /\ a = b => g[i + 1].skip = h[p + (i + 1)].skip
          /\ h[p + (i + 1)].skip => ch \in Newlines /\ b
      <3> DEFINE v == PlainStep(s, ch, a)
                 w == PlainStep(u, ch, b)
      <3>1. /\ IsState(v) /\ ~v.quote_escape
            /\ IsState(w) /\ ~w.quote_escape
            /\ Same(v.r, w.r, t)
            /\ a = b => v.skip = w.skip
            /\ w.skip => ch \in Newlines /\ b
        BY <2>2, <2>6, <2>7, PlainStepSame
      <3> QED BY ONLY <2>4, <3>1
    <2>9. h[p + (i + 1)].r.quote_char = Quote
      <3>1. SameFormat(h[p + i + 1].r, u.r)
        BY <1>3, <2>1, OutcomeTyped DEF Steps, u
      <3> QED BY <1>3, <2>1, <3>1 DEF SameFormat, u
    <2> QED BY <2>1, <2>5, <2>8, <2>9 DEF ch, b
  <1>4. Bad = {}
    <2> SUFFICES ASSUME Bad # {} PROVE FALSE
      OBVIOUS
    <2> HIDE DEF Fine
    <2>1. PICK n \in Bad : \A k \in Bad : n <= k
      BY <1>1, LeastNatural
    <2>2. n # 0
      BY <1>2
    <2>3. n - 1 \in 0 .. Len(in) - 1 /\ n - 1 \in 0 .. Len(in) /\ ~(n <= n - 1) /\ (n - 1) + 1 = n
      BY <1>1, <2>1, <2>2
    <2>4. Fine(n - 1)
      BY <2>1, <2>3
    <2>5. Fine((n - 1) + 1)
      BY <1>3, <2>3, <2>4
    <2> QED BY <2>1, <2>3, <2>5
  <1> QED BY <1>4

\* To reserve room changes nothing that is parsed.
LEMMA ReservedSame ==
    ASSUME NEW r, NEW in, Len(in) \in Nat, IsReader(r)
    PROVE  LET z == Reserved(r, in)
           IN  /\ IsReader(z) /\ z.records = r.records
               /\ z.record_buffer.text = r.record_buffer.text
               /\ \A u, t : Same(r, u, t) => Same(z, u, t)
  <1> DEFINE b == Reserve(r.record_buffer, Len(in))
             z == Reserved(r, in)
  <1>1. IsBuffer(b) /\ b.text = r.record_buffer.text /\ b.splits = r.record_buffer.splits
    <2> DEFINE n == Len(in)
               c == [r.record_buffer EXCEPT !.capacity = n]
    <2>1. n \in Int /\ (b = c \/ b = r.record_buffer)
      BY DEF Reserve
    <2> HIDE DEF b, n
    <2>2. IsBuffer(c) /\ c.text = r.record_buffer.text /\ c.splits = r.record_buffer.splits
      BY <2>1 DEF IsReader, IsBuffer, Holds, BufferFields
    <2> QED BY <2>1, <2>2 DEF IsReader
  <1>2. z = [r EXCEPT !.record_buffer = b]
    BY DEF Reserved
  <1> HIDE DEF b, z
  <1>3. /\ Holds(z, ReaderFields) /\ z.record_buffer = b /\ z.records = r.records
        /\ z.col_names = r.col_names /\ z.header_was_parsed = r.header_was_parsed
        /\ z.row_num = r.row_num /\ z.bad = r.bad /\ SameFormat(z, r)
    BY <1>2 DEF IsReader, Holds, ReaderFields, SameFormat
  <1>4. IsReader(z)
    BY <1>1, <1>3 DEF IsReader
  <1>5. \A u, t : Same(r, u, t) => Same(z, u, t)
    BY <1>1, <1>3 DEF Same, SameFormat, SameRow
  <1> QED BY <1>1, <1>3, <1>4, <1>5 DEF z

\* Neither does a new buffer (csv.hpp:4788, 5610-5621).
LEMMA ResetSame ==
    ASSUME NEW r, IsReader(r)
    PROVE  LET z == [r EXCEPT !.record_buffer = Reset(@)]
           IN  /\ IsReader(z) /\ z.records = r.records
               /\ z.record_buffer.text = r.record_buffer.text
               /\ \A u, t : Same(r, u, t) => Same(z, u, t)
  <1> DEFINE b == Reset(r.record_buffer)
             z == [r EXCEPT !.record_buffer = b]
  <1>1. IsBuffer(b) /\ b.text = r.record_buffer.text /\ b.splits = r.record_buffer.splits
    <2> DEFINE tx == r.record_buffer.text
               sp == r.record_buffer.splits
               n == Len(tx)
    <2>1. tx \in Seq(STRING) /\ sp \in Seq(Int) /\ n \in Int
      BY DEF IsReader, IsBuffer
    <2>2. b = [EmptyBuffer EXCEPT !.text = tx, !.splits = sp, !.capacity = n]
      BY DEF Reset
    <2> HIDE DEF tx, sp, n, b
    <2>3. b = [text |-> tx, splits |-> sp, current_end |-> 0, views |-> 0, capacity |-> n]
      BY <2>2 DEF EmptyBuffer
    <2>4. IsBuffer(b) /\ b.text = tx /\ b.splits = sp
      BY <2>1, <2>3 DEF IsBuffer, Holds, BufferFields
    <2> QED BY <2>4 DEF tx, sp, b
  <1>2. z = [r EXCEPT !.record_buffer = b]
    OBVIOUS
  <1> HIDE DEF b, z
  <1>3. /\ Holds(z, ReaderFields) /\ z.record_buffer = b /\ z.records = r.records
        /\ z.col_names = r.col_names /\ z.header_was_parsed = r.header_was_parsed
        /\ z.row_num = r.row_num /\ z.bad = r.bad /\ SameFormat(z, r)
    BY <1>2 DEF IsReader, Holds, ReaderFields, SameFormat
  <1>4. IsReader(z)
    BY <1>1, <1>3 DEF IsReader
  <1>5. \A u, t : Same(r, u, t) => Same(z, u, t)
    BY <1>1, <1>3 DEF Same, SameFormat, SameRow
  <1> QED BY <1>1, <1>3, <1>4, <1>5 DEF z, b

--------------------------------------------------------------------------------

\* A parser that has been fed nothing.
Begin(delimiter, header_row) ==
    [Reader(DefaultFormat) EXCEPT !.delimiter = delimiter, !.header_row = header_row]

\* The same with its fields written out.
Blank(delimiter, header_row) ==
    [delimiter |-> delimiter, quote_char |-> Quote, header_row |-> header_row,
     record_buffer |-> EmptyBuffer, col_names |-> <<>>, header_was_parsed |-> FALSE,
     row_num |-> 0, records |-> <<>>, bad |-> <<>>]

\* This is the same parser.
LEMMA BeginIsBlank ==
    ASSUME NEW d, NEW h
    PROVE  Begin(d, h) = Blank(d, h)
  <1>1. Reader(DefaultFormat) = Blank(",", 0)
    BY DEF Reader, DefaultFormat, GetDelim, Blank
  <1> DEFINE z == [Blank(",", 0) EXCEPT !.delimiter = d, !.header_row = h]
  <1>2. Holds(z, ReaderFields) /\ Holds(Blank(d, h), ReaderFields)
    BY DEF Blank, Holds, ReaderFields
  <1>3. \A name \in ReaderFields : z[name] = Blank(d, h)[name]
    <2> DEFINE y == Blank(d, h)
    <2>1. /\ z.delimiter = y.delimiter /\ z.quote_char = y.quote_char /\ z.header_row = y.header_row
          /\ z.record_buffer = y.record_buffer /\ z.col_names = y.col_names
          /\ z.header_was_parsed = y.header_was_parsed /\ z.row_num = y.row_num
          /\ z.records = y.records /\ z.bad = y.bad
      BY DEF Blank
    <2> HIDE DEF z, y
    <2> QED BY <2>1 DEF ReaderFields, y
  <1>4. z = Begin(d, h)
    BY <1>1 DEF Begin
  <1> HIDE DEF z
  <1>5. z = Blank(d, h)
    BY <1>2, <1>3 DEF Holds
  <1> QED BY <1>4, <1>5

\* It has the shape of a parser.
LEMMA BlankTyped ==
    ASSUME NEW d, NEW h
    PROVE  IsReader(Blank(d, h))
  <1> DEFINE r == Blank(d, h)
  <1>1. Holds(r, ReaderFields) /\ r.record_buffer = EmptyBuffer /\ r.header_was_parsed = FALSE
        /\ r.records = <<>>
    BY DEF Blank, Holds, ReaderFields
  <1>2. IsBuffer(EmptyBuffer)
    BY DEF EmptyBuffer, IsBuffer, Holds, BufferFields
  <1> HIDE DEF r
  <1>3. <<>> \in Seq(RowView)
    OBVIOUS
  <1> QED BY <1>1, <1>2, <1>3 DEF IsReader, r

\* The guesser gives a delimiter and a header row, the constructor a parser with them.
LEMMA GuessedReader ==
    ASSUME GuessFromHead
    PROVE  reader' = Blank(reader'.delimiter, reader'.header_row)
  <1>1. ASSUME NEW head, NEW format \in GuessDelim(head)
        PROVE  \E d, h : format = HeaderRowFormat(DelimiterFormat(DefaultFormat, d), h)
    BY <1>1 DEF GuessDelim, Applied
  <1>2. ASSUME NEW format \in GuessFormat(file.content)
        PROVE  \E d, h : format = HeaderRowFormat(DelimiterFormat(DefaultFormat, d), h)
    BY <1>1, <1>2 DEF GuessFormat, Applied
  <1>3. ASSUME NEW d, NEW h
        PROVE  Reader(HeaderRowFormat(DelimiterFormat(DefaultFormat, d), h)) = Blank(d, h)
    BY DEF HeaderRowFormat, DelimiterFormat, DefaultFormat, Reader, GetDelim, Blank
  <1>4. Reader(GUESS_CSV) = Blank(Head(Delims), 0)
    BY DEF GUESS_CSV, HeaderRowFormat, QuoteFormat, DelimitersFormat, DefaultFormat, Reader, GetDelim,
           Blank
  <1>5. \E d, h : reader' = Blank(d, h)
    BY <1>2, <1>3, <1>4 DEF GuessFromHead
  <1>6. \A d, h : Blank(d, h).delimiter = d /\ Blank(d, h).header_row = h
    BY DEF Blank
  <1> QED BY <1>5, <1>6

--------------------------------------------------------------------------------
(* The run over the whole file. *)

\* The states of the parser along one feed of the whole.
Whole(content, r) == Run(Reserved(r, content), content)

\* A parser has parsed what it has parsed.
LEMMA SameSelf ==
    ASSUME NEW r, IsReader(r)
    PROVE  Same(r, r, 0)
  <1>1. Len(r.records) \in Nat
    BY DEF IsReader
  <1> QED BY <1>1 DEF Same, SameFormat, SameRow

\* The run over a whole text starts from the parser and keeps its format.
LEMMA WholeRun ==
    ASSUME NEW content \in Seq(STRING), NEW r, IsReader(r)
    PROVE  LET W == Whole(content, r)
           IN  /\ Steps(W, content) /\ ~W[0].skip /\ ~W[0].quote_escape
               /\ Same(W[0].r, r, 0) /\ Same(r, W[0].r, 0)
               /\ \A i \in 0 .. Len(content) : IsState(W[i]) /\ SameFormat(W[i].r, r)
  <1> DEFINE W == Whole(content, r)
             z == Reserved(r, content)
  <1>1. Len(content) \in Nat
    OBVIOUS
  <1>2. W[0] = Start(z) /\ Steps(W, content)
    BY <1>1, RunSteps DEF Whole, Steps
  <1>3. IsReader(z) /\ Same(z, r, 0)
    BY <1>1, ReservedSame, SameSelf
  <1> HIDE DEF W, z
  <1>4. IsState(W[0]) /\ W[0].r = z /\ ~W[0].skip /\ ~W[0].quote_escape
    BY <1>2, <1>3 DEF Start, IsState, Holds, StateFields
  <1>5. \A i \in 0 .. Len(content) : IsState(W[i]) /\ SameFormat(W[i].r, z)
    BY <1>2, <1>4, StepsTyped
  <1>6. Len(z.records) \in Nat /\ Len(r.records) \in Nat
    BY <1>3 DEF IsReader
  <1>7. Same(r, z, 0)
    BY <1>3, <1>6 DEF Same, SameFormat, SameRow
  <1>8. SameFormat(z, r)
    BY <1>3 DEF Same
  <1> QED BY <1>2, <1>3, <1>4, <1>5, <1>7, <1>8 DEF SameFormat, W

\* Between the character that ends a line and the newline behind it no cut may be.
LEMMA NoSkipAtCut ==
    ASSUME NEW content \in Seq(STRING), Quote \notin ToSet(content), NEW r, IsReader(r),
           r.quote_char = Quote, NEW c \in 0 .. Len(content),
           c > 0 => ~(content[c] \in Newlines /\ Ahead(content, c))
    PROVE  ~Whole(content, r)[c].skip /\ ~Whole(content, r)[c].quote_escape
  <1> DEFINE W == Whole(content, r)
  <1>1. /\ Steps(W, content) /\ ~W[0].skip /\ ~W[0].quote_escape
        /\ IsState(W[0]) /\ SameFormat(W[0].r, r)
    BY WholeRun
  <1> HIDE DEF W
  <1>2. Same(W[0].r, W[0].r, 0)
    BY <1>1, SameSelf DEF IsState
  <1>3. \A i \in 1 .. Len(content) : content[i] = content[0 + i]
    OBVIOUS
  <1>4. \A i \in 0 .. Len(content) :
            /\ ~W[0 + i].quote_escape
            /\ i > 0 => (W[0 + i].skip => content[0 + i] \in Newlines /\ Ahead(content, 0 + i))
    BY <1>1, <1>2, <1>3, RunsTogether DEF SameFormat
  <1>5. 0 + c = c
    OBVIOUS
  <1> QED BY <1>1, <1>4, <1>5 DEF W

\* A piece fed to what has parsed all before it leads to what has parsed it too.
LEMMA FeedFollows ==
    ASSUME NEW content \in Seq(STRING), Quote \notin ToSet(content), NEW b, IsReader(b),
           b.quote_char = Quote,
           NEW p \in Nat, NEW in \in Seq(STRING), p + Len(in) <= Len(content),
           \A i \in 1 .. Len(in) : in[i] = content[p + i],
           p > 0 => ~(content[p] \in Newlines /\ Ahead(content, p)),
           NEW r, IsReader(r), NEW t \in Nat, Same(r, Whole(content, b)[p].r, t)
    PROVE  IsReader(Feed(r, in)) /\ Same(Feed(r, in), Whole(content, b)[p + Len(in)].r, t)
  <1> DEFINE W == Whole(content, b)
             g == Run(Reserved(r, in), in)
             z == Reserved(r, in)
             m == Len(in)
  <1>1. m \in Nat /\ p \in 0 .. Len(content)
    OBVIOUS
  <1>2. Steps(W, content) /\ IsState(W[p]) /\ SameFormat(W[p].r, b)
    BY <1>1, WholeRun
  <1>3. ~W[p].skip /\ ~W[p].quote_escape
    BY <1>1, NoSkipAtCut
  <1>4. g[0] = Start(z) /\ Steps(g, in)
    BY <1>1, RunSteps DEF Steps
  <1>5. IsReader(z) /\ Same(z, W[p].r, t)
    BY <1>1, ReservedSame
  <1> HIDE DEF W, g, z
  <1>6. IsState(g[0]) /\ g[0].r = z /\ ~g[0].skip /\ ~g[0].quote_escape
    BY <1>4, <1>5 DEF Start, IsState, Holds, StateFields
  <1>7. g[0].skip = W[p].skip
    BY <1>2, <1>3, <1>6 DEF IsState
  <1>8. \A i \in 0 .. m : IsState(g[i]) /\ Same(g[i].r, W[p + i].r, t)
    BY <1>2, <1>3, <1>4, <1>5, <1>6, <1>7, RunsTogether DEF SameFormat
  <1>9. IsReader(g[m].r) /\ Same(g[m].r, W[p + m].r, t)
    BY <1>1, <1>8 DEF IsState
  <1>10. Feed(r, in) = [g[m].r EXCEPT !.record_buffer = Reset(@)]
    BY FeedIsRun DEF g
  <1> QED BY <1>9, <1>10, ResetSame DEF W

\* One feed of the whole is its run, quotes or not.
LEMMA FeedOfWhole ==
    ASSUME NEW content \in Seq(STRING), NEW b, IsReader(b)
    PROVE  /\ IsReader(Feed(b, content))
           /\ Same(Feed(b, content), Whole(content, b)[Len(content)].r, 0)
  <1> DEFINE W == Whole(content, b)
  <1>1. IsReader(W[Len(content)].r)
    BY WholeRun DEF IsState
  <1>2. Feed(b, content) = [W[Len(content)].r EXCEPT !.record_buffer = Reset(@)]
    BY FeedIsRun DEF Whole
  <1> HIDE DEF W
  <1> QED BY <1>1, <1>2, ResetSame, SameSelf DEF W

\* An empty text changes nothing.
LEMMA FeedOfNothing ==
    ASSUME NEW r, IsReader(r)
    PROVE  IsReader(Feed(r, <<>>)) /\ \A u, t : Same(r, u, t) => Same(Feed(r, <<>>), u, t)
  <1> DEFINE g == Run(Reserved(r, <<>>), <<>>)
             z == Reserved(r, <<>>)
  <1>1. Len(<<>>) = 0 /\ g[0] = Start(z)
    BY RunSteps
  <1>2. IsReader(z) /\ \A u, t : Same(r, u, t) => Same(z, u, t)
    BY <1>1, ReservedSame
  <1>3. Feed(r, <<>>) = [g[0].r EXCEPT !.record_buffer = Reset(@)]
    BY <1>1, FeedIsRun
  <1> HIDE DEF g, z
  <1>4. g[0].r = z
    BY <1>1 DEF Start
  <1>5. Feed(r, <<>>) = [z EXCEPT !.record_buffer = Reset(@)]
    BY <1>3, <1>4
  <1> QED BY <1>2, <1>5, ResetSame

--------------------------------------------------------------------------------
(* Lines and places in the file. *)

\* The file is a text, and what is read a part of it.
LEMMA Content ==
    ASSUME Typing
    PROVE  file.content \in Seq(STRING) /\ Len(file.content) \in Nat /\ pos \in 0 .. Len(file.content)
  <1>1. file.content \in Seq(STRING)
    BY ReaderAssumption DEF Typing
  <1> QED BY <1>1 DEF Typing

\* A piece of a text.
LEMMA PieceOf ==
    ASSUME NEW s \in Seq(STRING), NEW a \in 0 .. Len(s), NEW b \in a .. Len(s)
    PROVE  /\ SubSeq(s, a + 1, b) \in Seq(STRING)
           /\ Len(SubSeq(s, a + 1, b)) = b - a
           /\ \A i \in 1 .. b - a : SubSeq(s, a + 1, b)[i] = s[a + i]
  <1>1. \A i \in a + 1 .. b : s[i] \in STRING
    OBVIOUS
  <1>2. a + 1 \in Int /\ b \in Int /\ a \in Nat /\ a <= b
    OBVIOUS
  <1> DEFINE z == SubSeq(s, a + 1, b)
  <1>3. /\ z \in Seq(STRING)
        /\ Len(z) = IF a + 1 <= b THEN b - (a + 1) + 1 ELSE 0
        /\ \A i \in 1 .. b - (a + 1) + 1 : z[i] = s[(a + 1) + i - 1]
    BY <1>1, <1>2, SubSeqProperties
  <1> HIDE DEF z
  <1>4. \A i \in 1 .. b - a : i \in 1 .. b - (a + 1) + 1 /\ (a + 1) + i - 1 = a + i
    BY <1>2
  <1>5. Len(z) = b - a
    BY <1>2, <1>3
  <1> QED BY <1>3, <1>4, <1>5 DEF z

\* Texts behind each other.
LEMMA SubSeqJoin ==
    ASSUME NEW s \in Seq(STRING), NEW a \in 0 .. Len(s), NEW b \in a .. Len(s), NEW c \in b .. Len(s)
    PROVE  SubSeq(s, a + 1, b) \o SubSeq(s, b + 1, c) = SubSeq(s, a + 1, c)
  <1> DEFINE x == SubSeq(s, a + 1, b)
             y == SubSeq(s, b + 1, c)
             z == SubSeq(s, a + 1, c)
  <1>1. \A i \in 1 .. Len(s) : s[i] \in STRING
    OBVIOUS
  <1>2. /\ x \in Seq(STRING) /\ Len(x) = b - a /\ \A i \in 1 .. b - a : x[i] = s[a + i]
        /\ y \in Seq(STRING) /\ Len(y) = c - b /\ \A i \in 1 .. c - b : y[i] = s[b + i]
        /\ z \in Seq(STRING) /\ Len(z) = c - a /\ \A i \in 1 .. c - a : z[i] = s[a + i]
    BY <1>1, PieceOf
  <1> HIDE DEF x, y, z
  <1>3. /\ x \o y \in Seq(STRING) /\ Len(x \o y) = c - a
        /\ \A i \in 1 .. c - a : (x \o y)[i] = IF i <= b - a THEN x[i] ELSE y[i - (b - a)]
    <2>1. /\ x \o y \in Seq(STRING) /\ Len(x \o y) = Len(x) + Len(y)
          /\ \A i \in 1 .. Len(x) + Len(y) : (x \o y)[i] = IF i <= Len(x) THEN x[i] ELSE y[i - Len(x)]
      BY <1>2, ConcatProperties
    <2>2. Len(x) = b - a /\ Len(x) + Len(y) = c - a
      BY <1>2
    <2> QED BY ONLY <2>1, <2>2
  <1>4. ASSUME NEW i \in 1 .. c - a PROVE (x \o y)[i] = z[i]
    <2>1. CASE i <= b - a
      BY <1>2, <1>3, <2>1
    <2>2. CASE ~(i <= b - a)
      <3>1. i - (b - a) \in 1 .. c - b /\ b + (i - (b - a)) = a + i
        BY <2>2
      <3> QED BY <1>2, <1>3, <2>2, <3>1
    <2> QED BY <2>1, <2>2
  <1> QED BY <1>2, <1>3, <1>4, SeqEqual DEF x, y, z

\* What fgets returns ends with the first newline, the page or the file
\* (csv.hpp:4929-4931).
LEMMA LineEnds ==
    ASSUME Typing, NEW n \in 1 .. Len(file.content) - pos, n = LineLength
    PROVE  /\ n <= PageSize - 1
           /\ n < PageSize - 1 /\ file.content[pos + n] # "\n" => pos + n = Len(file.content)
           /\ \A i \in 1 .. Len(file.content) - pos : file.content[pos + i] = "\n" => n <= i
  <1> DEFINE left == 1 .. Len(file.content) - pos
             S == {i \in left : file.content[pos + i] = "\n"} \cup {PageSize - 1, Len(file.content) - pos}
  <1>1. S \in SUBSET Nat /\ S # {}
    BY Sizes, Content
  <1>2. \E x \in S : \A y \in S : x <= y
    BY <1>1, LeastNatural
  <1>3. LineLength \in S /\ \A y \in S : LineLength <= y
    BY <1>2 DEF LineLength, Min
  <1> QED BY <1>3, Sizes, Content

--------------------------------------------------------------------------------
(* The parser is one, and what it is fed are texts. *)

\* The parser and the text it is fed have their types.
Parsing == IsReader(reader) /\ chunk \in Seq(STRING)

\* So they have at first,
LEMMA ParsingInit == Init => Parsing
  <1> SUFFICES ASSUME Init PROVE Parsing
    OBVIOUS
  <1>1. Reader(DefaultFormat) = Blank(",", 0)
    BY DEF Reader, DefaultFormat, GetDelim, Blank
  <1>2. IsReader(reader) /\ chunk = <<>> /\ <<>> \in Seq(STRING)
    <2>1. reader = Reader(DefaultFormat) /\ chunk = <<>> /\ <<>> \in Seq(STRING)
      BY DEF Init
    <2>2. IsReader(Blank(",", 0))
      BY BlankTyped
    <2> QED BY ONLY <1>1, <2>1, <2>2
  <1> QED BY <1>2 DEF Parsing

\* The loop takes the rows from the front.
LEMMA TakeSame ==
    ASSUME NEW r, IsReader(r), r.records # <<>>
    PROVE  LET z == [r EXCEPT !.records = Tail(@)]
           IN  /\ IsReader(z) /\ SameFormat(z, r) /\ z.record_buffer = r.record_buffer
               /\ Len(z.records) = Len(r.records) - 1
               /\ \A k \in 1 .. Len(r.records) - 1 : z.records[k] = r.records[k + 1]
               /\ \A u, t : t \in Nat /\ Same(r, u, t) => Same(z, u, t + 1)
  <1> DEFINE q == Tail(r.records)
             z == [r EXCEPT !.records = q]
  <1>1. /\ q \in Seq(RowView) /\ Len(q) = Len(r.records) - 1 /\ Len(r.records) \in Nat
        /\ \A k \in 1 .. Len(r.records) - 1 : q[k] = r.records[k + 1]
    BY HeadTailProperties DEF IsReader
  <1> HIDE DEF q
  <1>2. /\ Holds(z, ReaderFields) /\ z.record_buffer = r.record_buffer /\ z.records = q
        /\ z.col_names = r.col_names /\ z.header_was_parsed = r.header_was_parsed
        /\ z.row_num = r.row_num /\ z.bad = r.bad /\ SameFormat(z, r)
    BY DEF IsReader, Holds, ReaderFields, SameFormat
  <1> HIDE DEF z
  <1>3. IsReader(z)
    BY <1>1, <1>2 DEF IsReader
  <1>4. ASSUME NEW u, NEW t \in Nat, Same(r, u, t) PROVE Same(z, u, t + 1)
    <2>1. Len(u.records) = (t + 1) + Len(z.records)
      BY <1>1, <1>2, <1>4 DEF Same
    <2>2. ASSUME NEW k \in 1 .. Len(z.records) PROVE SameRow(z.records[k], u.records[(t + 1) + k])
      <3>1. k + 1 \in 1 .. Len(r.records) /\ t + (k + 1) = (t + 1) + k
        BY <1>1, <1>2
      <3> QED BY <1>1, <1>2, <1>4, <3>1 DEF Same
    <2> QED BY <1>2, <1>4, <2>1, <2>2 DEF Same, SameFormat
  <1> QED BY <1>1, <1>2, <1>3, <1>4 DEF z, q

\* and behind every step.
LEMMA ParsingStep ==
    ASSUME ReaderInv, Parsing, [Next]_vars
    PROVE  Parsing'
  <1> USE DEF fileVars, readVars, threadVars, loopVars
  <1>1. CASE GuessFromHead
    <2>1. IsReader(reader')
      BY <1>1, GuessedReader, BlankTyped
    <2> QED BY <1>1, <2>1 DEF GuessFromHead, Parsing
  <1>2. CASE Join
    <2>1. IsReader(reader')
      BY <1>2, WriteRecordEffect DEF Join, EndFeed, Parsing
    <2> QED BY <1>2, <2>1 DEF Join, Parsing
  <1>3. CASE WorkerTakes
    <2>1. Head(feed_buffer) \in WorkItem
      BY <1>3 DEF WorkerTakes, ReaderInv, Typing
    <2> QED BY <1>3, <2>1 DEF WorkerTakes, Parsing, WorkItem
  <1>4. CASE WorkerFeeds
    <2>1. IsReader(Feed(reader, chunk))
      BY FeedOfWhole DEF Parsing
    <2>2. <<>> \in Seq(STRING)
      OBVIOUS
    <2> QED BY <1>4, <2>1, <2>2 DEF WorkerFeeds, Parsing
  <1>5. CASE TakeRow
    <2>1. IsReader(reader')
      BY <1>5, TakeSame DEF TakeRow, Parsing
    <2> QED BY <1>5, <2>1 DEF TakeRow, Parsing
  <1>6. CASE OpenFails \/ OpenFile \/ GetLine \/ NoLine \/ EnoughBytes \/ Flush \/ Drain
    BY <1>6 DEF OpenFails, OpenFile, GetLine, NoLine, EnoughBytes, Flush, Drain, Parsing
  <1>7. CASE TakeFromNone \/ ReadMore \/ AtEnd \/ ReadMoved \/ LoadRow \/ RowThrows
             \/ WorkerWaits \/ SpuriousWakeup \/ UNCHANGED vars
    BY <1>7 DEF TakeFromNone, ReadMore, AtEnd, ReadMoved, LoadRow, RowThrows, WorkerWaits,
               SpuriousWakeup, vars, Parsing
  <1> QED BY <1>1, <1>2, <1>3, <1>4, <1>5, <1>6, <1>7 DEF Next, MainStep, WorkerStep

--------------------------------------------------------------------------------
(* How far the file has been read. *)

\* The parser as the first feed finds it.
StartReader == Blank(reader.delimiter, reader.header_row)

\* No text ends between the two characters that end a line.
CutAt(c) ==
    \/ c = 0 \/ c = Len(file.content)
    \/ CutAnywhere /\ ~(file.content[c] \in Newlines /\ Ahead(file.content, c))

\* Where the file has been read to, by where the main thread is.
ReadTo ==
    /\ pc \in Before => pos = 0 /\ delivered = 0 /\ ~feof /\ reader = StartReader
    /\ feof => pos = Len(file.content)
    /\ pc \in {"join"} \cup Joined => buffer = <<>>
    /\ pc \in Joined => infile = ~feof
    /\ CutAnywhere => CutAt(pos)

\* What fits into one buffer is read at once.
InOneRead ==
    OneBuffer =>
        /\ processed = 0 /\ bytes \in {0, FirstBytes} /\ pc # "flush"
        /\ pc \in {"drain", "join"} \cup Joined => feof
        /\ pc \in Joined => ~infile

\* The inductive invariant of what has been read.
ReadInv == Parsing /\ ReadTo /\ InOneRead

\* At first nothing is read.
LEMMA InitRead == Init => ReadInv
  <1> SUFFICES ASSUME Init PROVE ReadInv
    OBVIOUS
  <1>1. Parsing
    BY ParsingInit
  <1>2. reader = StartReader
    <2>1. reader = Reader(DefaultFormat)
      BY DEF Init
    <2>2. Reader(DefaultFormat) = Blank(",", 0)
      BY DEF Reader, DefaultFormat, GetDelim, Blank
    <2>3. Blank(",", 0).delimiter = "," /\ Blank(",", 0).header_row = 0
      BY DEF Blank
    <2> QED BY <2>1, <2>2, <2>3 DEF StartReader
  <1>3. ReadTo
    BY <1>2 DEF Init, ReadTo, CutAt, Before, Joined
  <1>4. InOneRead
    BY DEF Init, InOneRead, Joined
  <1> QED BY <1>1, <1>3, <1>4 DEF ReadInv

\* Where every line fits into a page one is read at once.
LEMMA WholeLine ==
    ASSUME ReaderInv, LinesFitPages, NEW n \in 1 .. Len(file.content) - pos, n = LineLength
    PROVE  pos + n = Len(file.content) \/ file.content[pos + n] = "\n"
  <1> DEFINE s == file.content
             c == pos + n
  <1>1. s \in Seq(STRING) /\ Len(s) \in Nat /\ pos \in 0 .. Len(s) /\ c \in 1 .. Len(s) /\ PageSize \in Nat
    BY Content, Sizes DEF ReaderInv
  <1>2. /\ n <= PageSize - 1
        /\ n < PageSize - 1 /\ s[c] # "\n" => c = Len(s)
        /\ \A i \in 1 .. Len(s) - pos : s[pos + i] = "\n" => n <= i
    BY LineEnds DEF ReaderInv
  <1> SUFFICES ASSUME c < Len(s), s[c] # "\n" PROVE FALSE
    BY <1>1
  <1> HIDE DEF s
  <1>3. n = PageSize - 1
    BY <1>1, <1>2
  <1>4. pos + 1 \in 1 .. Len(s) - PageSize + 2 /\ (pos + 1) + PageSize - 2 = c
    BY <1>1, <1>3
  <1>5. PICK j \in pos + 1 .. c : s[j] = "\n"
    BY <1>4 DEF LinesFitPages, s
  <1>6. j - pos \in 1 .. Len(s) - pos /\ pos + (j - pos) = j
    BY <1>1
  <1>7. n <= j - pos
    BY <1>2, <1>5, <1>6
  <1>8. j = c
    BY <1>1, <1>7
  <1> QED BY <1>5, <1>8

\* A page cuts no end of a line in two where every line fits into one.
LEMMA CutOfLine ==
    ASSUME ReaderInv, CutAnywhere, GetLine
    PROVE  CutAt(pos)'
  <1> DEFINE s == file.content
             c == pos'
  <1>1. PICK n \in 1 .. Len(s) - pos : n = LineLength /\ pos' = pos + n
    BY DEF GetLine
  <1>2. s \in Seq(STRING) /\ Len(s) \in Nat /\ pos \in 0 .. Len(s) /\ c = pos + n /\ c \in 1 .. Len(s)
    BY <1>1, Content DEF ReaderInv
  <1>3. file' = file
    BY DEF GetLine
  <1>4. LinesFitPages => c = Len(s) \/ s[c] = "\n"
    BY <1>1, WholeLine
  <1> HIDE DEF c, s
  <1>5. ASSUME c < Len(s), s[c] \in Newlines, s[c + 1] = "\n"
        PROVE  FALSE
    <2>1. c + 1 \in DOMAIN s \ {1} /\ (c + 1) - 1 = c
      BY <1>2, <1>5
    <2>2. s[c] # "\n"
      BY <1>5, <2>1 DEF CutAnywhere, s
    <2>3. s[c] = "\r"
      BY <1>5, <2>2 DEF Newlines
    <2>4. LinesFitPages
      BY <1>5, <2>1, <2>3 DEF CutAnywhere, s
    <2> QED BY <1>2, <1>4, <1>5, <2>2, <2>4
  <1>6. c = Len(s) \/ ~(s[c] \in Newlines /\ Ahead(s, c))
    BY <1>2, <1>5 DEF Ahead
  <1>7. CutAnywhere'
    BY <1>3 DEF CutAnywhere, LinesFitPages
  <1>8. file'.content = s /\ pos' = c
    BY <1>3 DEF s, c
  <1> QED BY <1>6, <1>7, <1>8 DEF CutAt

\* A product with the same factor grows with the other one.
LEMMA GrowFactor ==
    ASSUME NEW d \in Nat, NEW a \in Nat, NEW b \in Nat, a <= b
    PROVE  d * a <= d * b
  <1>1. PICK c \in Nat : b = a + c
    <2>1. b - a \in Nat /\ b = a + (b - a)
      OBVIOUS
    <2> QED BY <2>1
  <1>2. d * b = d * a + d * c /\ d * c >= 0 /\ d * a \in Int /\ d * c \in Int
    BY <1>1
  <1> QED BY <1>2

\* A line more is read; a text that fits into one buffer never fills it.
LEMMA GetLineRead ==
    ASSUME ReaderInv, ReaderInv', ReadInv, GetLine
    PROVE  ReadInv'
  <1> USE DEF fileVars, readVars, threadVars, loopVars
  <1>1. PICK n \in 1 .. Len(file.content) - pos :
            /\ n = LineLength /\ pos' = pos + n
            /\ feof' = (feof \/ (n < PageSize - 1 /\ file.content[pos + n] # "\n"))
    BY DEF GetLine
  <1>2. file.content \in Seq(STRING) /\ Len(file.content) \in Nat /\ pos \in 0 .. Len(file.content)
        /\ pos < Len(file.content) /\ file' = file
    BY Content DEF ReaderInv, GetLine
  <1>3. feof' => pos' = Len(file'.content)
    <2>1. ~feof
      BY <1>2 DEF ReadInv, ReadTo
    <2>2. n < PageSize - 1 /\ file.content[pos + n] # "\n" => pos + n = Len(file.content)
      BY <1>1, LineEnds DEF ReaderInv
    <2> QED BY <1>1, <1>2, <2>1, <2>2
  <1>5. CutAnywhere' => CutAt(pos)'
    <2>1. CutAnywhere' => CutAnywhere
      BY <1>2 DEF CutAnywhere, LinesFitPages
    <2> QED BY <2>1, CutOfLine
  <1>6. ReadTo'
    BY <1>3, <1>5 DEF GetLine, ReadTo, Before, Joined
  <1>7. InOneRead'
    <2> SUFFICES ASSUME OneBuffer' PROVE (/\ processed = 0 /\ bytes \in {0, FirstBytes} /\ pc # "flush"
                                          /\ pc \in {"drain", "join"} \cup Joined => feof
                                          /\ pc \in Joined => ~infile)'
      BY DEF InOneRead
    <2>1. OneBuffer
      BY <1>2 DEF OneBuffer
    <2>2. bytes = FirstBytes /\ processed = 0
      BY <2>1, Sizes DEF ReadInv, InOneRead, ReaderInv, Room, Reading, GetLine
    <2>3. FlushDen * Len(file.content) < FlushNum * BufferSize(FirstBytes)
      <3>1. Min({FirstBytes, BufferMax}) = BufferSize(FirstBytes)
        BY Sizes DEF Min, BufferSize
      <3> QED BY <2>1, <3>1 DEF OneBuffer
    <2>4. Len(buffer') <= Len(file.content) /\ Len(buffer') \in Nat
      <3>1. processed' \in Nat /\ Len(buffer') \in Nat /\ processed' + Len(buffer') <= pos'
            /\ pos' \in 0 .. Len(file'.content)
        BY DEF ReaderInv, Typing, Accounted
      <3> QED BY <1>2, <3>1
    <2>5. ~Full(buffer')
      <3>1. FlushDen * Len(buffer') <= FlushDen * Len(file.content)
        BY <1>2, <2>4, Sizes, GrowFactor
      <3>2. FlushDen * Len(buffer') \in Int /\ FlushDen * Len(file.content) \in Int
            /\ FlushNum * BufferSize(FirstBytes) \in Int
        BY <1>2, <2>4, Sizes
      <3> QED BY <2>2, <2>3, <3>1, <3>2 DEF Full, Limit
    <2>6. pc' = "read"
      BY <2>5 DEF GetLine
    <2> QED BY <2>2, <2>6 DEF GetLine, Joined
  <1>8. Parsing'
    BY ParsingStep DEF ReadInv, Next, MainStep
  <1> QED BY <1>6, <1>7, <1>8 DEF ReadInv

\* The other steps read nothing.
LEMMA OtherRead ==
    ASSUME ReaderInv, ReadInv, Next \/ UNCHANGED vars, ~GetLine
    PROVE  ReadInv'
  <1> USE DEF fileVars, readVars, threadVars, loopVars
  <1>1. Parsing'
    BY ParsingStep DEF ReadInv
  <1>2. file' = file /\ (CutAnywhere' <=> CutAnywhere) /\ (OneBuffer' <=> OneBuffer)
    <2>1. file' = file
      BY DEF Next, MainStep, WorkerStep, OpenFails, GuessFromHead, OpenFile, NoLine, EnoughBytes, Flush,
             Drain, Join, TakeRow, TakeFromNone, ReadMore, AtEnd, ReadMoved, LoadRow, RowThrows,
             WorkerWaits, SpuriousWakeup, WorkerTakes, WorkerFeeds, vars
    <2> QED BY <2>1 DEF CutAnywhere, LinesFitPages, OneBuffer
  <1>3. pos' = pos => (CutAt(pos)' <=> CutAt(pos))
    BY <1>2 DEF CutAt
  <1>4. CASE GuessFromHead
    <2>1. reader' = StartReader'
      BY <1>4, GuessedReader DEF StartReader
    <2>2. ReadTo'
      BY <1>2, <1>3, <1>4, <2>1 DEF GuessFromHead, ReadInv, ReadTo, Before, Joined
    <2>3. InOneRead'
      BY <1>2, <1>4 DEF GuessFromHead, ReadInv, InOneRead, Joined
    <2> QED BY <1>1, <2>2, <2>3 DEF ReadInv
  <1>5. CASE OpenFails
    BY <1>1, <1>2, <1>3, <1>5 DEF OpenFails, ReadInv, ReadTo, InOneRead, StartReader, Before, Joined
  <1>6. CASE OpenFile
    BY <1>1, <1>2, <1>3, <1>6 DEF OpenFile, StartReading, ReadInv, ReadTo, InOneRead, Before, Joined
  <1>7. CASE NoLine
    BY <1>1, <1>2, <1>3, <1>7 DEF NoLine, ReadInv, ReadTo, InOneRead, Before, Joined
  <1>8. CASE EnoughBytes
    <2>1. ~OneBuffer
      BY <1>8, Sizes DEF EnoughBytes, ReadInv, InOneRead, ReaderInv, Room, Reading
    <2> QED BY <1>1, <1>2, <1>3, <1>8, <2>1 DEF EnoughBytes, ReadInv, ReadTo, InOneRead, Before, Joined
  <1>9. CASE Flush
    BY <1>1, <1>2, <1>3, <1>9 DEF Flush, ReadInv, ReadTo, InOneRead, Before, Joined
  <1>10. CASE Drain
    BY <1>1, <1>2, <1>3, <1>10 DEF Drain, ReadInv, ReadTo, InOneRead, Before, Joined
  <1>11. CASE Join
    BY <1>1, <1>2, <1>3, <1>11 DEF Join, ReadInv, ReadTo, InOneRead, Before, Joined, ReaderInv, Typing
  <1>12. CASE ReadMore
    BY <1>1, <1>2, <1>3, <1>12 DEF ReadMore, StartReading, ReadInv, ReadTo, InOneRead, Before, Joined
  <1>13. CASE TakeRow \/ TakeFromNone \/ AtEnd \/ ReadMoved \/ LoadRow \/ RowThrows
    BY <1>1, <1>2, <1>3, <1>13 DEF TakeRow, TakeFromNone, AtEnd, ReadMoved, LoadRow, RowThrows,
       ReadInv, ReadTo, InOneRead, Before, Joined
  <1>14. CASE WorkerWaits \/ SpuriousWakeup \/ WorkerTakes \/ UNCHANGED vars
    BY <1>1, <1>2, <1>3, <1>14 DEF WorkerWaits, SpuriousWakeup, WorkerTakes, vars,
       ReadInv, ReadTo, InOneRead, StartReader, Before, Joined
  <1>15. CASE WorkerFeeds
    <2>1. pc \notin Before
      BY <1>15 DEF WorkerFeeds, ReaderInv, Protocol
    <2> QED BY <1>1, <1>2, <1>3, <1>15, <2>1 DEF WorkerFeeds, ReadInv, ReadTo, InOneRead
  <1> QED BY <1>4, <1>5, <1>6, <1>7, <1>8, <1>9, <1>10, <1>11, <1>12, <1>13, <1>14, <1>15
          DEF Next, MainStep, WorkerStep

\* No step breaks the invariant,
LEMMA ReadStep ==
    ASSUME ReaderInv, ReaderInv', ReadInv, [Next]_vars
    PROVE  ReadInv'
  BY GetLineRead, OtherRead

\* which always holds.
LEMMA ReadInvariant == Spec => []ReadInv
  BY InitRead, ReaderStep, ReadStep, ReaderInvariant, PTL DEF Spec

--------------------------------------------------------------------------------
(* The texts in the queue lie behind each other in the file, and the parser is *)
(* where one feed of all before them is.                                       *)

\* Where the buffers may be cut.
Cuttable == OneBuffer \/ CutAnywhere

\* The parser behind the first n characters of one feed of the whole, and at its end.
ParsedUpTo(n) == Whole(file.content, StartReader)[n].r
\* The last row is completed at the end of the file.
ParsedAll == WriteRecord(ParsedUpTo(Len(file.content)))

\* The rows that are gone from the queue of rows.
Taken == delivered + IF pc = "body" THEN 1 ELSE 0

\* The file has been closed behind its end.
Completed == pc \in Joined /\ ~infile

\* f[k] is where the k-th text of the queue ends, and q what has been parsed.
Placing(f, q) ==
    /\ f \in [0 .. Len(feed_buffer) -> 0 .. pos] /\ q \in 0 .. f[0]
    /\ CutAt(q) /\ \A k \in 0 .. Len(feed_buffer) : CutAt(f[k])
    /\ chunk = SubSeq(file.content, q + 1, f[0])
    /\ \A k \in 1 .. Len(feed_buffer) :
          f[k - 1] <= f[k] /\ feed_buffer[k].text = SubSeq(file.content, f[k - 1] + 1, f[k])
    /\ buffer = SubSeq(file.content, f[Len(feed_buffer)] + 1, pos)

\* The parser has what one feed of the first q characters leaves, but for the rows taken.
Followed(q) ==
    /\ Same(reader, IF Completed THEN ParsedAll ELSE ParsedUpTo(q), Taken)
    /\ q = 0 /\ ~Completed /\ ~CutAnywhere => reader = StartReader

\* The inductive invariant.
Following ==
    Cuttable /\ pc \notin {"undefined", "threw"} => \E f, q : Placing(f, q) /\ Followed(q)

\* What all this is about stays the same in every step.
Kept == UNCHANGED <<file, reader.delimiter, reader.header_row>>

\* What is built from the file and the format alone stays.
LEMMA KeptSame ==
    ASSUME Kept
    PROVE  /\ StartReader' = StartReader /\ (Cuttable' <=> Cuttable) /\ (CutAnywhere' <=> CutAnywhere)
           /\ \A n : ParsedUpTo(n)' = ParsedUpTo(n)
           /\ ParsedAll' = ParsedAll
           /\ \A c : CutAt(c)' <=> CutAt(c)
  <1>1. StartReader' = StartReader /\ file' = file
    BY DEF Kept, StartReader
  <1> QED BY <1>1 DEF CutAnywhere, LinesFitPages, Cuttable, OneBuffer, ParsedUpTo, ParsedAll, CutAt

\* The parser at the start, as the whole is fed.
LEMMA StartTyped ==
    /\ IsReader(StartReader) /\ StartReader.quote_char = Quote /\ StartReader.records = <<>>
    /\ StartReader.delimiter = reader.delimiter /\ StartReader.header_row = reader.header_row
  BY BlankTyped DEF StartReader, Blank

\* While the file is opened there is nothing in the queue and nothing parsed.
AtStart ==
    /\ Typing /\ pos = 0 /\ delivered = 0 /\ reader = StartReader /\ pc \notin Joined
    /\ feed_buffer = <<>> /\ chunk = <<>> /\ buffer = <<>>

\* Then it holds with nothing placed.
LEMMA PlacedAtStart == AtStart => Following
  <1> SUFFICES ASSUME AtStart PROVE Following
    OBVIOUS
  <1> USE DEF AtStart
  <1> DEFINE f == [k \in 0 .. 0 |-> 0]
             W == Whole(file.content, StartReader)
  <1>1. Placing(f, 0)
    <2>1. SubSeq(file.content, 0 + 1, 0) = <<>>
      BY SubSeqEmpty
    <2>2. Len(feed_buffer) = 0 /\ f[0] = 0 /\ f \in [0 .. Len(feed_buffer) -> 0 .. pos] /\ CutAt(0)
      BY DEF CutAt
    <2> QED BY <2>1, <2>2 DEF Placing
  <1>2. Followed(0)
    <2>1. Same(StartReader, W[0].r, 0)
      BY WholeRun, StartTyped, Content
    <2>2. Taken = 0 /\ ~Completed
      BY DEF Taken, Completed, Joined
    <2> QED BY <2>1, <2>2 DEF Followed, ParsedUpTo
  <1> QED BY <1>1, <1>2 DEF Following

\* It holds at first,
LEMMA InitFollowing == Init => Following
  <1> SUFFICES ASSUME Init PROVE Following
    OBVIOUS
  <1>1. Typing /\ ReadTo
    BY InitReader, InitRead DEF ReaderInv, ReadInv
  <1> QED BY <1>1, PlacedAtStart DEF Init, AtStart, ReadTo, Before, Joined

\* The head of the file is looked at, and the file opened.
LEMMA OpeningAtStart ==
    ASSUME ReaderInv, ReaderInv', ReadInv, ReadInv', OpenFails \/ GuessFromHead \/ OpenFile
    PROVE  AtStart'
  <1>1. /\ (Typing /\ pos = 0 /\ delivered = 0 /\ reader = StartReader)'
        /\ pc' \notin Joined /\ (feed_buffer = <<>> /\ chunk = <<>> /\ buffer = <<>>)'
    <2>1. pc \in Before /\ pos = 0 /\ delivered = 0 /\ reader = StartReader
      BY DEF OpenFails, GuessFromHead, OpenFile, ReadInv, ReadTo, Before
    <2>2. feed_buffer = <<>> /\ chunk = <<>> /\ Len(buffer) = 0 /\ buffer \in Seq(STRING)
      BY <2>1, Content DEF ReaderInv, Protocol, Fed, Accounted, Typing
    <2>3. buffer = <<>>
      BY <2>2
    <2>4. Typing' /\ (pc' \in Before => (pos = 0 /\ delivered = 0 /\ reader = StartReader)')
      BY DEF ReaderInv, ReadInv, ReadTo
    <2> QED BY <2>1, <2>2, <2>3, <2>4 DEF OpenFails, GuessFromHead, OpenFile, StartReading, Before,
               Joined, fileVars, readVars, threadVars, loopVars, StartReader
  <1> QED BY <1>1 DEF AtStart

\* and when the file is opened.
LEMMA OpeningFollowing ==
    ASSUME ReaderInv, ReaderInv', ReadInv, ReadInv', OpenFails \/ GuessFromHead \/ OpenFile
    PROVE  Following'
  BY OpeningAtStart, PlacedAtStart, PTL

--------------------------------------------------------------------------------
(* The main thread reads. *)

\* A line is appended to the buffer.
LEMMA GetLineFollowing ==
    ASSUME ReaderInv, ReaderInv', ReadInv, ReadInv', Following, GetLine
    PROVE  Following'
  <1> SUFFICES ASSUME Cuttable PROVE \E f, q : (Placing(f, q) /\ Followed(q))'
    <2>1. Cuttable' <=> Cuttable
      BY KeptSame DEF GetLine, Kept
    <2> QED BY <2>1 DEF Following
  <1>1. PICK f, q : Placing(f, q) /\ Followed(q)
    BY DEF Following, GetLine
  <1>2. Kept /\ reader' = reader /\ feed_buffer' = feed_buffer /\ chunk' = chunk
        /\ delivered' = delivered
    BY DEF GetLine, Kept, threadVars, loopVars
  <1>3. PICK n \in 1 .. Len(file.content) - pos :
            /\ buffer' = buffer \o SubSeq(file.content, pos + 1, pos + n)
            /\ pos' = pos + n
    BY DEF GetLine
  <1>4. file.content \in Seq(STRING) /\ Len(file.content) \in Nat /\ pos \in 0 .. Len(file.content)
        /\ Len(feed_buffer) \in Nat
    BY Content DEF ReaderInv, Typing
  <1>5. f \in [0 .. Len(feed_buffer) -> 0 .. pos']
    BY <1>1, <1>3, <1>4 DEF Placing
  <1>6. buffer' = SubSeq(file.content, f[Len(feed_buffer)] + 1, pos')
    <2>1. f[Len(feed_buffer)] \in 0 .. pos
      BY <1>1, <1>4 DEF Placing
    <2>2. f[Len(feed_buffer)] \in 0 .. Len(file.content)
          /\ pos \in f[Len(feed_buffer)] .. Len(file.content)
          /\ pos + n \in pos .. Len(file.content)
      BY <1>4, <2>1
    <2> QED BY <1>1, <1>3, <1>4, <2>2, SubSeqJoin DEF Placing
  <1>7. Placing(f, q)'
    BY <1>1, <1>2, <1>5, <1>6, KeptSame DEF Placing, Kept
  <1>8. Followed(q)'
    <2>1. pc \notin Joined /\ pc' \notin Joined
      BY DEF GetLine, Joined
    <2>2. Taken' = Taken /\ ~Completed /\ ~Completed'
      BY <1>2, <2>1 DEF Taken, Completed, GetLine, Joined
    <2> QED BY <1>1, <1>2, <2>2, KeptSame DEF Followed
  <1> QED BY <1>7, <1>8

\* The buffer goes to the end of the queue.
LEMMA FlushFollowing ==
    ASSUME ReaderInv, ReaderInv', ReadInv, ReadInv', Following, Flush
    PROVE  Following'
  <1> SUFFICES ASSUME Cuttable PROVE \E f, q : (Placing(f, q) /\ Followed(q))'
    <2>1. Cuttable' <=> Cuttable
      BY KeptSame DEF Flush, Kept, fileVars
    <2> QED BY <2>1 DEF Following
  <1>1. PICK f, q : Placing(f, q) /\ Followed(q)
    BY DEF Following, Flush
  <1>2. Kept /\ reader' = reader /\ chunk' = chunk /\ delivered' = delivered /\ pos' = pos
    BY DEF Flush, Kept, fileVars, threadVars, loopVars
  <1> DEFINE n == Len(feed_buffer)
  <1>0. PICK g : g = [k \in 0 .. n + 1 |-> IF k <= n THEN f[k] ELSE pos]
    OBVIOUS
  <1>3. file.content \in Seq(STRING) /\ Len(file.content) \in Nat /\ pos \in 0 .. Len(file.content)
        /\ n \in Nat
    BY Content DEF ReaderInv, Typing
  <1>4. Item(buffer) \in WorkItem /\ Item(buffer).text = buffer
    BY DEF ReaderInv, Typing, Item, WorkItem
  <1>5. /\ Len(feed_buffer') = n + 1
        /\ \A k \in 1 .. n : feed_buffer'[k] = feed_buffer[k]
        /\ feed_buffer'[n + 1].text = buffer
    <2>1. feed_buffer' = Append(feed_buffer, Item(buffer)) /\ feed_buffer \in Seq(WorkItem)
      BY DEF Flush, ReaderInv, Typing
    <2> QED BY <1>4, <2>1, AppendProperties
  <1>6. CutAt(pos)
    BY DEF ReadInv, ReadTo, InOneRead, Flush, Cuttable
  <1>7. f \in [0 .. n -> 0 .. pos] /\ \A k \in 0 .. n : f[k] \in 0 .. pos
    BY <1>1 DEF Placing
  <1>8. /\ g \in [0 .. n + 1 -> 0 .. pos] /\ g[n + 1] = pos
        /\ \A k \in 0 .. n : g[k] = f[k]
    BY <1>0, <1>3, <1>7
  <1> HIDE DEF n
  <1>9. Placing(g, q)'
    <2>1. g \in [0 .. Len(feed_buffer') -> 0 .. pos'] /\ q \in 0 .. g[0]
      BY <1>1, <1>2, <1>3, <1>5, <1>8 DEF Placing
    <2>2. CutAt(q) /\ \A k \in 0 .. Len(feed_buffer') : CutAt(g[k])
      <3>1. CutAt(q) /\ \A k \in 0 .. n : CutAt(g[k])
        BY <1>1, <1>8 DEF Placing, n
      <3>2. \A k \in 0 .. n + 1 : k \in 0 .. n \/ k = n + 1
        BY <1>3
      <3> QED BY <1>5, <1>6, <1>8, <3>1, <3>2
    <2>3. chunk = SubSeq(file.content, q + 1, g[0])
      BY <1>1, <1>3, <1>8 DEF Placing
    <2>4. ASSUME NEW k \in 1 .. Len(feed_buffer')
          PROVE  g[k - 1] <= g[k] /\ feed_buffer'[k].text = SubSeq(file.content, g[k - 1] + 1, g[k])
      <3>1. CASE k \in 1 .. n
        <4>1. k - 1 \in 0 .. n /\ k \in 0 .. n
          BY <1>3, <3>1
        <4> QED BY <1>1, <1>5, <1>8, <3>1, <4>1 DEF Placing, n
      <3>2. CASE k = n + 1
        <4>1. k - 1 = n /\ n \in 0 .. n
          BY <1>3, <3>2
        <4>2. buffer = SubSeq(file.content, f[n] + 1, pos)
          BY <1>1 DEF Placing, n
        <4> QED BY <1>5, <1>7, <1>8, <3>2, <4>1, <4>2
      <3> QED BY <1>3, <1>5, <3>1, <3>2
    <2>5. buffer' = SubSeq(file.content, g[Len(feed_buffer')] + 1, pos')
      <3>1. buffer' = <<>> /\ SubSeq(file.content, pos + 1, pos) = <<>>
        BY <1>3, SubSeqEmpty DEF Flush
      <3> QED BY <1>2, <1>5, <1>8, <3>1
    <2> QED BY <1>2, <2>1, <2>2, <2>3, <2>4, <2>5, KeptSame DEF Placing, Kept
  <1>10. Followed(q)'
    <2>1. Taken' = Taken /\ ~Completed /\ ~Completed'
      BY <1>2 DEF Taken, Completed, Flush, Joined
    <2> QED BY <1>1, <1>2, <2>1, KeptSame DEF Followed
  <1> QED BY <1>9, <1>10

\* The rest goes there, and an empty text with the null item.
LEMMA DrainFollowing ==
    ASSUME ReaderInv, ReaderInv', ReadInv, ReadInv', Following, Drain
    PROVE  Following'
  <1> SUFFICES ASSUME Cuttable PROVE \E f, q : (Placing(f, q) /\ Followed(q))'
    <2>1. Cuttable' <=> Cuttable
      BY KeptSame DEF Drain, Kept, fileVars
    <2> QED BY <2>1 DEF Following
  <1>1. PICK f, q : Placing(f, q) /\ Followed(q)
    BY DEF Following, Drain
  <1>2. Kept /\ reader' = reader /\ chunk' = chunk /\ delivered' = delivered /\ pos' = pos
    BY DEF Drain, Kept, fileVars, threadVars, loopVars
  <1> DEFINE n == Len(feed_buffer)
  <1>0. PICK g : g = [k \in 0 .. n + 2 |-> IF k <= n THEN f[k] ELSE pos]
    OBVIOUS
  <1>3. file.content \in Seq(STRING) /\ Len(file.content) \in Nat /\ pos \in 0 .. Len(file.content)
        /\ n \in Nat
    BY Content DEF ReaderInv, Typing
  <1>4. /\ Item(buffer) \in WorkItem /\ Item(buffer).text = buffer
        /\ Null \in WorkItem /\ Null.text = <<>>
    BY DEF ReaderInv, Typing, Item, Null, WorkItem
  <1>5. /\ Len(feed_buffer') = n + 2
        /\ \A k \in 1 .. n : feed_buffer'[k] = feed_buffer[k]
        /\ feed_buffer'[n + 1].text = buffer
        /\ feed_buffer'[n + 2].text = <<>>
    <2>1. feed_buffer' = feed_buffer \o <<Item(buffer), Null>> /\ feed_buffer \in Seq(WorkItem)
      BY DEF Drain, ReaderInv, Typing
    <2>2. /\ <<Item(buffer), Null>> \in Seq(WorkItem) /\ Len(<<Item(buffer), Null>>) = 2
          /\ <<Item(buffer), Null>>[1] = Item(buffer) /\ <<Item(buffer), Null>>[2] = Null
      BY <1>4
    <2> QED BY <1>3, <1>4, <2>1, <2>2, ConcatProperties
  <1>6. CutAt(pos)
    BY DEF ReadInv, ReadTo, InOneRead, Drain, Cuttable, CutAt
  <1>7. f \in [0 .. n -> 0 .. pos] /\ \A k \in 0 .. n : f[k] \in 0 .. pos
    BY <1>1 DEF Placing
  <1>8. /\ g \in [0 .. n + 2 -> 0 .. pos] /\ g[n + 1] = pos /\ g[n + 2] = pos
        /\ \A k \in 0 .. n : g[k] = f[k]
    BY <1>0, <1>3, <1>7
  <1> HIDE DEF n
  <1>81. SubSeq(file.content, pos + 1, pos) = <<>>
    BY <1>3, SubSeqEmpty
  <1>9. Placing(g, q)'
    <2>1. g \in [0 .. Len(feed_buffer') -> 0 .. pos'] /\ q \in 0 .. g[0]
      BY <1>1, <1>2, <1>3, <1>5, <1>8 DEF Placing
    <2>2. CutAt(q) /\ \A k \in 0 .. Len(feed_buffer') : CutAt(g[k])
      <3>1. CutAt(q) /\ \A k \in 0 .. n : CutAt(g[k])
        BY <1>1, <1>8 DEF Placing, n
      <3>2. \A k \in 0 .. n + 2 : k \in 0 .. n \/ k = n + 1 \/ k = n + 2
        BY <1>3
      <3> QED BY <1>5, <1>6, <1>8, <3>1, <3>2
    <2>3. chunk = SubSeq(file.content, q + 1, g[0])
      BY <1>1, <1>3, <1>8 DEF Placing
    <2>4. ASSUME NEW k \in 1 .. Len(feed_buffer')
          PROVE  g[k - 1] <= g[k] /\ feed_buffer'[k].text = SubSeq(file.content, g[k - 1] + 1, g[k])
      <3>1. CASE k \in 1 .. n
        <4>1. k - 1 \in 0 .. n /\ k \in 0 .. n
          BY <1>3, <3>1
        <4> QED BY <1>1, <1>5, <1>8, <3>1, <4>1 DEF Placing, n
      <3>2. CASE k = n + 1
        <4>1. k - 1 = n /\ n \in 0 .. n
          BY <1>3, <3>2
        <4>2. buffer = SubSeq(file.content, f[n] + 1, pos)
          BY <1>1 DEF Placing, n
        <4> QED BY <1>5, <1>7, <1>8, <3>2, <4>1, <4>2
      <3>3. CASE k = n + 2
        <4>1. k - 1 = n + 1 /\ pos <= pos
          BY <1>3, <3>3
        <4> QED BY <1>5, <1>8, <1>81, <3>3, <4>1
      <3> QED BY <1>3, <1>5, <3>1, <3>2, <3>3
    <2>5. buffer' = SubSeq(file.content, g[Len(feed_buffer')] + 1, pos')
      <3>1. buffer' = <<>>
        BY DEF Drain
      <3> QED BY <1>2, <1>5, <1>8, <1>81, <3>1
    <2> QED BY <1>2, <2>1, <2>2, <2>3, <2>4, <2>5, KeptSame DEF Placing, Kept
  <1>10. Followed(q)'
    <2>1. Taken' = Taken /\ ~Completed /\ ~Completed'
      BY <1>2 DEF Taken, Completed, Drain, Joined
    <2> QED BY <1>1, <1>2, <2>1, KeptSame DEF Followed
  <1> QED BY <1>9, <1>10

\* A worker that does not feed has parsed all it took.
LEMMA NothingHeld ==
    ASSUME ReaderInv, NEW f, NEW q, Placing(f, q), worker # "feeding"
    PROVE  q = f[0] /\ (feed_buffer = <<>> /\ buffer = <<>> => f[0] = pos)
  <1>1. file.content \in Seq(STRING) /\ Len(file.content) \in Nat /\ pos \in 0 .. Len(file.content)
    BY Content DEF ReaderInv
  <1>2. /\ f[0] \in 0 .. pos /\ q \in 0 .. f[0]
        /\ f[0] \in q .. Len(file.content) /\ q \in 0 .. Len(file.content)
    BY <1>1 DEF Placing, ReaderInv, Typing
  <1>3. Len(chunk) = f[0] - q
    BY <1>1, <1>2, PieceOf DEF Placing
  <1>4. q = f[0]
    BY <1>2, <1>3 DEF ReaderInv, Fed
  <1>5. ASSUME feed_buffer = <<>>, buffer = <<>> PROVE f[0] = pos
    <2>1. buffer = SubSeq(file.content, f[0] + 1, pos)
      BY <1>5 DEF Placing
    <2>2. Len(buffer) = pos - f[0]
      <3>1. f[0] \in 0 .. Len(file.content) /\ pos \in f[0] .. Len(file.content)
        BY <1>1, <1>2
      <3> QED BY <1>1, <2>1, <3>1, PieceOf
    <2> QED BY <1>1, <1>2, <1>5, <2>2
  <1> QED BY <1>4, <1>5

\* The parser of the whole has the shape of one everywhere.
LEMMA ParsedTyped ==
    ASSUME Typing
    PROVE  /\ \A n \in 0 .. Len(file.content) :
                 IsReader(ParsedUpTo(n)) /\ SameFormat(ParsedUpTo(n), StartReader)
           /\ IsReader(ParsedAll) /\ SameFormat(ParsedAll, StartReader)
  <1>1. \A n \in 0 .. Len(file.content) : IsReader(ParsedUpTo(n)) /\ SameFormat(ParsedUpTo(n), StartReader)
    BY WholeRun, StartTyped, Content DEF ParsedUpTo, IsState
  <1>2. Len(file.content) \in 0 .. Len(file.content)
    BY Content
  <1>3. IsReader(ParsedAll) /\ SameFormat(ParsedAll, StartReader)
    <2> DEFINE r == ParsedUpTo(Len(file.content))
    <2>1. IsReader(r) /\ SameFormat(r, StartReader)
      BY <1>1, <1>2
    <2>2. ParsedAll = WriteRecord(r)
      BY DEF ParsedAll
    <2> HIDE DEF r
    <2>3. IsReader(WriteRecord(r)) /\ SameFormat(WriteRecord(r), r)
      BY <2>1, WriteRecordEffect
    <2> QED BY <2>1, <2>2, <2>3 DEF SameFormat
  <1> QED BY <1>1, <1>3

\* The loop that reads ends.
LEMMA NoMoreFollowing ==
    ASSUME ReaderInv, ReadInv, Following, NoLine \/ EnoughBytes
    PROVE  Following'
  <1> SUFFICES ASSUME Cuttable PROVE \E f, q : (Placing(f, q) /\ Followed(q))'
    <2>1. Cuttable' <=> Cuttable
      BY KeptSame DEF NoLine, EnoughBytes, Kept, fileVars
    <2> QED BY <2>1 DEF Following
  <1>1. PICK f, q : Placing(f, q) /\ Followed(q)
    BY DEF Following, NoLine, EnoughBytes
  <1>2. Kept /\ UNCHANGED <<reader, feed_buffer, chunk, buffer, delivered, pos>>
    BY DEF NoLine, EnoughBytes, Kept, fileVars, readVars, threadVars, loopVars
  <1>3. Taken' = Taken /\ ~Completed /\ ~Completed'
    BY <1>2 DEF Taken, Completed, NoLine, EnoughBytes, Joined
  <1>4. Placing(f, q)'
    BY <1>1, <1>2, KeptSame DEF Placing, Kept
  <1>5. Followed(q)'
    BY <1>1, <1>2, <1>3, KeptSame DEF Followed
  <1> QED BY <1>4, <1>5

\* The worker is joined, and the last row completed.
LEMMA JoinFollowing ==
    ASSUME ReaderInv, ReadInv, ReadInv', Following, Join
    PROVE  Following'
  <1>0. Kept
    <2>1. IsReader(reader)
      BY DEF ReadInv, Parsing
    <2>2. SameFormat(EndFeed(reader), reader)
      BY <2>1, WriteRecordEffect DEF EndFeed
    <2> QED BY <2>2 DEF Join, Kept, SameFormat
  <1> SUFFICES ASSUME Cuttable PROVE \E f, q : (Placing(f, q) /\ Followed(q))'
    <2>1. Cuttable' <=> Cuttable
      BY <1>0, KeptSame
    <2> QED BY <2>1 DEF Following
  <1>1. PICK f, q : Placing(f, q) /\ Followed(q)
    BY DEF Following, Join
  <1>2. UNCHANGED <<feed_buffer, chunk, buffer, delivered, pos>>
    BY DEF Join, readVars, threadVars, loopVars
  <1>3. Placing(f, q)'
    BY <1>0, <1>1, <1>2, KeptSame DEF Placing, Kept
  <1>4. q = pos
    <2>1. worker = "dead" /\ feed_buffer = <<>> /\ buffer = <<>>
      BY DEF Join, ReaderInv, Protocol, ReadInv, ReadTo, Alive
    <2> QED BY <1>1, <2>1, NothingHeld
  <1>5. Same(reader, ParsedUpTo(q), Taken) /\ Taken \in Nat /\ Taken' = Taken
    BY <1>1, <1>2 DEF Followed, Completed, Join, Joined, Taken, ReaderInv, Typing
  <1>6. Completed' <=> feof
    BY DEF Completed, Join, Joined
  <1>7. Same(reader', IF feof THEN ParsedAll ELSE ParsedUpTo(q), Taken)
    <2>1. CASE feof
      <3>1. q = Len(file.content) /\ IsReader(reader) /\ IsReader(ParsedUpTo(q))
        BY <1>4, <2>1, ParsedTyped, Content DEF ReadInv, ReadTo, Parsing, ReaderInv
      <3>2. Same(WriteRecord(reader), WriteRecord(ParsedUpTo(q)), Taken)
        BY <1>5, <3>1, WriteRecordSame
      <3> QED BY <2>1, <3>1, <3>2 DEF Join, EndFeed, ParsedAll
    <2>2. CASE ~feof
      BY <1>5, <2>2 DEF Join
    <2> QED BY <2>1, <2>2
  <1>8. ~CutAnywhere' => Completed'
    <2> SUFFICES ASSUME ~CutAnywhere' PROVE Completed'
      OBVIOUS
    <2>1. OneBuffer'
      BY <1>0, KeptSame DEF Cuttable
    <2> QED BY <2>1 DEF ReadInv, InOneRead, Completed, Join, Joined
  <1>9. Followed(q)'
    BY <1>0, <1>5, <1>6, <1>7, <1>8, KeptSame DEF Followed
  <1> QED BY <1>3, <1>9

--------------------------------------------------------------------------------
(* The worker takes texts and feeds them. *)

\* The worker waits or wakes up.
LEMMA WaitingFollowing ==
    ASSUME ReaderInv, ReadInv, Following, WorkerWaits \/ SpuriousWakeup \/ UNCHANGED vars
    PROVE  Following'
  <1> SUFFICES ASSUME Cuttable, pc \notin {"undefined", "threw"}
               PROVE  \E f, q : (Placing(f, q) /\ Followed(q))'
    <2>1. (Cuttable' <=> Cuttable) /\ pc' = pc
      BY KeptSame DEF WorkerWaits, SpuriousWakeup, vars, Kept
    <2> QED BY <2>1 DEF Following
  <1>1. PICK f, q : Placing(f, q) /\ Followed(q)
    BY DEF Following
  <1>2. Kept /\ UNCHANGED <<reader, feed_buffer, chunk, buffer, delivered, pos, pc, infile>>
    BY DEF WorkerWaits, SpuriousWakeup, vars, Kept, fileVars, readVars, threadVars, loopVars
  <1>3. Taken' = Taken /\ (Completed' <=> Completed)
    BY <1>2 DEF Taken, Completed
  <1>4. Placing(f, q)'
    BY <1>1, <1>2, KeptSame DEF Placing, Kept
  <1>5. Followed(q)'
    BY <1>1, <1>2, <1>3, KeptSame DEF Followed
  <1> QED BY <1>4, <1>5

\* The first text of the queue is the one that follows.
LEMMA WorkerTakesFollowing ==
    ASSUME ReaderInv, ReadInv, Following, WorkerTakes
    PROVE  Following'
  <1> SUFFICES ASSUME Cuttable, pc \notin {"undefined", "threw"}
               PROVE  \E f, q : (Placing(f, q) /\ Followed(q))'
    <2>1. (Cuttable' <=> Cuttable) /\ pc' = pc
      BY KeptSame DEF WorkerTakes, Kept
    <2> QED BY <2>1 DEF Following
  <1>1. PICK f, q : Placing(f, q) /\ Followed(q)
    BY DEF Following
  <1>2. Kept /\ UNCHANGED <<reader, buffer, delivered, pos, pc, infile>>
    BY DEF WorkerTakes, Kept, fileVars, readVars, loopVars
  <1> DEFINE n == Len(feed_buffer)
  <1>3. feed_buffer \in Seq(WorkItem) /\ feed_buffer # <<>> /\ feed_buffer' = Tail(feed_buffer)
        /\ n \in Nat /\ n >= 1 /\ Head(feed_buffer) = feed_buffer[1] /\ chunk' = feed_buffer[1].text
    BY DEF WorkerTakes, ReaderInv, Typing
  <1>4. /\ Len(feed_buffer') = n - 1
        /\ \A k \in 1 .. n - 1 : feed_buffer'[k] = feed_buffer[k + 1]
    BY <1>3
  <1>5. PICK g : g = [k \in 0 .. n - 1 |-> f[k + 1]]
    OBVIOUS
  <1>6. f \in [0 .. n -> 0 .. pos] /\ \A k \in 0 .. n : f[k] \in 0 .. pos
    BY <1>1 DEF Placing
  <1>7. pos \in Nat /\ q = f[0]
    BY <1>1, Content, NothingHeld DEF WorkerTakes, ReaderInv
  <1> HIDE DEF n
  <1>8. /\ g \in [0 .. n - 1 -> 0 .. pos]
        /\ \A k \in 0 .. n - 1 : g[k] = f[k + 1] /\ k + 1 \in 0 .. n
    BY <1>3, <1>5, <1>6
  <1>81. \A k \in 1 .. n : /\ f[k - 1] <= f[k]
                           /\ feed_buffer[k].text = SubSeq(file.content, f[k - 1] + 1, f[k])
    BY <1>1 DEF Placing, n
  <1>9. Placing(g, q)'
    <2>1. g \in [0 .. Len(feed_buffer') -> 0 .. pos]
      BY <1>4, <1>8
    <2>2. q \in 0 .. g[0] /\ chunk' = SubSeq(file.content, q + 1, g[0])
      <3>1. g[0] = f[1] /\ f[0] <= f[1] /\ f[0] \in 0 .. pos /\ f[1] \in 0 .. pos
            /\ feed_buffer[1].text = SubSeq(file.content, f[0] + 1, f[1])
        <4>1. 1 \in 1 .. n /\ 0 \in 0 .. n - 1 /\ 0 \in 0 .. n /\ 1 \in 0 .. n /\ 1 - 1 = 0 /\ 0 + 1 = 1
          BY <1>3
        <4> QED BY <1>6, <1>8, <1>81, <4>1
      <3> QED BY <1>3, <1>7, <3>1
    <2>3. CutAt(q) /\ \A k \in 0 .. Len(feed_buffer') : CutAt(g[k])
      <3>1. CutAt(q) /\ \A k \in 0 .. n : CutAt(f[k])
        BY <1>1 DEF Placing, n
      <3> QED BY <1>4, <1>8, <3>1
    <2>4. ASSUME NEW k \in 1 .. Len(feed_buffer')
          PROVE  g[k - 1] <= g[k] /\ feed_buffer'[k].text = SubSeq(file.content, g[k - 1] + 1, g[k])
      <3>1. k \in 1 .. n - 1 /\ k \in 0 .. n - 1 /\ k - 1 \in 0 .. n - 1 /\ k + 1 \in 1 .. n
            /\ (k - 1) + 1 = k /\ (k + 1) - 1 = k
        BY <1>3, <1>4
      <3> QED BY <1>4, <1>8, <1>81, <3>1
    <2>5. buffer = SubSeq(file.content, g[Len(feed_buffer')] + 1, pos)
      <3>1. n - 1 \in 0 .. n - 1 /\ (n - 1) + 1 = n
        BY <1>3
      <3> QED BY <1>1, <1>4, <1>8, <3>1 DEF Placing, n
    <2> QED BY <1>2, <2>1, <2>2, <2>3, <2>4, <2>5, KeptSame DEF Placing, Kept
  <1>10. Taken' = Taken /\ (Completed' <=> Completed)
    BY <1>2 DEF Taken, Completed
  <1>11. Followed(q)'
    BY <1>1, <1>2, <1>10, KeptSame DEF Followed
  <1> QED BY <1>9, <1>11

\* An empty text leaves a parser that was fed nothing as it is.
LEMMA FeedOfBlank ==
    ASSUME NEW d, NEW h
    PROVE  Feed(Blank(d, h), <<>>) = Blank(d, h)
  <1> DEFINE r == Blank(d, h)
             z == Reserved(r, <<>>)
             g == Run(z, <<>>)
  <1>1. Holds(r, ReaderFields) /\ r.record_buffer = EmptyBuffer
    BY DEF Blank, Holds, ReaderFields
  <1>2. Len(<<>>) = 0 /\ Reserve(EmptyBuffer, 0) = EmptyBuffer /\ Reset(EmptyBuffer) = EmptyBuffer
    <2>1. Holds(EmptyBuffer, BufferFields) /\ EmptyBuffer.text = <<>> /\ EmptyBuffer.splits = <<>>
          /\ EmptyBuffer.capacity = 0
      BY DEF EmptyBuffer, Holds, BufferFields
    <2>2. Len(<<>>) = 0
      OBVIOUS
    <2>3. Reserve(EmptyBuffer, 0) = EmptyBuffer
      BY <2>1 DEF Reserve
    <2>4. Reset(EmptyBuffer) = [EmptyBuffer EXCEPT !.text = <<>>, !.splits = <<>>, !.capacity = 0]
      BY <2>1, <2>2 DEF Reset
    <2>5. [EmptyBuffer EXCEPT !.text = <<>>, !.splits = <<>>, !.capacity = 0] = EmptyBuffer
      BY <2>1 DEF Holds, BufferFields
    <2> QED BY <2>2, <2>3, <2>4, <2>5
  <1> HIDE DEF r
  <1>3. [r EXCEPT !.record_buffer = EmptyBuffer] = r
    BY <1>1 DEF Holds, ReaderFields
  <1>4. z = r
    BY <1>1, <1>2, <1>3 DEF Reserved
  <1> HIDE DEF z
  <1>5. g[0] = Start(z)
    BY <1>2, RunSteps
  <1>6. Feed(r, <<>>) = [g[0].r EXCEPT !.record_buffer = Reset(@)]
    BY <1>2, FeedIsRun DEF z
  <1> HIDE DEF g
  <1>7. g[0].r = r
    BY <1>4, <1>5 DEF Start
  <1> QED BY <1>1, <1>2, <1>3, <1>6, <1>7 DEF r

\* A feed of the next text goes on along the run of the whole.
LEMMA WorkerFeedsFollowing ==
    ASSUME ReaderInv, ReadInv, Following, WorkerFeeds
    PROVE  Following'
  <1>0. pc \in {"read", "flush", "drain", "join"} /\ ~Completed
    BY DEF WorkerFeeds, ReaderInv, Typing, Protocol, Reading, Joined, Completed
  <1>1. ASSUME Cuttable, NEW f, NEW q, Placing(f, q), Followed(q)
        PROVE  /\ Kept /\ Same(reader', ParsedUpTo(f[0]), Taken)
               /\ ~CutAnywhere /\ f[0] = 0 => reader' = reader
    <2>1. file.content \in Seq(STRING) /\ Len(file.content) \in Nat /\ pos \in 0 .. Len(file.content)
          /\ IsReader(reader)
      BY Content DEF ReaderInv, ReadInv, Parsing
    <2>2. f[0] \in 0 .. Len(file.content) /\ q \in 0 .. Len(file.content) /\ q <= f[0] /\ q \in Nat
          /\ f[0] \in q .. Len(file.content)
      BY <1>1, <2>1 DEF Placing, ReaderInv, Typing
    <2>3. /\ chunk \in Seq(STRING) /\ Len(chunk) = f[0] - q
          /\ \A i \in 1 .. f[0] - q : chunk[i] = file.content[q + i]
      BY <1>1, <2>1, <2>2, PieceOf DEF Placing
    <2>4. Same(reader, ParsedUpTo(q), Taken) /\ Taken \in Nat
      BY <1>0, <1>1 DEF Followed, Taken, ReaderInv, Typing
    <2>5. Same(Feed(reader, chunk), ParsedUpTo(f[0]), Taken)
      <3>1. CASE CutAnywhere
        <4>1. Quote \notin ToSet(file.content)
          BY <3>1 DEF CutAnywhere
        <4>2. q > 0 => ~(file.content[q] \in Newlines /\ Ahead(file.content, q))
          BY <1>1, <2>1, <2>2 DEF Placing, CutAt, Ahead
        <4>3. q + Len(chunk) = f[0] /\ q + Len(chunk) <= Len(file.content)
          BY <2>2, <2>3
        <4>4. \A i \in 1 .. Len(chunk) : chunk[i] = file.content[q + i]
          BY <2>3
        <4> QED BY <2>1, <2>2, <2>3, <2>4, <4>1, <4>2, <4>3, <4>4, FeedFollows, StartTyped DEF ParsedUpTo
      <3>2. CASE ~CutAnywhere /\ q = f[0]
        <4>1. chunk = <<>>
          BY <2>2, <2>3, <3>2
        <4> QED BY <2>1, <2>4, <3>2, <4>1, FeedOfNothing
      <3>3. CASE ~CutAnywhere /\ q # f[0]
        <4>1. q = 0 /\ f[0] = Len(file.content)
          BY <1>1, <2>2, <3>3 DEF Placing, CutAt
        <4>2. reader = StartReader
          BY <1>0, <1>1, <3>3, <4>1 DEF Followed
        <4>3. chunk = file.content
          <5>1. chunk = SubSeq(file.content, 1, Len(file.content))
            BY <1>1, <4>1 DEF Placing
          <5> QED BY <2>1, <5>1, SubSeqFull
        <4>4. Same(Feed(reader, chunk), ParsedUpTo(f[0]), 0)
          BY <2>1, <4>1, <4>2, <4>3, FeedOfWhole, StartTyped DEF ParsedUpTo
        <4>5. Taken = 0
          <5>1. Same(ParsedUpTo(0), StartReader, 0)
            BY <2>1, WholeRun, StartTyped DEF ParsedUpTo
          <5>2. Len(StartReader.records) = 0 + Len(ParsedUpTo(0).records)
            BY <5>1 DEF Same
          <5>3. Len(StartReader.records) = 0
            BY StartTyped
          <5>4. Len(ParsedUpTo(0).records) = Taken + Len(reader.records)
            BY <2>4, <4>1 DEF Same
          <5>5. Len(ParsedUpTo(0).records) \in Nat
            BY <2>1, <2>2, ParsedTyped DEF ReaderInv, IsReader
          <5> QED BY <2>4, <4>2, <5>2, <5>3, <5>4, <5>5
        <4> QED BY <4>4, <4>5
      <3> QED BY <3>1, <3>2, <3>3
    <2>6. Kept
      <3>1. SameFormat(Feed(reader, chunk), ParsedUpTo(f[0]))
        BY <2>5 DEF Same
      <3>2. SameFormat(ParsedUpTo(f[0]), StartReader)
        BY <2>2, ParsedTyped DEF ReaderInv
      <3> QED BY <3>1, <3>2, StartTyped DEF SameFormat, Kept, WorkerFeeds
    <2>7. ASSUME ~CutAnywhere, f[0] = 0 PROVE reader' = reader
      <3>1. q = 0 /\ chunk = <<>>
        BY <2>2, <2>3, <2>7
      <3>2. reader = StartReader
        BY <1>0, <1>1, <2>7, <3>1 DEF Followed
      <3> QED BY <3>1, <3>2, FeedOfBlank DEF WorkerFeeds, StartReader
    <2> QED BY <2>5, <2>6, <2>7 DEF WorkerFeeds
  <1> SUFFICES ASSUME Cuttable' PROVE \E f, q : (Placing(f, q) /\ Followed(q))'
    BY DEF Following
  <1>2. Cuttable
    BY DEF Cuttable, OneBuffer, CutAnywhere, LinesFitPages, WorkerFeeds
  <1>3. PICK f, q : Placing(f, q) /\ Followed(q)
    BY <1>0, <1>2 DEF Following
  <1>4. PICK p : p = f[0]
    OBVIOUS
  <1>5. Kept /\ Same(reader', ParsedUpTo(p), Taken) /\ (~CutAnywhere /\ p = 0 => reader' = reader)
    BY <1>1, <1>2, <1>3, <1>4
  <1>6. UNCHANGED <<feed_buffer, buffer, delivered, pos, pc, infile>> /\ chunk' = <<>>
    BY DEF WorkerFeeds, fileVars, readVars, loopVars
  <1>7. Taken' = Taken /\ ~Completed'
    BY <1>0, <1>6 DEF Taken, Completed
  <1>8. Placing(f, p)'
    <2>1. p \in 0 .. p /\ CutAt(p) /\ SubSeq(file.content, p + 1, p) = <<>>
      <3>1. 0 \in 0 .. Len(feed_buffer) /\ f[0] \in Nat
        <4>1. Len(feed_buffer) \in Nat /\ pos \in Nat
          BY Content DEF ReaderInv, Typing
        <4>2. f \in [0 .. Len(feed_buffer) -> 0 .. pos]
          BY <1>3 DEF Placing
        <4> QED BY <4>1, <4>2
      <3> QED BY <1>3, <1>4, <3>1, SubSeqEmpty DEF Placing
    <2> QED BY <1>3, <1>4, <1>5, <1>6, <2>1, KeptSame DEF Placing, Kept
  <1>9. Followed(p)'
    <2>1. ASSUME ~CutAnywhere, p = 0 PROVE reader' = StartReader
      <3>1. q = 0
        BY <1>3, <1>4, <2>1 DEF Placing
      <3> QED BY <1>0, <1>3, <1>5, <2>1, <3>1 DEF Followed
    <2> QED BY <1>5, <1>7, <2>1, KeptSame DEF Followed
  <1> QED BY <1>8, <1>9

--------------------------------------------------------------------------------
(* The loop takes the rows. *)

\* A row is taken from the front of the queue of rows.
LEMMA TakeRowFollowing ==
    ASSUME ReaderInv, ReadInv, Following, TakeRow
    PROVE  Following'
  <1>0. /\ IsReader(reader) /\ reader' = [reader EXCEPT !.records = Tail(@)] /\ reader.records # <<>>
        /\ SameFormat(reader', reader)
        /\ \A u, t : t \in Nat /\ Same(reader, u, t) => Same(reader', u, t + 1)
    BY TakeSame DEF TakeRow, ReadInv, Parsing
  <1>1. Kept
    BY <1>0 DEF TakeRow, Kept, SameFormat
  <1> SUFFICES ASSUME Cuttable PROVE \E f, q : (Placing(f, q) /\ Followed(q))'
    <2>1. Cuttable' <=> Cuttable
      BY <1>1, KeptSame
    <2> QED BY <2>1 DEF Following
  <1>2. PICK f, q : Placing(f, q) /\ Followed(q)
    BY DEF Following, TakeRow
  <1>3. UNCHANGED <<feed_buffer, chunk, buffer, delivered, pos, infile>>
    BY DEF TakeRow, fileVars, readVars, threadVars
  <1>4. Placing(f, q)'
    BY <1>1, <1>2, <1>3, KeptSame DEF Placing, Kept
  <1>5. Taken \in Nat /\ Taken' = Taken + 1 /\ (Completed' <=> Completed)
    BY <1>3 DEF Taken, TakeRow, Completed, Joined, ReaderInv, Typing
  <1>6. ~CutAnywhere => Completed
    BY DEF Cuttable, ReadInv, InOneRead, Completed, TakeRow, Joined
  <1>7. Followed(q)'
    BY <1>0, <1>1, <1>2, <1>5, <1>6, KeptSame DEF Followed
  <1> QED BY <1>4, <1>7

\* The file is read on where the last read ended.
LEMMA ReadMoreFollowing ==
    ASSUME ReaderInv, ReadInv, Following, ReadMore
    PROVE  Following'
  <1>1. Kept /\ UNCHANGED <<reader, feed_buffer, chunk, delivered, pos, infile>> /\ buffer' = <<>>
    BY DEF ReadMore, StartReading, Kept, fileVars, loopVars
  <1> SUFFICES ASSUME Cuttable PROVE \E f, q : (Placing(f, q) /\ Followed(q))'
    <2>1. Cuttable' <=> Cuttable
      BY <1>1, KeptSame
    <2> QED BY <2>1 DEF Following
  <1>2. PICK f, q : Placing(f, q) /\ Followed(q)
    BY DEF Following, ReadMore
  <1>3. buffer = <<>>
    BY DEF ReadMore, ReadInv, ReadTo, Joined
  <1>4. Placing(f, q)'
    BY <1>1, <1>2, <1>3, KeptSame DEF Placing, Kept
  <1>5. Taken' = Taken /\ ~Completed' /\ ~Completed
    BY <1>1 DEF Taken, ReadMore, StartReading, Completed, Joined
  <1>6. Followed(q)'
    BY <1>1, <1>2, <1>5, KeptSame DEF Followed
  <1> QED BY <1>4, <1>6

\* The rest of the loop leaves the parser alone.
LEMMA LoopFollowing ==
    ASSUME ReaderInv, ReadInv, Following,
           TakeFromNone \/ AtEnd \/ ReadMoved \/ LoadRow \/ RowThrows
    PROVE  Following'
  <1>1. CASE TakeFromNone \/ ReadMoved \/ RowThrows
    BY <1>1 DEF TakeFromNone, ReadMoved, RowThrows, Following
  <1>2. CASE AtEnd \/ LoadRow
    <2>1. Kept /\ UNCHANGED <<reader, feed_buffer, chunk, buffer, pos, infile>>
      BY <1>2 DEF AtEnd, LoadRow, Kept, fileVars, readVars, threadVars, loopVars
    <2> SUFFICES ASSUME Cuttable PROVE \E f, q : (Placing(f, q) /\ Followed(q))'
      <3>1. Cuttable' <=> Cuttable
        BY <2>1, KeptSame
      <3> QED BY <3>1 DEF Following
    <2>2. PICK f, q : Placing(f, q) /\ Followed(q)
      BY <1>2 DEF Following, AtEnd, LoadRow
    <2>3. Placing(f, q)'
      BY <2>1, <2>2, KeptSame DEF Placing, Kept
    <2>4. Taken' = Taken /\ (Completed' <=> Completed)
      BY <1>2, <2>1 DEF Taken, AtEnd, LoadRow, Completed, Joined, ReaderInv, Typing, loopVars
    <2>5. Followed(q)'
      BY <2>1, <2>2, <2>4, KeptSame DEF Followed
    <2> QED BY <2>3, <2>5
  <1> QED BY <1>1, <1>2

\* No step breaks it,
LEMMA FollowingStep ==
    ASSUME ReaderInv, ReaderInv', ReadInv, ReadInv', Following, [Next]_vars
    PROVE  Following'
  BY OpeningFollowing, GetLineFollowing, FlushFollowing, DrainFollowing, NoMoreFollowing, JoinFollowing,
     WaitingFollowing, WorkerTakesFollowing, WorkerFeedsFollowing, TakeRowFollowing, ReadMoreFollowing,
     LoopFollowing DEF Next, MainStep, WorkerStep

\* so it always holds.
LEMMA FollowingInvariant == Spec => []Following
  BY InitFollowing, FollowingStep, ReaderInvariant, ReadInvariant, PTL DEF Spec

--------------------------------------------------------------------------------
(* Results. *)

\* What is the same but for the rows taken shows the same.
LEMMA SameParsed ==
    ASSUME NEW r, NEW u, NEW t \in Nat, IsReader(r), IsReader(u), Same(r, u, t)
    PROVE  Parsed(r) = Parsed([u EXCEPT !.records = SubSeq(@, t + 1, Len(@))])
  <1> DEFINE recs == SubSeq(u.records, t + 1, Len(u.records))
             z == [u EXCEPT !.records = recs]
             n == Len(r.records)
             clear(q) == [k \in DOMAIN q |-> [q[k] EXCEPT !.moved = FALSE]]
  <1>1. /\ r.records \in Seq(RowView) /\ u.records \in Seq(RowView) /\ n \in Nat
        /\ Len(u.records) = t + n
    BY DEF IsReader, Same
  <1>2. recs \in Seq(RowView) /\ Len(recs) = n /\ \A k \in 1 .. n : recs[k] = u.records[t + k]
    <2>1. \A i \in t + 1 .. t + n : u.records[i] \in RowView
      BY <1>1
    <2>2. /\ recs \in Seq(RowView)
          /\ Len(recs) = IF t + 1 <= t + n THEN (t + n) - (t + 1) + 1 ELSE 0
          /\ \A i \in 1 .. (t + n) - (t + 1) + 1 : recs[i] = u.records[(t + 1) + i - 1]
      BY <1>1, <2>1, SubSeqProperties
    <2> HIDE DEF recs
    <2>3. (t + n) - (t + 1) + 1 = n /\ \A i \in 1 .. n : (t + 1) + i - 1 = t + i
      BY <1>1
    <2>4. Len(recs) = n
      BY <1>1, <2>2
    <2> QED BY <2>2, <2>3, <2>4
  <1>3. clear(r.records) = clear(recs)
    <2>1. DOMAIN r.records = 1 .. n /\ DOMAIN recs = 1 .. n
      BY <1>1, <1>2
    <2>2. ASSUME NEW k \in 1 .. n
          PROVE  [r.records[k] EXCEPT !.moved = FALSE] = [recs[k] EXCEPT !.moved = FALSE]
      <3>1. r.records[k] \in RowView /\ u.records[t + k] \in RowView
        BY <1>1
      <3>2. SameRow(r.records[k], recs[k]) /\ recs[k] \in RowView
        BY <1>2, <3>1 DEF Same
      <3> QED BY <3>1, <3>2 DEF SameRow, RowView
    <2> QED BY <2>1, <2>2
  <1> HIDE DEF recs, clear
  <1>4. GetRow(r.record_buffer) = GetRow(u.record_buffer)
    BY DEF Same, SameRow, GetRow
  <1>5. /\ Holds(z, ReaderFields) /\ z.records = recs /\ z.record_buffer = u.record_buffer
        /\ z.col_names = u.col_names /\ z.header_was_parsed = u.header_was_parsed
        /\ z.row_num = u.row_num /\ z.bad = u.bad /\ SameFormat(z, u)
    BY DEF IsReader, Holds, ReaderFields, SameFormat
  <1> HIDE DEF z
  <1> DEFINE a == [r EXCEPT !.record_buffer = GetRow(@), !.records = clear(@)]
             b == [z EXCEPT !.record_buffer = GetRow(@), !.records = clear(@)]
  <1>6. Parsed(r) = a /\ Parsed(z) = b
    BY DEF Parsed, clear
  <1>7. /\ Holds(a, ReaderFields) /\ a.records = clear(r.records)
        /\ a.record_buffer = GetRow(r.record_buffer)
        /\ a.col_names = r.col_names /\ a.header_was_parsed = r.header_was_parsed
        /\ a.row_num = r.row_num /\ a.bad = r.bad /\ SameFormat(a, r)
    BY DEF IsReader, Holds, ReaderFields, SameFormat
  <1>8. /\ Holds(b, ReaderFields) /\ b.records = clear(z.records)
        /\ b.record_buffer = GetRow(z.record_buffer)
        /\ b.col_names = z.col_names /\ b.header_was_parsed = z.header_was_parsed
        /\ b.row_num = z.row_num /\ b.bad = z.bad /\ SameFormat(b, z)
    BY <1>5 DEF Holds, ReaderFields, SameFormat
  <1> HIDE DEF a, b
  <1>9. \A name \in ReaderFields : a[name] = b[name]
    <2>1. /\ a.delimiter = b.delimiter /\ a.quote_char = b.quote_char /\ a.header_row = b.header_row
          /\ a.record_buffer = b.record_buffer /\ a.col_names = b.col_names
          /\ a.header_was_parsed = b.header_was_parsed /\ a.row_num = b.row_num
          /\ a.records = b.records /\ a.bad = b.bad
      BY <1>3, <1>4, <1>5, <1>7, <1>8 DEF Same, SameFormat
    <2> QED BY <2>1 DEF ReaderFields
  <1>10. a = b
    BY <1>7, <1>8, <1>9 DEF Holds
  <1> QED BY <1>6, <1>10 DEF z, recs

\* One feed of a part of the file from its start on is the run of the whole so far.
LEMMA OneFeedIsRun ==
    ASSUME Typing, NEW n \in 0 .. Len(file.content), CutAnywhere \/ n = Len(file.content)
    PROVE  IsReader(OneFeed(n)) /\ Same(OneFeed(n), ParsedUpTo(n), 0)
  <1> DEFINE in == SubSeq(file.content, 1, n)
             W == Whole(file.content, StartReader)
  <1>1. file.content \in Seq(STRING) /\ Len(file.content) \in Nat
    BY Content
  <1>2. OneFeed(n) = Feed(StartReader, in)
    <2>1. OneFeed(n) = Feed(Begin(reader.delimiter, reader.header_row), in)
      BY DEF OneFeed, Begin
    <2> QED BY <2>1, BeginIsBlank DEF StartReader
  <1>3. CASE CutAnywhere
    <2>1. /\ in \in Seq(STRING) /\ Len(in) = n
          /\ \A i \in 1 .. n : in[i] = file.content[0 + i]
      <3>1. 0 \in 0 .. Len(file.content) /\ n \in 0 .. Len(file.content) /\ 0 + 1 = 1 /\ n - 0 = n
        BY <1>1
      <3>2. /\ SubSeq(file.content, 0 + 1, n) \in Seq(STRING) /\ Len(SubSeq(file.content, 0 + 1, n)) = n - 0
            /\ \A i \in 1 .. n - 0 : SubSeq(file.content, 0 + 1, n)[i] = file.content[0 + i]
        BY <1>1, <3>1, PieceOf
      <3> QED BY <3>1, <3>2
    <2>2. Quote \notin ToSet(file.content)
      BY <1>3 DEF CutAnywhere
    <2>3. Same(StartReader, W[0].r, 0)
      BY <1>1, WholeRun, StartTyped
    <2>4. 0 \in Nat /\ 0 + Len(in) <= Len(file.content) /\ ~(0 > 0) /\ 0 + Len(in) = n
          /\ \A i \in 1 .. Len(in) : in[i] = file.content[0 + i]
      BY <1>1, <2>1
    <2>5. IsReader(Feed(StartReader, in)) /\ Same(Feed(StartReader, in), W[0 + Len(in)].r, 0)
      BY <1>1, <2>1, <2>2, <2>3, <2>4, FeedFollows, StartTyped
    <2> QED BY <1>2, <2>4, <2>5 DEF ParsedUpTo
  <1>4. CASE n = Len(file.content)
    <2>1. in = file.content
      BY <1>1, <1>4, SubSeqFull
    <2> QED BY <1>1, <1>2, <1>4, <2>1, FeedOfWhole, StartTyped DEF ParsedUpTo
  <1> QED BY <1>3, <1>4

\* What two parsers have of the same whole they have of each other.
LEMMA SameSame ==
    ASSUME NEW r, NEW u, NEW v, NEW t \in Nat, IsReader(r), IsReader(u), IsReader(v),
           Same(r, u, t), Same(v, u, 0)
    PROVE  Same(r, v, t)
  <1>1. /\ Len(r.records) \in Nat /\ Len(u.records) \in Nat /\ Len(v.records) \in Nat
        /\ Len(u.records) = t + Len(r.records) /\ Len(u.records) = 0 + Len(v.records)
    BY DEF IsReader, Same
  <1>2. ASSUME NEW k \in 1 .. Len(r.records) PROVE SameRow(r.records[k], v.records[t + k])
    <2>1. t + k \in 1 .. Len(v.records) /\ 0 + (t + k) = t + k
      BY <1>1
    <2> QED BY <2>1 DEF Same, SameRow
  <1> QED BY <1>1, <1>2 DEF Same, SameFormat, SameRow

\* Where the worker is joined the parser is behind one feed of all that was read
\* (csv.hpp:4709, 4954-4973).
THEOREM ParsedAsOneFeedAlways == Spec => []ParsedAsOneFeed
  <1>1. ASSUME ReaderInv, ReadInv, Following PROVE ParsedAsOneFeed
    <2> DEFINE whole == IF infile THEN OneFeed(pos) ELSE EndFeed(OneFeed(pos))
    <2> SUFFICES ASSUME pc \in {"take", "next"}, Cuttable
                 PROVE  Parsed(reader) = Parsed([whole EXCEPT !.records = SubSeq(@, delivered + 1, Len(@))])
      BY DEF ParsedAsOneFeed, Cuttable
    <2>1. PICK f, q : Placing(f, q) /\ Followed(q)
      BY <1>1 DEF Following
    <2>2. q = pos /\ Taken = delivered /\ delivered \in Nat /\ IsReader(reader)
      <3>1. worker = "dead" /\ feed_buffer = <<>> /\ buffer = <<>>
        BY <1>1 DEF ReaderInv, Protocol, ReadInv, ReadTo, Joined
      <3>2. Taken = delivered /\ delivered \in Nat /\ IsReader(reader)
        BY <1>1 DEF Taken, ReaderInv, Typing, ReadInv, Parsing
      <3> QED BY <1>1, <2>1, <3>1, <3>2, NothingHeld
    <2>3. pos \in 0 .. Len(file.content) /\ (infile = ~feof) /\ (feof => pos = Len(file.content))
          /\ (OneBuffer => ~infile) /\ feof \in BOOLEAN /\ Typing
      BY <1>1 DEF ReaderInv, Typing, ReadInv, ReadTo, InOneRead, Joined
    <2>4. Completed <=> ~infile
      BY DEF Completed, Joined
    <2>5. IsReader(OneFeed(pos)) /\ Same(OneFeed(pos), ParsedUpTo(pos), 0) /\ IsReader(ParsedUpTo(pos))
      BY <2>3, OneFeedIsRun, ParsedTyped DEF Cuttable
    <2>6. IsReader(whole) /\ Same(reader, whole, delivered)
      <3>1. CASE infile
        <4>1. Same(reader, ParsedUpTo(pos), delivered)
          BY <2>1, <2>2, <2>4, <3>1 DEF Followed
        <4>2. Same(reader, OneFeed(pos), delivered)
          BY <2>2, <2>5, <4>1, SameSame
        <4> QED BY <2>5, <3>1, <4>2
      <3>2. CASE ~infile
        <4>1. pos = Len(file.content) /\ Same(reader, ParsedAll, delivered)
          BY <2>1, <2>2, <2>3, <2>4, <3>2 DEF Followed
        <4>2. IsReader(WriteRecord(OneFeed(pos))) /\ Same(WriteRecord(OneFeed(pos)), ParsedAll, 0)
              /\ IsReader(ParsedAll)
          BY <2>3, <2>5, <4>1, WriteRecordSame, ParsedTyped DEF ParsedAll
        <4>3. Same(reader, WriteRecord(OneFeed(pos)), delivered)
          BY <2>2, <4>1, <4>2, SameSame
        <4> QED BY <3>2, <4>2, <4>3 DEF EndFeed
      <3> QED BY <3>1, <3>2
    <2> HIDE DEF whole
    <2> QED BY <2>2, <2>6, SameParsed
  <1> QED BY <1>1, ReaderInvariant, ReadInvariant, FollowingInvariant, PTL

--------------------------------------------------------------------------------
(* The table that is loaded. *)

\* What has been parsed stays, and there are no rows without a header.
Grows(r, u) ==
    /\ r.header_was_parsed => u.header_was_parsed /\ u.col_names = r.col_names
    /\ Len(r.records) <= Len(u.records)
    /\ \A k \in 1 .. Len(r.records) : SameRow(r.records[k], u.records[k])

\* There are no rows without a header.
HeaderFirst(r) == r.records # <<>> => r.header_was_parsed

\* What grows twice has grown.
LEMMA GrowsOn ==
    ASSUME NEW r, NEW u, NEW v, IsReader(r), IsReader(u), IsReader(v), Grows(r, u), Grows(u, v)
    PROVE  Grows(r, v)
  <1>1. Len(r.records) \in Nat /\ Len(u.records) \in Nat /\ Len(v.records) \in Nat
    BY DEF IsReader
  <1>2. 1 .. Len(r.records) \subseteq 1 .. Len(u.records) /\ Len(r.records) <= Len(v.records)
    BY <1>1 DEF Grows
  <1> QED BY <1>2 DEF Grows, SameRow

\* A record is put behind the rows there are.
LEMMA WriteRecordGrows ==
    ASSUME NEW r, IsReader(r)
    PROVE  LET x == WriteRecord(r)
           IN  IsReader(x) /\ Grows(r, x) /\ (HeaderFirst(r) => HeaderFirst(x))
  <1> DEFINE x == WriteRecord(r)
  <1>1. Len(r.records) \in Nat /\ r.records \in Seq(RowView)
    BY DEF IsReader
  <1>2. /\ IsReader(x)
        /\ x.col_names = IF IsHeader(r) THEN Fields(GetRow(r.record_buffer)) ELSE r.col_names
        /\ x.header_was_parsed <=> r.header_was_parsed \/ IsHeader(r)
        /\ x.records = IF IsRow(r) THEN Append(r.records, GetRow(r.record_buffer)) ELSE r.records
    BY WriteRecordEffect
  <1> HIDE DEF x
  <1>3. x.header_was_parsed \in BOOLEAN /\ r.header_was_parsed \in BOOLEAN
    BY <1>2 DEF IsReader
  <1>4. r.header_was_parsed => x.header_was_parsed /\ x.col_names = r.col_names
    BY <1>2, <1>3 DEF IsHeader
  <1>5. Len(r.records) <= Len(x.records) /\ \A k \in 1 .. Len(r.records) : SameRow(r.records[k], x.records[k])
    <2>1. GetRow(r.record_buffer) \in RowView
      BY DEF IsReader, IsBuffer, GetRow, RowView
    <2>2. CASE IsRow(r)
      <3>1. Len(x.records) = Len(r.records) + 1 /\ \A k \in 1 .. Len(r.records) : x.records[k] = r.records[k]
        BY <1>1, <1>2, <2>1, <2>2, AppendProperties
      <3> QED BY <1>1, <3>1 DEF SameRow
    <2>3. CASE ~IsRow(r)
      BY <1>1, <1>2, <2>3 DEF SameRow
    <2> QED BY <2>2, <2>3
  <1>6. HeaderFirst(r) => HeaderFirst(x)
    BY <1>2, <1>3 DEF HeaderFirst, IsRow
  <1> QED BY <1>2, <1>4, <1>5, <1>6 DEF Grows, x

\* So it is with every step,
LEMMA GrowsByStep ==
    ASSUME NEW r, IsReader(r), NEW ch \in STRING, NEW x \in Outcome(r, ch)
    PROVE  IsReader(x) /\ Grows(r, x) /\ (HeaderFirst(r) => HeaderFirst(x))
  <1>1. Len(r.records) \in Nat /\ r.records \in Seq(RowView)
    BY DEF IsReader
  <1>2. CASE x = r
    BY <1>1, <1>2 DEF Grows, SameRow
  <1>3. CASE x = Split(r)
    <2>1. /\ IsReader(x) /\ x.col_names = r.col_names
          /\ x.header_was_parsed = r.header_was_parsed /\ x.records = r.records
      BY <1>3, SplitEffect
    <2> QED BY <1>1, <2>1 DEF Grows, SameRow, HeaderFirst
  <1>4. CASE x = AppendText(r, ch)
    <2>1. /\ IsReader(x) /\ x.col_names = r.col_names /\ x.header_was_parsed = r.header_was_parsed
          /\ Len(x.records) = Len(r.records)
          /\ \A k \in 1 .. Len(r.records) : SameRow(x.records[k], r.records[k])
      BY <1>4, AppendTextEffect
    <2>2. HeaderFirst(r) => HeaderFirst(x)
      BY <1>1, <2>1 DEF HeaderFirst, IsReader
    <2> QED BY <1>1, <2>1, <2>2 DEF Grows, SameRow
  <1>5. CASE x = WriteRecord(r)
    BY <1>5, WriteRecordGrows
  <1> QED BY <1>2, <1>3, <1>4, <1>5 DEF Outcome

\* and along every run.
LEMMA GrowsAlong ==
    ASSUME NEW g, NEW in \in Seq(STRING), Steps(g, in), IsState(g[0]), HeaderFirst(g[0].r),
           NEW j \in 0 .. Len(in)
    PROVE  \A i \in j .. Len(in) : Grows(g[j].r, g[i].r) /\ HeaderFirst(g[i].r)
  <1>1. \A i \in 0 .. Len(in) : IsState(g[i]) /\ IsReader(g[i].r)
    BY StepsTyped DEF IsState
  <1>2. ASSUME NEW i \in 1 .. Len(in)
        PROVE  Grows(g[i - 1].r, g[i].r) /\ (HeaderFirst(g[i - 1].r) => HeaderFirst(g[i].r))
    <2>1. IsState(g[i - 1]) /\ IsReader(g[i - 1].r) /\ in[i] \in STRING
      BY <1>1
    <2>2. PICK r \in Outcome(g[i - 1].r, in[i]), escape \in BOOLEAN, skip \in BOOLEAN :
             g[i] = Put(g[i - 1], r, escape, skip)
      BY <2>1, FeedStepOutcome DEF Steps
    <2>3. IsReader(r) /\ Grows(g[i - 1].r, r) /\ (HeaderFirst(g[i - 1].r) => HeaderFirst(r))
      BY <2>1, <2>2, GrowsByStep
    <2>4. g[i].r = r
      <3>1. Put(g[i - 1], r, escape, skip).r = r
        BY <2>1, <2>3, PutState
      <3> QED BY <2>2, <3>1
    <2> QED BY <2>3, <2>4
  <1>3. \A i \in 0 .. Len(in) : HeaderFirst(g[i].r)
    <2> DEFINE Bad == {i \in 0 .. Len(in) : ~HeaderFirst(g[i].r)}
    <2> SUFFICES ASSUME Bad # {} PROVE FALSE
      OBVIOUS
    <2>1. Len(in) \in Nat /\ Bad \in SUBSET Nat
      OBVIOUS
    <2>2. PICK n \in Bad : \A k \in Bad : n <= k
      BY <2>1, LeastNatural
    <2>3. n # 0
      OBVIOUS
    <2>4. n \in 1 .. Len(in) /\ n - 1 \in 0 .. Len(in) /\ ~(n <= n - 1)
      BY <2>1, <2>3
    <2> QED BY <1>2, <2>2, <2>4
  <1>4. \A i \in j .. Len(in) : Grows(g[j].r, g[i].r)
    <2> DEFINE Bad == {i \in j .. Len(in) : ~Grows(g[j].r, g[i].r)}
    <2> SUFFICES ASSUME Bad # {} PROVE FALSE
      OBVIOUS
    <2>1. Len(in) \in Nat /\ Bad \in SUBSET Nat
      OBVIOUS
    <2>2. PICK n \in Bad : \A k \in Bad : n <= k
      BY <2>1, LeastNatural
    <2>3. n # j
      <3>1. IsReader(g[j].r) /\ Len(g[j].r.records) \in Nat
        BY <1>1 DEF IsReader
      <3> QED BY <3>1 DEF Grows, SameRow
    <2>4. n \in 1 .. Len(in) /\ n - 1 \in j .. Len(in) /\ n - 1 \in 0 .. Len(in) /\ ~(n <= n - 1)
      BY <2>1, <2>3
    <2>5. Grows(g[j].r, g[n - 1].r) /\ Grows(g[n - 1].r, g[n].r)
      BY <1>2, <2>2, <2>4
    <2> QED BY <1>1, <2>2, <2>4, <2>5, GrowsOn
  <1>5. j .. Len(in) \subseteq 0 .. Len(in)
    OBVIOUS
  <1> QED BY <1>3, <1>4, <1>5

\* The rows and the header at the end are those met on the way.
LEMMA ParsedGrows ==
    ASSUME Typing, NEW n \in 0 .. Len(file.content)
    PROVE  Grows(ParsedUpTo(n), ParsedAll) /\ HeaderFirst(ParsedUpTo(n))
  <1> DEFINE W == Whole(file.content, StartReader)
             m == Len(file.content)
  <1>1. file.content \in Seq(STRING) /\ m \in Nat
    BY Content
  <1>2. /\ Steps(W, file.content) /\ Same(W[0].r, StartReader, 0)
        /\ \A i \in 0 .. m : IsState(W[i])
    BY <1>1, WholeRun, StartTyped
  <1> HIDE DEF W
  <1>3. IsState(W[0]) /\ HeaderFirst(W[0].r)
    <2>1. IsState(W[0]) /\ W[0].r.records \in Seq(RowView)
      BY <1>1, <1>2 DEF IsState, IsReader
    <2>2. Len(StartReader.records) = 0 + Len(W[0].r.records) /\ Len(StartReader.records) = 0
      BY <1>2, StartTyped DEF Same
    <2>3. W[0].r.records = <<>>
      BY <2>1, <2>2
    <2> QED BY <2>1, <2>3 DEF HeaderFirst
  <1>4. Grows(W[n].r, W[m].r) /\ HeaderFirst(W[n].r)
    <2>1. \A i \in n .. m : Grows(W[n].r, W[i].r) /\ HeaderFirst(W[i].r)
      BY <1>1, <1>2, <1>3, GrowsAlong
    <2> QED BY <1>1, <2>1
  <1>5. IsReader(W[m].r) /\ IsReader(W[n].r)
    BY <1>1, <1>2 DEF IsState
  <1>6. IsReader(WriteRecord(W[m].r)) /\ Grows(W[m].r, WriteRecord(W[m].r))
    BY <1>5, WriteRecordGrows
  <1> QED BY <1>4, <1>5, <1>6, GrowsOn DEF ParsedUpTo, ParsedAll, W

--------------------------------------------------------------------------------

\* The rows and the names of their columns that one feed of the whole has at its end.
Rows == ParsedAll.records
\* The names of their columns.
Names == ParsedAll.col_names
\* What such a row has in a column.
RowColumn(k, name) == Field(Rows[k], ColPos(Names, name))
\* The rows of an opcode among those taken in.
RowsOf(opcode) == {k \in 1 .. delivered : RowColumn(k, OpcodeColumn) = opcode}

\* The table has what the last row of every opcode says.
Loaded ==
    /\ delivered <= Len(Rows)
    /\ DOMAIN costModel = {RowColumn(k, OpcodeColumn) : k \in 1 .. delivered}
    /\ \A opcode \in DOMAIN costModel :
          costModel[opcode] = Get(RowColumn(Max(RowsOf(opcode)), CostColumn))

\* The row of the loop is the next one, read under the header of all.
InBody ==
    pc = "body" =>
        delivered + 1 <= Len(Rows) /\ SameRow(row, Rows[delivered + 1]) /\ reader.col_names = Names

\* The inductive invariant of the loop over the rows.
Loading ==
    Cuttable /\ pc # "undefined" => Loaded /\ InBody /\ (pc = "done" => delivered = Len(Rows))

\* The types of what one feed of the whole leaves.
LEMMA AllTyped ==
    ASSUME Typing
    PROVE  /\ IsReader(ParsedAll) /\ Len(Rows) \in Nat
           /\ Rows \in Seq(RowView)
           /\ \A n \in 0 .. Len(file.content) : IsReader(ParsedUpTo(n))
  BY ParsedTyped DEF IsReader, Rows

\* As long as neither a row is loaded nor the format guessed the table stays.
LEMMA LoadedSame ==
    ASSUME Kept, UNCHANGED <<delivered, costModel>>
    PROVE  (Loaded' <=> Loaded) /\ Rows' = Rows /\ Names' = Names
  <1>1. ParsedAll' = ParsedAll
    BY KeptSame
  <1> QED BY <1>1 DEF Loaded, Rows, Names, RowColumn, RowsOf

\* Without a row the table is empty.
LEMMA EmptyLoaded ==
    ASSUME Typing, delivered = 0, DOMAIN costModel = {}
    PROVE  Loaded
  <1>1. Len(Rows) \in Nat /\ 1 .. 0 = {}
    BY AllTyped
  <1> QED BY <1>1 DEF Loaded

\* So it is at first.
LEMMA InitLoading == Init => Loading
  <1> SUFFICES ASSUME Init PROVE Loading
    OBVIOUS
  <1>1. Typing /\ delivered = 0 /\ DOMAIN costModel = {} /\ pc = "guess"
    BY InitReader DEF Init, ReaderInv
  <1> QED BY <1>1, EmptyLoaded DEF Loading, InBody

\* Before the file is open nothing is loaded.
LEMMA GuessLoading ==
    ASSUME ReaderInv', ReadInv, ReadInv', Loading, GuessFromHead
    PROVE  Loading'
  <1> SUFFICES ASSUME Cuttable' PROVE Loading'
    BY DEF Loading
  <1>1. file' = file /\ costModel' = costModel /\ delivered' = delivered /\ pc = "guess" /\ pc' = "fopen"
    BY DEF GuessFromHead, loopVars
  <1>2. Cuttable
    BY <1>1 DEF Cuttable, OneBuffer, CutAnywhere, LinesFitPages
  <1>3. delivered = 0 /\ DOMAIN costModel = {}
    <2>1. delivered = 0 /\ 1 .. 0 = {}
      BY <1>1 DEF ReadInv, ReadTo, Before
    <2>2. DOMAIN costModel = {RowColumn(k, OpcodeColumn) : k \in 1 .. delivered}
      BY <1>1, <1>2 DEF Loading, Loaded
    <2> QED BY <2>1, <2>2
  <1>4. (Typing /\ delivered = 0 /\ DOMAIN costModel = {})'
    BY <1>1, <1>3 DEF ReaderInv
  <1>5. Loaded'
    BY <1>4, EmptyLoaded, PTL
  <1> QED BY <1>1, <1>5 DEF Loading, InBody

\* A row in the queue is the next of all, and the header that of all.
LEMMA NextRowKnown ==
    ASSUME ReaderInv, ReadInv, Following, TakeRow, Cuttable
    PROVE  /\ delivered + 1 <= Len(Rows) /\ SameRow(Head(reader.records), Rows[delivered + 1])
           /\ reader.col_names = Names
  <1>1. PICK f, q : Placing(f, q) /\ Followed(q)
    BY DEF Following, TakeRow
  <1>2. /\ IsReader(reader) /\ Typing /\ delivered \in Nat /\ Taken = delivered
        /\ reader.records \in Seq(RowView) /\ reader.records # <<>>
    BY DEF ReadInv, Parsing, ReaderInv, Typing, TakeRow, Taken, IsReader
  <1>3. q \in 0 .. Len(file.content)
    <2>1. f[0] \in 0 .. pos /\ q \in 0 .. f[0] /\ pos \in 0 .. Len(file.content)
      <3>1. Len(feed_buffer) \in Nat
        BY <1>2 DEF Typing
      <3>2. 0 \in 0 .. Len(feed_buffer) /\ f \in [0 .. Len(feed_buffer) -> 0 .. pos] /\ q \in 0 .. f[0]
        BY <1>1, <3>1 DEF Placing
      <3> QED BY <1>2, <3>2 DEF Typing
    <2> QED BY <2>1
  <1>4. PICK u : u = IF Completed THEN ParsedAll ELSE ParsedUpTo(q)
    OBVIOUS
  <1>5. IsReader(u) /\ Same(reader, u, delivered) /\ IsReader(ParsedAll)
    BY <1>1, <1>2, <1>3, <1>4, AllTyped DEF Followed
  <1>6. Grows(u, ParsedAll) /\ (Completed \/ HeaderFirst(u))
    <2>1. Grows(ParsedAll, ParsedAll)
      BY <1>2, AllTyped DEF Grows, SameRow, Rows
    <2>2. Grows(ParsedUpTo(q), ParsedAll) /\ HeaderFirst(ParsedUpTo(q))
      BY <1>2, <1>3, ParsedGrows
    <2> QED BY <1>4, <2>1, <2>2
  <1>7. Len(reader.records) \in Nat \ {0} /\ Head(reader.records) = reader.records[1]
    BY <1>2
  <1>8. /\ Len(u.records) \in Nat /\ Len(u.records) = delivered + Len(reader.records)
        /\ SameRow(reader.records[1], u.records[delivered + 1])
        /\ reader.col_names = u.col_names
    BY <1>5, <1>7 DEF Same, IsReader
  <1>9. delivered + 1 \in 1 .. Len(u.records) /\ Len(Rows) \in Nat
    BY <1>2, <1>7, <1>8, AllTyped
  <1>10. delivered + 1 <= Len(Rows) /\ SameRow(u.records[delivered + 1], Rows[delivered + 1])
    BY <1>2, <1>6, <1>9 DEF Grows, Rows
  <1>11. u.col_names = Names
    <2>1. CASE Completed
      BY <1>4, <2>1 DEF Names
    <2>2. CASE ~Completed
      <3>1. u.records # <<>>
        BY <1>9
      <3> QED BY <1>6, <2>2, <3>1 DEF HeaderFirst, Grows, Names
    <2> QED BY <2>1, <2>2
  <1> QED BY <1>7, <1>8, <1>10, <1>11 DEF SameRow

\* The row that is taken is the next one.
LEMMA TakeRowLoading ==
    ASSUME ReaderInv, ReadInv, Following, Loading, TakeRow
    PROVE  Loading'
  <1>1. Kept /\ UNCHANGED <<delivered, costModel>> /\ row' = Head(reader.records)
        /\ reader'.col_names = reader.col_names /\ pc' = "body" /\ pc \in {"take", "next"}
    <2>1. SameFormat(reader', reader)
      BY TakeSame DEF TakeRow, ReadInv, Parsing
    <2>2. reader'.col_names = reader.col_names
      BY DEF TakeRow, ReadInv, Parsing, IsReader, Holds, ReaderFields
    <2> QED BY <2>1, <2>2 DEF TakeRow, Kept, SameFormat
  <1>2. Cuttable' <=> Cuttable
    BY <1>1, KeptSame
  <1>3. CASE Cuttable
    BY <1>1, <1>3, LoadedSame, NextRowKnown DEF Loading, InBody
  <1>4. CASE ~Cuttable
    BY <1>2, <1>4 DEF Loading
  <1> QED BY <1>3, <1>4

\* Rows of the same text have the same fields.
LEMMA FieldSame ==
    ASSUME NEW x, NEW y, SameRow(x, y), NEW n
    PROVE  Field(x, n) = Field(y, n)
  BY DEF SameRow, Field, SplitAt, RowSize

\* A row more, and the last one of an opcode wins (AssemblyCostModel.cpp:12-15).
LEMMA LoadRowLoading ==
    ASSUME ReaderInv, ReadInv, Loading, LoadRow
    PROVE  Loading'
  <1>1. Kept /\ reader' = reader /\ delivered' = delivered + 1 /\ pc = "body" /\ pc' = "next"
    BY DEF LoadRow, Kept
  <1>2. (Cuttable' <=> Cuttable) /\ ParsedAll' = ParsedAll
    BY <1>1, KeptSame
  <1> SUFFICES ASSUME Cuttable PROVE Loaded'
    BY <1>1, <1>2 DEF Loading, InBody
  <1>3. Loaded /\ delivered + 1 <= Len(Rows) /\ SameRow(row, Rows[delivered + 1]) /\ reader.col_names = Names
    BY <1>1 DEF Loading, InBody
  <1>4. PICK d, n, R, N, v : /\ d = delivered /\ n = delivered + 1 /\ R = Rows /\ N = Names
                              /\ v = Get(RowColumn(n, CostColumn))
    OBVIOUS
  <1> DEFINE col(k, name) == Field(R[k], ColPos(N, name))
             of(m, opcode) == {k \in 1 .. m : col(k, OpcodeColumn) = opcode}
  <1>5. PICK o : o = col(n, OpcodeColumn)
    OBVIOUS
  <1>6. Column(OpcodeColumn) = o /\ Get(Column(CostColumn)) = v
    BY <1>3, <1>4, <1>5, FieldSame DEF Column, RowColumn
  <1>7. d \in Nat /\ n = d + 1 /\ 1 .. n = (1 .. d) \cup {n} /\ n \notin 1 .. d
    BY <1>4 DEF ReaderInv, Typing
  <1>8. /\ DOMAIN costModel = {col(k, OpcodeColumn) : k \in 1 .. d}
        /\ \A opcode \in DOMAIN costModel :
              costModel[opcode] = Get(col(Max(of(d, opcode)), CostColumn))
    BY <1>3, <1>4 DEF Loaded, RowColumn, RowsOf
  <1>9. /\ DOMAIN costModel' = DOMAIN costModel \cup {o}
        /\ costModel'[o] = v
        /\ \A opcode \in DOMAIN costModel \ {o} : costModel'[opcode] = costModel[opcode]
    <2>1. costModel' = [opcode \in DOMAIN costModel \cup {o} |-> IF opcode = o THEN v ELSE costModel[opcode]]
      BY <1>6 DEF LoadRow
    <2> QED BY <2>1
  <1>10. v = Get(col(n, CostColumn))
    BY <1>4 DEF RowColumn
  <1>11. DOMAIN costModel' = {col(k, OpcodeColumn) : k \in 1 .. n}
    BY <1>5, <1>7, <1>8, <1>9
  <1>12. ASSUME NEW opcode \in DOMAIN costModel'
         PROVE  costModel'[opcode] = Get(col(Max(of(n, opcode)), CostColumn))
    <2>1. CASE opcode = o
      <3>1. n \in of(n, o) /\ \A k \in of(n, o) : k \in Int /\ k <= n
        BY <1>5, <1>7
      <3>2. Max(of(n, o)) = n
        <4> HIDE DEF of
        <4>1. \A x \in of(n, o) : (\A y \in of(n, o) : x >= y) => x = n
          BY <1>7, <3>1
        <4>2. \A y \in of(n, o) : n >= y
          BY <1>7, <3>1
        <4> QED BY <3>1, <4>1, <4>2 DEF Max
      <3> QED BY <1>9, <1>10, <2>1, <3>2
    <2>2. CASE opcode # o
      <3>1. of(n, opcode) = of(d, opcode)
        BY <1>5, <1>7, <2>2
      <3> QED BY <1>8, <1>9, <2>2, <3>1
    <2> QED BY <2>1, <2>2
  <1>13. (delivered <= Len(Rows))'
    BY <1>1, <1>2, <1>3 DEF Rows
  <1>14. delivered' = n /\ Rows' = R /\ Names' = N
    BY <1>1, <1>2, <1>4 DEF Rows, Names
  <1> QED BY <1>11, <1>12, <1>13, <1>14 DEF Loaded, RowColumn, RowsOf

\* The loop ends with the last row.
LEMMA AtEndLoading ==
    ASSUME ReaderInv, ReadInv, Following, Loading, AtEnd
    PROVE  Loading'
  <1>1. Kept /\ UNCHANGED <<delivered, costModel>> /\ pc = "next" /\ pc' = "done"
    BY DEF AtEnd, Kept, loopVars
  <1>2. Cuttable' <=> Cuttable
    BY <1>1, KeptSame
  <1> SUFFICES ASSUME Cuttable PROVE delivered = Len(Rows)
    BY <1>1, <1>2, LoadedSame DEF Loading, InBody
  <1>3. PICK f, q : Placing(f, q) /\ Followed(q)
    BY <1>1 DEF Following
  <1>4. Same(reader, ParsedAll, delivered) /\ reader.records = <<>> /\ delivered \in Nat
    <2>1. Completed /\ Taken = delivered
      BY <1>1 DEF Completed, Joined, AtEnd, Taken, ReaderInv, Typing
    <2> QED BY <1>3, <2>1 DEF Followed, AtEnd, ReaderInv, Typing
  <1> QED BY <1>4 DEF Same, Rows

\* A feed keeps the format.
LEMMA FeedFormat ==
    ASSUME NEW r, IsReader(r), NEW in \in Seq(STRING)
    PROVE  SameFormat(Feed(r, in), r)
  <1>1. Len(in) \in 0 .. Len(in)
    OBVIOUS
  <1>2. SameFormat(Feed(r, in), Whole(in, r)[Len(in)].r)
    BY FeedOfWhole DEF Same
  <1>3. SameFormat(Whole(in, r)[Len(in)].r, r)
    BY <1>1, WholeRun
  <1> QED BY <1>2, <1>3 DEF SameFormat

\* The other steps leave the table alone, and take place when there is no row in the body.
LEMMA OtherLoading ==
    ASSUME ReaderInv, ReadInv, ReadInv', Loading, [Next]_vars,
           ~GuessFromHead, ~TakeRow, ~LoadRow, ~AtEnd
    PROVE  Loading'
  <1> USE DEF fileVars, readVars, threadVars, loopVars
  <1>1. UNCHANGED <<file, delivered, costModel>>
    BY DEF Next, MainStep, WorkerStep, OpenFails, OpenFile, GetLine, NoLine, EnoughBytes, Flush,
           Drain, Join, TakeFromNone, ReadMore, ReadMoved, RowThrows, StartReading,
           WorkerWaits, SpuriousWakeup, WorkerTakes, WorkerFeeds, vars
  <1>2. Kept
    <2>1. IsReader(reader) /\ SameFormat(reader', reader)
      <3>1. CASE Join
        BY <3>1, WriteRecordEffect DEF Join, EndFeed, ReadInv, Parsing, SameFormat
      <3>2. CASE WorkerFeeds
        BY <3>2, FeedFormat DEF WorkerFeeds, ReadInv, Parsing
      <3>3. CASE reader' = reader
        BY <3>3 DEF SameFormat, ReadInv, Parsing
      <3> QED BY <3>1, <3>2, <3>3 DEF Next, MainStep, WorkerStep, OpenFails, OpenFile, GetLine, NoLine,
             EnoughBytes, Flush, Drain, TakeFromNone, ReadMore, ReadMoved, RowThrows, StartReading,
             WorkerWaits, SpuriousWakeup, WorkerTakes, vars
    <2> QED BY <1>1, <2>1 DEF Kept, SameFormat
  <1>3. pc' \in {"body", "done"} => pc' = pc /\ reader' = reader /\ row' = row
    <2>1. worker = "feeding" => pc \notin Joined
      BY DEF ReaderInv, Protocol, Alive
    <2> QED BY <2>1 DEF Next, MainStep, WorkerStep, OpenFails, OpenFile, GetLine, NoLine, EnoughBytes, Flush,
           Drain, Join, TakeFromNone, ReadMore, ReadMoved, RowThrows, StartReading, Joined,
           WorkerWaits, SpuriousWakeup, WorkerTakes, WorkerFeeds, vars
  <1>4. pc' # "undefined" => pc # "undefined"
    BY DEF Next, MainStep, WorkerStep, OpenFails, OpenFile, GetLine, NoLine, EnoughBytes, Flush,
           Drain, Join, TakeFromNone, ReadMore, ReadMoved, RowThrows, StartReading, Joined,
           WorkerWaits, SpuriousWakeup, WorkerTakes, WorkerFeeds, vars
  <1>5. (Cuttable' <=> Cuttable) /\ (Loaded' <=> Loaded) /\ Rows' = Rows /\ Names' = Names
    BY <1>1, <1>2, KeptSame, LoadedSame
  <1> QED BY <1>1, <1>3, <1>4, <1>5 DEF Loading, InBody

\* No step breaks it,
LEMMA LoadingStep ==
    ASSUME ReaderInv, ReaderInv', ReadInv, ReadInv', Following, Loading, [Next]_vars
    PROVE  Loading'
  BY GuessLoading, TakeRowLoading, LoadRowLoading, AtEndLoading, OtherLoading

\* so it always holds.
LEMMA LoadingInvariant == Spec => []Loading
  BY InitLoading, LoadingStep, FollowingInvariant, ReaderInvariant, ReadInvariant, PTL DEF Spec

\* What the constructor leaves is the table of the rows of one feed of the whole
\* (AssemblyCostModel.cpp:9-16, csv.hpp:4709).
THEOREM LoadedAsOneFeedAlways == Spec => []LoadedAsOneFeed
  <1>1. ASSUME ReaderInv, ReadInv, Loading PROVE LoadedAsOneFeed
    <2> DEFINE whole == EndFeed(OneFeed(Len(file.content)))
               column(k, name) == Field(whole.records[k], ColPos(whole.col_names, name))
               rowsOf(opcode) == {k \in 1 .. delivered : column(k, OpcodeColumn) = opcode}
    <2> SUFFICES ASSUME pc \in {"threw", "done"}, Cuttable
                 PROVE  /\ delivered <= Len(whole.records)
                        /\ pc = "done" => delivered = Len(whole.records)
                        /\ DOMAIN costModel = {column(k, OpcodeColumn) : k \in 1 .. delivered}
                        /\ \A opcode \in DOMAIN costModel :
                              costModel[opcode] = Get(column(Max(rowsOf(opcode)), CostColumn))
      BY DEF LoadedAsOneFeed, Cuttable
    <2>1. Typing /\ delivered \in Nat /\ Len(file.content) \in 0 .. Len(file.content)
      BY <1>1, Content DEF ReaderInv, Typing
    <2>2. Loaded /\ (pc = "done" => delivered = Len(Rows))
      BY <1>1 DEF Loading
    <2>3. IsReader(whole) /\ Same(whole, ParsedAll, 0)
      <3>1. IsReader(OneFeed(Len(file.content))) /\ IsReader(ParsedUpTo(Len(file.content)))
            /\ Same(OneFeed(Len(file.content)), ParsedUpTo(Len(file.content)), 0)
        BY <2>1, OneFeedIsRun, AllTyped
      <3> QED BY <3>1, WriteRecordSame DEF EndFeed, ParsedAll
    <2> HIDE DEF whole
    <2>4. /\ Len(whole.records) = Len(Rows) /\ whole.col_names = Names
          /\ \A k \in 1 .. Len(Rows) : SameRow(whole.records[k], Rows[k])
      <3>1. Len(whole.records) \in Nat /\ Len(Rows) = 0 + Len(whole.records)
        BY <2>3 DEF IsReader, Same, Rows
      <3> QED BY <2>3, <3>1 DEF Same, Rows, Names
    <2>5. Len(Rows) \in Nat /\ delivered <= Len(Rows)
      BY <2>1, <2>2, AllTyped DEF Loaded
    <2>6. \A k \in 1 .. delivered : \A name : column(k, name) = RowColumn(k, name)
      <3> SUFFICES ASSUME NEW k \in 1 .. delivered, NEW name PROVE column(k, name) = RowColumn(k, name)
        OBVIOUS
      <3>1. SameRow(whole.records[k], Rows[k])
        BY <2>1, <2>4, <2>5
      <3> QED BY <2>4, <3>1, FieldSame DEF RowColumn
    <2> HIDE DEF column
    <2>7. DOMAIN costModel = {column(k, OpcodeColumn) : k \in 1 .. delivered}
      BY <2>2, <2>6 DEF Loaded
    <2>8. ASSUME NEW opcode \in DOMAIN costModel
          PROVE  costModel[opcode] = Get(column(Max(rowsOf(opcode)), CostColumn))
      <3>1. rowsOf(opcode) = RowsOf(opcode)
        BY <2>6 DEF RowsOf
      <3>2. Max(RowsOf(opcode)) \in 1 .. delivered
        <4>1. RowsOf(opcode) \subseteq 1 .. delivered
          BY DEF RowsOf
        <4>2. RowsOf(opcode) # {}
          BY <2>6, <2>7 DEF RowsOf
        <4>3. Max(RowsOf(opcode)) \in RowsOf(opcode)
          BY <2>1, <4>1, <4>2, LeastAndGreatest
        <4> QED BY <4>1, <4>3
      <3> QED BY <2>2, <2>6, <3>1, <3>2 DEF Loaded
    <2> QED BY <2>2, <2>4, <2>5, <2>7, <2>8
  <1> QED BY <1>1, ReaderInvariant, ReadInvariant, LoadingInvariant, PTL

--------------------------------------------------------------------------------
(* The string of a buffer stays where it is. *)

\* No row in the queue has lost its text.
NoneMoved(r) == \A k \in DOMAIN r.records : ~r.records[k].moved

\* Nothing has been put into the string yet.
Fresh(r) == r.record_buffer.current_end = 0 /\ r.record_buffer.text = <<>>

\* Behind i characters of a text of n there is room for the others.
Roomy(r, i, n) == BufferLength(r.record_buffer) <= i /\ n <= r.record_buffer.capacity

\* A row is taken from the string as it is.
LEMMA WriteRecordStays ==
    ASSUME NEW r, IsReader(r), NoneMoved(r)
    PROVE  NoneMoved(WriteRecord(r))
  <1> DEFINE x == WriteRecord(r)
             b == r.record_buffer
  <1>1. IsBuffer(b) /\ r.records \in Seq(RowView)
    BY DEF IsReader
  <1>2. x.records = IF IsRow(r) THEN Append(r.records, GetRow(b)) ELSE r.records
    BY WriteRecordEffect
  <1>3. GetRow(b) \in RowView /\ ~GetRow(b).moved
    BY <1>1 DEF IsBuffer, GetRow, RowView
  <1> HIDE DEF x
  <1>4. CASE IsRow(r)
    <2>1. /\ DOMAIN x.records = 1 .. Len(r.records) + 1 /\ Len(r.records) \in Nat
          /\ DOMAIN r.records = 1 .. Len(r.records)
          /\ \A k \in 1 .. Len(r.records) : x.records[k] = r.records[k]
          /\ x.records[Len(r.records) + 1] = GetRow(b)
      BY <1>1, <1>2, <1>3, <1>4, AppendProperties
    <2>2. \A k \in DOMAIN x.records : k \in 1 .. Len(r.records) \/ k = Len(r.records) + 1
      BY <2>1
    <2> QED BY <1>3, <2>1, <2>2 DEF NoneMoved, x
  <1>5. CASE ~IsRow(r)
    BY <1>2, <1>5 DEF NoneMoved, x
  <1> QED BY <1>4, <1>5

\* A step uses up the room of one character, and moves nothing.
LEMMA RoomyByStep ==
    ASSUME NEW r, IsReader(r), NEW ch \in STRING, NEW x \in Outcome(r, ch),
           NEW i \in Nat, NEW n \in Nat, i < n, Roomy(r, i, n), NoneMoved(r)
    PROVE  IsReader(x) /\ Roomy(x, i + 1, n) /\ NoneMoved(x)
  <1> DEFINE b == r.record_buffer
  <1>1. /\ IsBuffer(b) /\ r.records \in Seq(RowView) /\ IsReader(x)
        /\ BufferLength(b) \in Int /\ b.capacity \in Int /\ Len(b.text) \in Nat /\ b.current_end \in Int
    BY GrowsByStep DEF IsReader, IsBuffer, BufferLength
  <1>2. CASE x = r
    BY <1>1, <1>2 DEF Roomy
  <1>3. CASE x = Split(r)
    <2>1. /\ x.records = r.records /\ x.record_buffer.text = b.text
          /\ x.record_buffer = [b EXCEPT !.splits = x.record_buffer.splits]
      BY <1>3, SplitEffect
    <2> DEFINE q == x.record_buffer.splits
    <2> HIDE DEF q
    <2>2. x.record_buffer = [b EXCEPT !.splits = q]
      BY <2>1 DEF q
    <2>3. x.record_buffer.capacity = b.capacity /\ x.record_buffer.current_end = b.current_end
      BY <1>1, <2>2 DEF IsBuffer, Holds, BufferFields
    <2> QED BY <1>1, <2>1, <2>3 DEF Roomy, BufferLength, NoneMoved
  <1>4. CASE x = WriteRecord(r)
    <2>1. /\ x.record_buffer.capacity = b.capacity
          /\ BufferLength(x.record_buffer) = BufferLength(b)
          /\ x.records = IF IsRow(r) THEN Append(r.records, GetRow(b)) ELSE r.records
      BY <1>4, WriteRecordEffect
    <2>3. NoneMoved(x)
      BY <1>4, WriteRecordStays
    <2> QED BY <1>1, <2>1, <2>3 DEF Roomy
  <1>5. CASE x = AppendText(r, ch)
    <2>1. ~Outgrown(b)
      BY <1>1 DEF Outgrown, Roomy
    <2> DEFINE m == Append(b.text, ch)
               c == [b EXCEPT !.text = m]
    <2>2. x = [r EXCEPT !.record_buffer = c]
      <3>1. AppendText(r, ch) = [r EXCEPT !.record_buffer.text = m]
        BY <2>1 DEF AppendText
      <3> QED BY <1>5, <3>1
    <2>3. Len(m) = Len(b.text) + 1
      BY <1>1 DEF IsBuffer
    <2> HIDE DEF m
    <2>4. c.text = m /\ c.current_end = b.current_end /\ c.capacity = b.capacity
      BY <1>1 DEF IsBuffer, Holds, BufferFields
    <2> HIDE DEF c
    <2>5. x.record_buffer = c /\ x.records = r.records
      BY <2>2 DEF IsReader, Holds, ReaderFields
    <2>6. BufferLength(c) = BufferLength(b) + 1
      <3>1. BufferLength(c) = c.current_end + Len(c.text) /\ BufferLength(b) = b.current_end + Len(b.text)
        BY DEF BufferLength
      <3>2. BufferLength(c) = b.current_end + (Len(b.text) + 1)
        BY ONLY <2>3, <2>4, <3>1
      <3> QED BY ONLY <1>1, <3>1, <3>2
    <2> QED BY <1>1, <2>4, <2>5, <2>6 DEF Roomy, NoneMoved
  <1> QED BY <1>2, <1>3, <1>4, <1>5 DEF Outcome

\* What is reserved for a text is enough for it, when no row goes on from before.
LEMMA FeedStays ==
    ASSUME NEW r, IsReader(r), NEW in \in Seq(STRING), NoneMoved(r), in # <<>> => Fresh(r)
    PROVE  NoneMoved(Feed(r, in))
  <1> DEFINE z == Reserved(r, in)
             g == Run(z, in)
             n == Len(in)
             Fine(i) == IsState(g[i]) /\ Roomy(g[i].r, i, n) /\ NoneMoved(g[i].r)
  <1>1. n \in Nat
    OBVIOUS
  <1>2. CASE in = <<>>
    <2>1. n = 0 /\ IsReader(z) /\ z.records = r.records
      BY <1>1, <1>2, ReservedSame
    <2>2. g[0] = Start(z) /\ Feed(r, in) = [g[0].r EXCEPT !.record_buffer = Reset(@)]
      BY <1>1, <2>1, RunSteps, FeedIsRun
    <2> HIDE DEF g, z
    <2>3. g[0].r = z
      BY <2>2 DEF Start
    <2>4. Feed(r, in) = [z EXCEPT !.record_buffer = Reset(@)]
      BY <2>2, <2>3
    <2>5. Feed(r, in).records = z.records
      BY <2>1, <2>4, ResetSame
    <2> QED BY <2>1, <2>5 DEF NoneMoved
  <1>3. CASE in # <<>>
    <2>1. g[0] = Start(z) /\ Steps(g, in)
      BY <1>1, RunSteps DEF Steps
    <2>2. IsReader(z) /\ z.records = r.records
      BY <1>1, ReservedSame
    <2>3. Roomy(z, 0, n)
      <3> DEFINE b == r.record_buffer
                 c == Reserve(b, n)
      <3>1. b.current_end = 0 /\ b.text = <<>> /\ b.capacity \in Int /\ Holds(b, BufferFields)
        BY <1>3 DEF Fresh, IsReader, IsBuffer
      <3>2. c.current_end = 0 /\ c.text = <<>> /\ n <= c.capacity
        <4>1. CASE n > b.capacity
          <5>1. c = [b EXCEPT !.capacity = n]
            BY <4>1 DEF Reserve
          <5> HIDE DEF b, n, c
          <5>2. c.current_end = b.current_end /\ c.text = b.text /\ c.capacity = n
            BY <3>1, <5>1 DEF Holds, BufferFields
          <5> QED BY <1>1, <3>1, <5>2
        <4>2. CASE ~(n > b.capacity)
          BY <1>1, <3>1, <4>2 DEF Reserve
        <4> QED BY <4>1, <4>2
      <3>3. z.record_buffer = c
        BY DEF Reserved, IsReader, Holds, ReaderFields
      <3> HIDE DEF c
      <3> QED BY <3>2, <3>3 DEF Roomy, BufferLength
    <2> HIDE DEF g, z
    <2>4. IsState(g[0]) /\ g[0].r = z
      BY <2>1, <2>2 DEF Start, IsState, Holds, StateFields
    <2>5. Fine(0)
      BY <2>2, <2>3, <2>4 DEF NoneMoved
    <2>6. \A i \in 0 .. n : IsState(g[i])
      BY <2>1, <2>4, StepsTyped
    <2>7. ASSUME NEW i \in 1 .. n, Fine(i - 1) PROVE Fine(i)
      <3>1. i - 1 \in Nat /\ i - 1 < n /\ (i - 1) + 1 = i /\ in[i] \in STRING
        BY <1>1
      <3>2. PICK x \in Outcome(g[i - 1].r, in[i]), escape \in BOOLEAN, skip \in BOOLEAN :
               g[i] = Put(g[i - 1], x, escape, skip)
        BY <2>1, <2>7, FeedStepOutcome DEF Steps
      <3>3. IsReader(x) /\ Roomy(x, i, n) /\ NoneMoved(x)
        <4>1. IsReader(g[i - 1].r) /\ Roomy(g[i - 1].r, i - 1, n) /\ NoneMoved(g[i - 1].r)
          BY <2>7 DEF IsState
        <4>2. IsReader(x) /\ Roomy(x, (i - 1) + 1, n) /\ NoneMoved(x)
          BY <1>1, <3>1, <3>2, <4>1, RoomyByStep
        <4> QED BY <3>1, <4>2
      <3>4. g[i].r = x
        <4>1. Put(g[i - 1], x, escape, skip).r = x
          BY <2>7, <3>3, PutState
        <4> QED BY <3>2, <4>1
      <3> QED BY <2>6, <3>3, <3>4
    <2>8. Fine(n)
      <3> DEFINE Bad == {i \in 0 .. n : ~Fine(i)}
      <3> HIDE DEF Fine
      <3> SUFFICES ASSUME Bad # {} PROVE FALSE
        BY <1>1
      <3>1. Bad \in SUBSET Nat
        OBVIOUS
      <3>2. PICK m \in Bad : \A k \in Bad : m <= k
        BY <3>1, LeastNatural
      <3>3. m # 0
        BY <2>5
      <3>4. m \in 1 .. n /\ m - 1 \in 0 .. n /\ ~(m <= m - 1)
        BY <1>1, <3>3
      <3> QED BY <2>7, <3>2, <3>4
    <2>9. Feed(r, in) = [g[n].r EXCEPT !.record_buffer = Reset(@)]
      BY FeedIsRun DEF g, z
    <2>10. Feed(r, in).records = g[n].r.records
      BY <2>8, <2>9, ResetSame DEF IsState
    <2> QED BY <2>8, <2>10 DEF NoneMoved
  <1> QED BY <1>2, <1>3

\* A feed leaves a new buffer.
LEMMA FeedEnds ==
    ASSUME NEW r, IsReader(r), NEW in \in Seq(STRING)
    PROVE  /\ Feed(r, in).record_buffer.current_end = 0
           /\ Feed(r, in).record_buffer.text = Run(Reserved(r, in), in)[Len(in)].r.record_buffer.text
           /\ Feed(r, in).header_was_parsed = Run(Reserved(r, in), in)[Len(in)].r.header_was_parsed
           /\ Feed(r, in).row_num = Run(Reserved(r, in), in)[Len(in)].r.row_num
  <1> DEFINE u == Run(Reserved(r, in), in)[Len(in)].r
             b == Reset(u.record_buffer)
  <1>1. Feed(r, in) = [u EXCEPT !.record_buffer = b]
    BY FeedIsRun
  <1>2. b.current_end = 0 /\ b.text = u.record_buffer.text
    BY DEF Reset, EmptyBuffer
  <1>3. IsReader(u)
    BY WholeRun DEF Whole, IsState
  <1> HIDE DEF u, b
  <1>4. /\ Feed(r, in).record_buffer = b /\ Feed(r, in).header_was_parsed = u.header_was_parsed
        /\ Feed(r, in).row_num = u.row_num
    BY <1>1, <1>3 DEF IsReader, Holds, ReaderFields
  <1> QED BY <1>2, <1>4 DEF u

--------------------------------------------------------------------------------
(* Lines with a delimiter are taken at their end. *)

\* The header is parsed, or what is parsed next is the header.
Ready(r) == r.header_was_parsed \/ r.row_num = r.header_row

\* A step keeps a parser ready.
LEMMA ReadyByStep ==
    ASSUME NEW r, IsReader(r), NEW ch \in STRING, NEW x \in Outcome(r, ch), Ready(r)
    PROVE  Ready(x)
  <1>1. CASE x = r
    BY <1>1
  <1>2. CASE x = Split(r)
    <2>1. SameFormat(x, r) /\ x.header_was_parsed = r.header_was_parsed /\ x.row_num = r.row_num
      BY <1>2, SplitEffect
    <2> QED BY <2>1 DEF Ready, SameFormat
  <1>3. CASE x = WriteRecord(r)
    <2>1. /\ IsReader(x) /\ x.header_was_parsed <=> r.header_was_parsed \/ IsHeader(r)
      BY <1>3, WriteRecordEffect
    <2> QED BY <2>1 DEF Ready, IsHeader
  <1>4. CASE x = AppendText(r, ch)
    <2>1. SameFormat(x, r) /\ x.header_was_parsed = r.header_was_parsed /\ x.row_num = r.row_num
      BY <1>4, AppendTextEffect
    <2> QED BY <2>1 DEF Ready, SameFormat
  <1> QED BY <1>1, <1>2, <1>3, <1>4 DEF Outcome

\* There is a delimiter before i in its line.
Delimited(in, d, i) ==
    \E j \in 1 .. i : in[j] = d /\ \A k \in j .. i : in[k] \notin Newlines

\* A text of whole lines, each with a delimiter or empty.
Lines(in, d) ==
    \A k \in 1 .. Len(in) :
        in[k] \in Newlines => k = 1 \/ in[k - 1] \in Newlines \/ Delimited(in, d, k - 1)

\* What the parser has of a line: nothing at its start, a second field behind a delimiter.
InLine(s, in, d, i) ==
    /\ ~s.quote_escape /\ (s.skip => i > 0 /\ in[i] \in Newlines /\ Ahead(in, i))
    /\ Ready(s.r)
    /\ i = 0 \/ in[i] \in Newlines => s.r.record_buffer.text = <<>>
    /\ Delimited(in, d, i) => s.r.record_buffer.splits # <<>>

\* A step along such lines.
LEMMA InLineStep ==
    ASSUME NEW in \in Seq(STRING), NEW d, d \notin Newlines, Lines(in, d), Quote \notin ToSet(in),
           NEW i \in 1 .. Len(in), NEW s, IsState(s), s.r.quote_char = Quote, s.r.delimiter = d,
           InLine(s, in, d, i - 1)
    PROVE  InLine(FeedStep(s, in, i), in, d, i)
  <1> DEFINE z == FeedStep(s, in, i)
             ahead == Ahead(in, i)
             no == FALSE
             ch == in[i]
  <1>1. ch \in STRING /\ ch # Quote /\ i - 1 \in Nat /\ i > 0
    BY DEF ToSet
  <1>2. z = PlainStep(s, ch, ahead)
    BY <1>1, FeedStepPlain DEF InLine
  <1>3. ahead \in BOOLEAN /\ no \in BOOLEAN /\ ~no /\ IsReader(s.r) /\ s.skip \in BOOLEAN
    BY DEF Ahead, IsState
  <1>4. /\ s.skip => z = Put(s, s.r, no, no)
        /\ ~s.skip /\ ch = d => z = Put(s, Split(s.r), no, no)
        /\ ~s.skip /\ ch # d /\ ch \in Newlines => z = Put(s, WriteRecord(s.r), no, ahead)
        /\ ~s.skip /\ ch # d /\ ch \notin Newlines => z = Put(s, AppendText(s.r, ch), no, no)
    BY <1>2 DEF PlainStep
  <1>5. Delimited(in, d, i) => ch \notin Newlines /\ (ch = d \/ Delimited(in, d, i - 1))
    <2> SUFFICES ASSUME NEW j \in 1 .. i, in[j] = d, \A k \in j .. i : in[k] \notin Newlines
                 PROVE  ch \notin Newlines /\ (ch = d \/ Delimited(in, d, i - 1))
      BY DEF Delimited
    <2>1. i \in j .. i
      BY <1>1
    <2>2. CASE j = i
      BY <2>1, <2>2
    <2>3. CASE j # i
      <3>1. j \in 1 .. i - 1 /\ \A k \in j .. i - 1 : k \in j .. i
        BY <1>1, <2>3
      <3> QED BY <2>1, <3>1 DEF Delimited
    <2> QED BY <2>2, <2>3
  <1>6. \A r, e, k : IsReader(r) /\ e \in BOOLEAN /\ k \in BOOLEAN =>
            Put(s, r, e, k).r = r /\ Put(s, r, e, k).quote_escape = e /\ Put(s, r, e, k).skip = k
    BY PutState
  <1> HIDE DEF z, ahead, no, ch
  <1>7. CASE s.skip
    <2>1. z.r = s.r /\ z.skip = no /\ z.quote_escape = no
      BY <1>3, <1>4, <1>6, <1>7
    <2>2. i - 1 > 0 /\ in[i - 1] \in Newlines /\ ch = "\n"
      BY <1>1, <1>7 DEF InLine, Ahead, ch
    <2>3. ch \in Newlines /\ ~Delimited(in, d, i)
      BY <1>5, <2>2 DEF Newlines
    <2> QED BY <1>3, <2>1, <2>2, <2>3 DEF InLine, z
  <1>8. CASE ~s.skip /\ ch = d
    <2>1. IsReader(Split(s.r)) /\ Ready(Split(s.r)) /\ Split(s.r).record_buffer.splits # <<>>
      <3>1. IsReader(Split(s.r)) /\ Split(s.r).record_buffer.splits =
                Append(s.r.record_buffer.splits, Len(s.r.record_buffer.text) % MaxSplit)
        BY <1>3, SplitEffect
      <3>2. s.r.record_buffer.splits \in Seq(Int) /\ Len(s.r.record_buffer.text) % MaxSplit \in Int
        BY <1>3, ParserAssumption DEF IsReader, IsBuffer
      <3>3. Append(s.r.record_buffer.splits, Len(s.r.record_buffer.text) % MaxSplit) # <<>>
        <4> DEFINE q == s.r.record_buffer.splits
                   e == Len(s.r.record_buffer.text) % MaxSplit
        <4>1. q \in Seq(Int) /\ e \in Int
          BY <3>2
        <4> HIDE DEF q, e
        <4>2. Len(Append(q, e)) = Len(q) + 1 /\ Len(q) \in Nat
          BY <4>1, AppendProperties
        <4>3. Append(q, e) # <<>>
          <5>1. PICK m : m = Append(q, e)
            OBVIOUS
          <5>2. Len(m) # 0
            BY <4>2, <5>1
          <5> QED BY <5>1, <5>2
        <4> QED BY <4>3 DEF q, e
      <3>4. Ready(Split(s.r))
        BY <1>1, <1>3, ReadyByStep DEF InLine, Outcome
      <3> QED BY <3>1, <3>3, <3>4
    <2>2. z.r = Split(s.r) /\ z.skip = no /\ z.quote_escape = no
      BY <1>3, <1>4, <1>6, <1>8, <2>1
    <2> QED BY <1>1, <1>3, <1>8, <2>1, <2>2 DEF InLine, z, ch
  <1>9. CASE ~s.skip /\ ch \in Newlines
    <2> DEFINE w == WriteRecord(s.r)
    <2>1. /\ IsReader(w)
          /\ w.record_buffer.text = IF IsRow(s.r) \/ IsHeader(s.r) \/ IsRejected(s.r) THEN <<>>
                                    ELSE s.r.record_buffer.text
      BY <1>3, WriteRecordEffect
    <2>2. Ready(w)
      BY <1>1, <1>3, ReadyByStep DEF InLine, Outcome
    <2>3. z.r = w /\ z.skip = ahead /\ z.quote_escape = no
      <3>1. z = Put(s, w, no, ahead)
        BY <1>4, <1>9
      <3> HIDE DEF w
      <3> QED BY <1>3, <1>6, <2>1, <3>1
    <2>4. ~Delimited(in, d, i)
      BY <1>5, <1>9
    <2>5. w.record_buffer.text = <<>>
      <3>1. i - 1 = 0 \/ in[i - 1] \in Newlines \/ Delimited(in, d, i - 1)
        BY <1>1, <1>9 DEF Lines, ch
      <3>2. CASE i - 1 = 0 \/ in[i - 1] \in Newlines
        BY <2>1, <3>2 DEF InLine
      <3>3. CASE Delimited(in, d, i - 1)
        <4>1. s.r.record_buffer.splits # <<>> /\ s.r.record_buffer.splits \in Seq(Int) /\ Ready(s.r)
          BY <1>3, <3>3 DEF InLine, IsReader, IsBuffer
        <4>2. RowSize(GetRow(s.r.record_buffer)) > 1
          <5>1. Len(s.r.record_buffer.splits) \in Nat \ {0}
            BY <4>1
          <5> QED BY <5>1 DEF RowSize, GetRow
        <4>3. IsRow(s.r) \/ IsHeader(s.r) \/ IsRejected(s.r)
          BY <1>3, <4>1, <4>2 DEF Ready, IsRow, IsHeader, IsRejected, IsReader
        <4> QED BY <2>1, <4>3
      <3> QED BY <3>1, <3>2, <3>3
    <2> HIDE DEF w
    <2> QED BY <1>1, <1>3, <1>9, <2>2, <2>3, <2>4, <2>5 DEF InLine, z, ch, ahead
  <1>10. CASE ~s.skip /\ ch # d /\ ch \notin Newlines
    <2>1. /\ IsReader(AppendText(s.r, ch)) /\ Ready(AppendText(s.r, ch))
          /\ AppendText(s.r, ch).record_buffer.splits = s.r.record_buffer.splits
      BY <1>1, <1>3, ReadyByStep, AppendTextEffect DEF InLine, Outcome
    <2>2. z.r = AppendText(s.r, ch) /\ z.skip = no /\ z.quote_escape = no
      BY <1>3, <1>4, <1>6, <1>10, <2>1
    <2> QED BY <1>1, <1>3, <1>5, <1>10, <2>1, <2>2 DEF InLine, z, ch
  <1> QED BY <1>7, <1>8, <1>9, <1>10 DEF z

\* Behind a text of such lines that ends in a newline no row goes on.
LEMMA LinesTaken ==
    ASSUME NEW r, IsReader(r), r.quote_char = Quote, r.delimiter \notin Newlines, Ready(r),
           r.record_buffer.text = <<>>,
           NEW in \in Seq(STRING), Lines(in, r.delimiter), Quote \notin ToSet(in)
    PROVE  /\ Ready(Feed(r, in))
           /\ in = <<>> \/ in[Len(in)] \in Newlines => Feed(r, in).record_buffer.text = <<>>
  <1> DEFINE z == Reserved(r, in)
             g == Run(z, in)
             n == Len(in)
             d == r.delimiter
             Fine(i) == InLine(g[i], in, d, i)
  <1>1. n \in Nat
    OBVIOUS
  <1>2. g[0] = Start(z) /\ Steps(g, in) /\ IsReader(z) /\ z.record_buffer.text = <<>>
    BY <1>1, RunSteps, ReservedSame DEF Steps
  <1>3. SameFormat(z, r) /\ Ready(z)
    BY DEF Reserved, IsReader, Holds, ReaderFields, SameFormat, Ready
  <1>4. /\ Feed(r, in).record_buffer.text = g[n].r.record_buffer.text
        /\ Feed(r, in).header_was_parsed = g[n].r.header_was_parsed
        /\ Feed(r, in).row_num = g[n].r.row_num
        /\ Feed(r, in).header_row = g[n].r.header_row
    <2>1. SameFormat(Feed(r, in), r)
      BY FeedFormat
    <2>2. SameFormat(g[n].r, r)
      BY <1>1, WholeRun DEF Whole
    <2> QED BY <2>1, <2>2, FeedEnds DEF SameFormat
  <1> HIDE DEF g, z
  <1>5. IsState(g[0]) /\ g[0].r = z /\ g[0].quote_escape = FALSE /\ g[0].skip = FALSE
    BY <1>2 DEF Start, IsState, Holds, StateFields
  <1>6. \A i \in 0 .. n : IsState(g[i]) /\ SameFormat(g[i].r, z)
    BY <1>2, <1>5, StepsTyped
  <1>7. Fine(0)
    <2>1. ~Delimited(in, d, 0)
      BY DEF Delimited
    <2> QED BY <1>2, <1>3, <1>5, <2>1 DEF InLine
  <1>8. ASSUME NEW i \in 1 .. n, Fine(i - 1) PROVE Fine(i)
    <2>1. i - 1 \in 0 .. n
      BY <1>1
    <2>2. IsState(g[i - 1]) /\ g[i - 1].r.quote_char = Quote /\ g[i - 1].r.delimiter = d
      BY <1>3, <1>6, <2>1 DEF SameFormat
    <2>3. InLine(FeedStep(g[i - 1], in, i), in, d, i)
      BY <1>8, <2>2, InLineStep
    <2> QED BY <1>2, <2>3 DEF Steps
  <1>9. Fine(n)
    <2> DEFINE Bad == {i \in 0 .. n : ~Fine(i)}
    <2> HIDE DEF Fine
    <2> SUFFICES ASSUME Bad # {} PROVE FALSE
      BY <1>1
    <2>1. Bad \in SUBSET Nat
      OBVIOUS
    <2>2. PICK m \in Bad : \A k \in Bad : m <= k
      BY <2>1, LeastNatural
    <2>3. m # 0
      BY <1>7
    <2>4. m \in 1 .. n /\ m - 1 \in 0 .. n /\ ~(m <= m - 1)
      BY <1>1, <2>3
    <2> QED BY <1>8, <2>2, <2>4
  <1>10. Ready(Feed(r, in))
    BY <1>4, <1>9 DEF InLine, Ready
  <1>11. in = <<>> => n = 0
    OBVIOUS
  <1> QED BY <1>4, <1>9, <1>10, <1>11 DEF InLine

--------------------------------------------------------------------------------
(* No row goes on behind the end of a buffer. *)

\* The texts of more than one buffer whose rows stay.
LinesTo == Quote \notin ToSet(file.content) /\ LinesFitPages /\ LinesSplit

\* The texts behind which a row may go on.
Leaving == {in \in Seq(STRING) : in # <<>> /\ (LinesTo => in[Len(in)] \notin Newlines)}

\* A part of them.
GoodText(in, d) == in \in Seq(STRING) /\ Lines(in, d) /\ Quote \notin ToSet(in)

\* The queue has only empty texts from its k-th on.
NothingFrom(queue, k) == \A j \in k .. Len(queue) : queue[j].text = <<>>

\* There is nothing left to be handed over.
AllRead == buffer = <<>> /\ pos = Len(file.content)

\* No row has lost its text, neither in the queue nor in the loop.
Unmoved == NoneMoved(reader) /\ (pc = "body" => ~row.moved) /\ reader.quote_char = Quote

\* A row in progress between two feeds is the last one.
Between ==
    ~Completed =>
        /\ reader.record_buffer.current_end = 0
        /\ LinesTo => Ready(reader)
        /\ reader.record_buffer.text # <<>> => chunk = <<>> /\ NothingFrom(feed_buffer, 1) /\ AllRead

\* A text behind which a row may go on is the last one.
LastLeaves ==
    /\ chunk \in Leaving => NothingFrom(feed_buffer, 1) /\ AllRead
    /\ \A k \in 1 .. Len(feed_buffer) :
          feed_buffer[k].text \in Leaving => NothingFrom(feed_buffer, k + 1) /\ AllRead

\* Every text is made of whole lines.
WholeLines ==
    LinesTo =>
        /\ GoodText(chunk, reader.delimiter) /\ GoodText(buffer, reader.delimiter)
        /\ \A k \in 1 .. Len(feed_buffer) : GoodText(feed_buffer[k].text, reader.delimiter)
        /\ pos = 0 \/ pos = Len(file.content) \/ file.content[pos] = "\n"
        /\ buffer \in Leaving => pos = Len(file.content)

\* Otherwise the file is read at once.
AtOnce ==
    ~LinesTo /\ pc \in Before \cup Reading =>
        feed_buffer = <<>> /\ chunk = <<>> /\ reader.record_buffer.text = <<>>

\* The inductive invariant.
Staying == OneBuffer \/ LinesTo => Unmoved /\ Between /\ LastLeaves /\ WholeLines /\ AtOnce

\* Every step but the guess keeps the file and the format.
LEMMA StepKeeps ==
    ASSUME ReaderInv, ReadInv, [Next]_vars, ~GuessFromHead
    PROVE  Kept
  <1> USE DEF fileVars, readVars, threadVars, loopVars
  <1>1. file' = file
    BY DEF Next, MainStep, WorkerStep, OpenFails, OpenFile, GetLine, NoLine, EnoughBytes, Flush,
           Drain, Join, TakeRow, TakeFromNone, ReadMore, AtEnd, ReadMoved, LoadRow, RowThrows, StartReading,
           WorkerWaits, SpuriousWakeup, WorkerTakes, WorkerFeeds, vars
  <1>2. IsReader(reader) /\ SameFormat(reader', reader)
    <2>1. CASE Join
      BY <2>1, WriteRecordEffect DEF Join, EndFeed, ReadInv, Parsing, SameFormat
    <2>2. CASE WorkerFeeds
      BY <2>2, FeedFormat DEF WorkerFeeds, ReadInv, Parsing
    <2>3. CASE TakeRow
      BY <2>3, TakeSame DEF TakeRow, ReadInv, Parsing
    <2>4. CASE reader' = reader
      BY <2>4 DEF SameFormat, ReadInv, Parsing
    <2> QED BY <2>1, <2>2, <2>3, <2>4 DEF Next, MainStep, WorkerStep, OpenFails, OpenFile, GetLine, NoLine,
           EnoughBytes, Flush, Drain, TakeFromNone, ReadMore, AtEnd, ReadMoved, LoadRow, RowThrows,
           StartReading,
           WorkerWaits, SpuriousWakeup, WorkerTakes, vars
  <1> QED BY <1>1, <1>2 DEF Kept, SameFormat

\* So it keeps what is built from them.
LEMMA StayingSame ==
    ASSUME Kept
    PROVE  /\ (OneBuffer' <=> OneBuffer) /\ (LinesTo' <=> LinesTo) /\ Leaving' = Leaving
           /\ file' = file /\ reader'.delimiter = reader.delimiter /\ reader'.header_row = reader.header_row
  <1>1. file' = file /\ reader'.delimiter = reader.delimiter /\ reader'.header_row = reader.header_row
    BY DEF Kept
  <1>2. (OneBuffer' <=> OneBuffer) /\ (LinesTo' <=> LinesTo)
    BY <1>1 DEF OneBuffer, LinesTo, LinesFitPages, LinesSplit
  <1> QED BY <1>1, <1>2 DEF Leaving

\* An empty text is made of whole lines, and nothing goes on behind it.
LEMMA NothingIsGood ==
    ASSUME NEW d
    PROVE  GoodText(<<>>, d) /\ <<>> \notin Leaving
  BY DEF GoodText, Lines, ToSet, Leaving

\* Before the first read nothing is kept anywhere.
LEMMA StayingAtStart == AtStart => Staying
  <1> SUFFICES ASSUME AtStart PROVE Staying
    OBVIOUS
  <1> USE DEF AtStart
  <1>1. /\ reader.records = <<>> /\ reader.quote_char = Quote /\ reader.record_buffer = EmptyBuffer
        /\ reader.row_num = 0
    BY DEF StartReader, Blank
  <1>2. reader.record_buffer.text = <<>> /\ reader.record_buffer.current_end = 0
    BY <1>1 DEF EmptyBuffer
  <1>3. Unmoved
    BY <1>1 DEF Unmoved, NoneMoved, Joined
  <1>4. Between
    BY <1>1, <1>2 DEF Between, Ready, LinesTo, LinesSplit
  <1>5. LastLeaves /\ WholeLines
    <2>1. 1 .. Len(feed_buffer) = {}
      OBVIOUS
    <2> QED BY <2>1, NothingIsGood DEF LastLeaves, WholeLines
  <1> QED BY <1>2, <1>3, <1>4, <1>5 DEF Staying, AtOnce

\* It holds at first,
LEMMA InitStaying == Init => Staying
  <1> SUFFICES ASSUME Init PROVE Staying
    OBVIOUS
  <1>1. Typing /\ ReadTo
    BY InitReader, InitRead DEF ReaderInv, ReadInv
  <1> QED BY <1>1, StayingAtStart DEF Init, AtStart, ReadTo, Before, Joined

\* and when the file is opened.
LEMMA OpeningStaying ==
    ASSUME ReaderInv, ReaderInv', ReadInv, ReadInv', OpenFails \/ GuessFromHead \/ OpenFile
    PROVE  Staying'
  BY OpeningAtStart, StayingAtStart, PTL

\* What is read behind whole lines are whole lines again.
LEMMA LinesRead ==
    ASSUME NEW s \in Seq(STRING), NEW d, d \notin Newlines, Lines(s, d), Quote \notin ToSet(s),
           NEW p \in 0 .. Len(s), p = 0 \/ s[p] = "\n", NEW n \in 1 .. Len(s) - p,
           NEW b, GoodText(b, d), b = <<>> \/ b[Len(b)] \in Newlines
    PROVE  LET c == b \o SubSeq(s, p + 1, p + n)
           IN  GoodText(c, d) /\ c # <<>> /\ c[Len(c)] = s[p + n]
  <1> DEFINE c == b \o SubSeq(s, p + 1, p + n)
             m == Len(b)
  <1>1. Len(s) \in Nat /\ m \in Nat /\ p \in Nat /\ n \in Nat /\ p + n \in p .. Len(s) /\ b \in Seq(STRING)
        /\ (p + n) - p = n
    BY DEF GoodText
  <1>2. /\ c \in Seq(STRING) /\ Len(c) = m + n
        /\ \A k \in 1 .. m : c[k] = b[k]
        /\ \A i \in 1 .. n : c[m + i] = s[p + i]
    <2> DEFINE y == SubSeq(s, p + 1, p + n)
    <2>1. y \in Seq(STRING) /\ Len(y) = n /\ \A i \in 1 .. n : y[i] = s[p + i]
      <3>1. y \in Seq(STRING) /\ Len(y) = (p + n) - p /\ \A i \in 1 .. (p + n) - p : y[i] = s[p + i]
        BY <1>1, PieceOf
      <3> QED BY <1>1, <3>1
    <2> HIDE DEF y
    <2>2. /\ b \o y \in Seq(STRING) /\ Len(b \o y) = m + n
          /\ \A k \in 1 .. m + n : (b \o y)[k] = IF k <= m THEN b[k] ELSE y[k - m]
      BY <1>1, <2>1, ConcatProperties
    <2>3. \A i \in 1 .. n : m + i \in 1 .. m + n /\ ~(m + i <= m) /\ (m + i) - m = i
      BY <1>1
    <2>4. \A k \in 1 .. m : k \in 1 .. m + n /\ k <= m
      BY <1>1
    <2> QED BY <2>1, <2>2, <2>3, <2>4 DEF y
  <1> HIDE DEF c
  <1>3. c # <<>> /\ c[Len(c)] = s[p + n]
    <2>1. Len(c) # 0 /\ n \in 1 .. n
      BY <1>1, <1>2
    <2> QED BY <1>2, <2>1
  <1>4. Quote \notin ToSet(c)
    <2> SUFFICES ASSUME NEW k \in 1 .. m + n, c[k] = Quote PROVE FALSE
      BY <1>2 DEF ToSet
    <2>1. CASE k <= m
      <3>1. k \in 1 .. m /\ b[k] = Quote
        BY <1>1, <1>2, <2>1
      <3> QED BY <1>1, <3>1 DEF GoodText, ToSet
    <2>2. CASE ~(k <= m)
      <3>1. k - m \in 1 .. n /\ m + (k - m) = k /\ p + (k - m) \in 1 .. Len(s)
        BY <1>1, <2>2
      <3>2. s[p + (k - m)] = Quote
        BY <1>2, <3>1
      <3> QED BY <3>1, <3>2 DEF ToSet
    <2> QED BY <2>1, <2>2
  <1>5. ASSUME NEW k \in 1 .. Len(c), c[k] \in Newlines
        PROVE  k = 1 \/ c[k - 1] \in Newlines \/ Delimited(c, d, k - 1)
    <2>1. CASE k <= m
      <3>1. k \in 1 .. m /\ b[k] \in Newlines
        BY <1>1, <1>2, <1>5, <2>1
      <3>2. k = 1 \/ b[k - 1] \in Newlines \/ Delimited(b, d, k - 1)
        BY <3>1 DEF GoodText, Lines
      <3>3. CASE k # 1 /\ b[k - 1] \in Newlines
        <4>1. k - 1 \in 1 .. m
          BY <1>1, <3>1, <3>3
        <4> QED BY <1>2, <3>3, <4>1
      <3>4. CASE Delimited(b, d, k - 1)
        <4>1. PICK j \in 1 .. k - 1 : b[j] = d /\ \A i \in j .. k - 1 : b[i] \notin Newlines
          BY <3>4 DEF Delimited
        <4>2. j \in 1 .. m /\ \A i \in j .. k - 1 : i \in 1 .. m
          BY <1>1, <3>1
        <4> QED BY <1>2, <4>1, <4>2 DEF Delimited
      <3> QED BY <3>2, <3>3, <3>4
    <2>2. CASE ~(k <= m)
      <3>1. PICK i \in 1 .. n : k = m + i
        <4>1. k - m \in 1 .. n /\ k = m + (k - m)
          BY <1>1, <1>2, <2>2
        <4> QED BY <4>1
      <3>2. s[p + i] \in Newlines /\ p + i \in 1 .. Len(s)
        BY <1>1, <1>2, <1>5, <3>1
      <3>3. CASE i = 1
        <4>1. k - 1 = m
          BY <1>1, <3>1, <3>3
        <4>2. CASE b = <<>>
          BY <1>1, <3>1, <3>3, <4>2
        <4>3. CASE b # <<>>
          <5>1. m \in 1 .. m /\ b[m] \in Newlines
            BY <1>1, <4>3
          <5> QED BY <1>2, <4>1, <5>1
        <4> QED BY <4>2, <4>3
      <3>4. CASE i # 1
        <4>1. i - 1 \in 1 .. n /\ k - 1 = m + (i - 1) /\ (p + i) - 1 = p + (i - 1) /\ p + i # 1
          BY <1>1, <3>1, <3>4
        <4>2. s[p + (i - 1)] \in Newlines \/ Delimited(s, d, p + (i - 1))
          BY <3>2, <4>1 DEF Lines
        <4>3. CASE s[p + (i - 1)] \in Newlines
          BY <1>2, <4>1, <4>3
        <4>4. CASE Delimited(s, d, p + (i - 1))
          <5>1. PICK j \in 1 .. p + (i - 1) : s[j] = d /\ \A l \in j .. p + (i - 1) : s[l] \notin Newlines
            BY <4>4 DEF Delimited
          <5>2. j > p
            <6>1. ASSUME ~(j > p) PROVE FALSE
              <7>1. p # 0 /\ p \in j .. p + (i - 1)
                BY <1>1, <3>1, <6>1, <4>1
              <7> QED BY <5>1, <7>1 DEF Newlines
            <6> QED BY <6>1
          <5>3. PICK e \in 1 .. i - 1 : j = p + e
            <6>1. j - p \in 1 .. i - 1 /\ j = p + (j - p)
              BY <1>1, <5>2, <3>1
            <6> QED BY <6>1
          <5>4. m + e \in 1 .. k - 1 /\ c[m + e] = d
            BY <1>1, <1>2, <3>1, <5>1, <5>3, <4>1
          <5>5. ASSUME NEW l \in m + e .. k - 1 PROVE c[l] \notin Newlines
            <6>1. l - m \in 1 .. n /\ m + (l - m) = l /\ p + (l - m) \in j .. p + (i - 1)
              BY <1>1, <3>1, <4>1, <5>3
            <6>2. c[m + (l - m)] = s[p + (l - m)]
              BY <1>2, <6>1
            <6> QED BY <5>1, <6>1, <6>2
          <5> QED BY <5>4, <5>5 DEF Delimited
        <4> QED BY <4>2, <4>3, <4>4
      <3> QED BY <3>3, <3>4
    <2> QED BY <2>1, <2>2
  <1>6. Lines(c, d)
    BY <1>5 DEF Lines
  <1> QED BY <1>2, <1>3, <1>4, <1>6 DEF GoodText, c

\* The file is made of such lines.
LEMMA SplitLines ==
    ASSUME Typing, LinesTo
    PROVE  Lines(file.content, reader.delimiter) /\ reader.delimiter \notin Newlines
  <1>1. Len(file.content) \in Nat /\ DOMAIN file.content = 1 .. Len(file.content)
    BY Content
  <1> SUFFICES ASSUME NEW k \in 1 .. Len(file.content), file.content[k] \in Newlines, k # 1
               PROVE  file.content[k - 1] \in Newlines \/ Delimited(file.content, reader.delimiter, k - 1)
    BY DEF Lines, LinesTo, LinesSplit
  <1>2. k \in DOMAIN file.content \ {1}
    BY <1>1
  <1> QED BY <1>2 DEF LinesTo, LinesSplit, Delimited

\* A line is appended to the buffer, whole where lines fit into a page.
LEMMA GetLineStaying ==
    ASSUME ReaderInv, ReaderInv', ReadInv, Staying, GetLine
    PROVE  Staying'
  <1>0. Kept
    BY DEF GetLine, Kept
  <1> SUFFICES ASSUME OneBuffer \/ LinesTo PROVE (Unmoved /\ Between /\ LastLeaves /\ WholeLines /\ AtOnce)'
    <2>1. (OneBuffer' <=> OneBuffer) /\ (LinesTo' <=> LinesTo)
      BY <1>0, StayingSame
    <2> QED BY <2>1 DEF Staying
  <1>1. UNCHANGED <<reader, feed_buffer, chunk, row>> /\ pc = "read" /\ pc' \in {"read", "flush"}
        /\ pos < Len(file.content)
    BY DEF GetLine, threadVars, loopVars
  <1>2. Unmoved /\ Between /\ LastLeaves /\ WholeLines /\ AtOnce
    BY DEF Staying
  <1>3. PICK n \in 1 .. Len(file.content) - pos :
            /\ n = LineLength
            /\ buffer' = buffer \o SubSeq(file.content, pos + 1, pos + n)
            /\ pos' = pos + n
    BY DEF GetLine
  <1>4. /\ file.content \in Seq(STRING) /\ Len(file.content) \in Nat /\ pos \in 0 .. Len(file.content)
        /\ ~AllRead /\ ~Completed /\ pc \in Reading
    BY <1>1, Content DEF ReaderInv, AllRead, Completed, Joined, Reading
  <1>5. /\ reader.record_buffer.current_end = 0 /\ (LinesTo => Ready(reader))
        /\ reader.record_buffer.text = <<>> /\ chunk \notin Leaving
        /\ \A k \in 1 .. Len(feed_buffer) : feed_buffer[k].text \notin Leaving
    BY <1>2, <1>4 DEF Between, LastLeaves
  <1>6. /\ (LinesTo' <=> LinesTo) /\ Leaving' = Leaving /\ file' = file /\ reader' = reader
        /\ Ready(reader)' = Ready(reader)
    BY <1>0, <1>1, StayingSame DEF Ready
  <1>7. Unmoved'
    BY <1>1, <1>2 DEF Unmoved, NoneMoved
  <1>8. Between'
    BY <1>1, <1>5, <1>6 DEF Between
  <1>9. LastLeaves'
    BY <1>1, <1>5, <1>6 DEF LastLeaves
  <1>10. WholeLines'
    <2> SUFFICES ASSUME LinesTo PROVE WholeLines'
      BY <1>6 DEF WholeLines
    <2>1. /\ GoodText(chunk, reader.delimiter) /\ GoodText(buffer, reader.delimiter)
          /\ \A k \in 1 .. Len(feed_buffer) : GoodText(feed_buffer[k].text, reader.delimiter)
          /\ pos = 0 \/ file.content[pos] = "\n"
          /\ buffer \notin Leaving
      BY <1>1, <1>2, <1>4 DEF WholeLines
    <2>2. buffer = <<>> \/ buffer[Len(buffer)] \in Newlines
      BY <2>1 DEF Leaving, GoodText
    <2>3. Lines(file.content, reader.delimiter) /\ reader.delimiter \notin Newlines
          /\ Quote \notin ToSet(file.content) /\ LinesFitPages
      BY SplitLines DEF ReaderInv, LinesTo
    <2>4. /\ GoodText(buffer', reader.delimiter) /\ buffer' # <<>>
          /\ buffer'[Len(buffer')] = file.content[pos + n]
      <3> DEFINE c == buffer \o SubSeq(file.content, pos + 1, pos + n)
      <3>1. pos = 0 \/ file.content[pos] = "\n"
        BY <2>1
      <3>2. GoodText(c, reader.delimiter) /\ c # <<>> /\ c[Len(c)] = file.content[pos + n]
        <4> HIDE DEF c
        <4>1. PICK s, d, p, b : s = file.content /\ d = reader.delimiter /\ p = pos /\ b = buffer
          OBVIOUS
        <4>2. /\ s \in Seq(STRING) /\ d \notin Newlines /\ Lines(s, d) /\ Quote \notin ToSet(s)
              /\ p \in 0 .. Len(s) /\ (p = 0 \/ s[p] = "\n")
          BY <1>4, <2>3, <3>1, <4>1 DEF LinesTo
        <4>3. n \in 1 .. Len(s) - p /\ GoodText(b, d) /\ (b = <<>> \/ b[Len(b)] \in Newlines)
          BY <2>1, <2>2, <4>1
        <4>4. LET e == b \o SubSeq(s, p + 1, p + n)
              IN  GoodText(e, d) /\ e # <<>> /\ e[Len(e)] = s[p + n]
          BY <4>2, <4>3, LinesRead
        <4> QED BY <4>1, <4>4 DEF c
      <3> QED BY <1>3, <3>2
    <2>5. pos + n = Len(file.content) \/ file.content[pos + n] = "\n"
      BY <1>3, <2>3, WholeLine
    <2>6. buffer' \in Leaving => pos' = Len(file.content)
      BY <1>3, <2>4, <2>5 DEF Leaving, Newlines
    <2> QED BY <1>1, <1>3, <1>6, <2>1, <2>4, <2>5, <2>6 DEF WholeLines
  <1>11. AtOnce'
    BY <1>1, <1>2, <1>4, <1>6 DEF AtOnce
  <1> QED BY <1>7, <1>8, <1>9, <1>10, <1>11

\* A buffer is handed over, or the rest of one.
LEMMA HandOverStaying ==
    ASSUME ReaderInv, ReaderInv', ReadInv, Staying, Flush \/ Drain
    PROVE  Staying'
  <1>0. Kept /\ UNCHANGED <<reader, chunk, pos, row>> /\ buffer' = <<>> /\ pc \in Reading
        /\ ~Completed /\ ~Completed' /\ pc' # "body"
    BY DEF Flush, Drain, Kept, fileVars, threadVars, loopVars, Reading, Completed, Joined
  <1> SUFFICES ASSUME OneBuffer \/ LinesTo PROVE (Unmoved /\ Between /\ LastLeaves /\ WholeLines /\ AtOnce)'
    <2>1. (OneBuffer' <=> OneBuffer) /\ (LinesTo' <=> LinesTo)
      BY <1>0, StayingSame
    <2> QED BY <2>1 DEF Staying
  <1>1. Unmoved /\ Between /\ LastLeaves /\ WholeLines /\ AtOnce
    BY DEF Staying
  <1>2. PICK n \in Nat, m \in Nat :
            /\ n = Len(feed_buffer) /\ m = Len(feed_buffer') /\ n < m
            /\ \A k \in 1 .. n : feed_buffer'[k] = feed_buffer[k]
            /\ feed_buffer'[n + 1].text = buffer
            /\ \A k \in 1 .. m : k \in 1 .. n \/ k = n + 1 \/ (k > n + 1 /\ feed_buffer'[k].text = <<>>)
    <2> DEFINE n == Len(feed_buffer)
               m == Len(feed_buffer')
    <2>1. Len(feed_buffer) \in Nat /\ feed_buffer \in Seq(WorkItem)
      BY DEF ReaderInv, Typing
    <2>2. /\ Item(buffer) \in WorkItem /\ Item(buffer).text = buffer
          /\ Null \in WorkItem /\ Null.text = <<>>
      BY DEF ReaderInv, Typing, Item, Null, WorkItem
    <2>3. CASE Flush
      <3>1. feed_buffer' = Append(feed_buffer, Item(buffer))
        BY <2>3 DEF Flush
      <3>2. /\ Len(feed_buffer') = Len(feed_buffer) + 1
            /\ \A k \in 1 .. Len(feed_buffer) : feed_buffer'[k] = feed_buffer[k]
            /\ feed_buffer'[Len(feed_buffer) + 1] = Item(buffer)
        BY <2>1, <2>2, <3>1, AppendProperties
      <3>3. /\ n \in Nat /\ m = n + 1 /\ feed_buffer'[n + 1].text = buffer
            /\ \A k \in 1 .. n : feed_buffer'[k] = feed_buffer[k]
        BY <2>1, <2>2, <3>2
      <3> HIDE DEF n, m
      <3>4. m \in Nat /\ n < m /\ \A k \in 1 .. m : k \in 1 .. n \/ k = n + 1
        BY <3>3
      <3> QED BY <3>3, <3>4 DEF n, m
    <2>4. CASE Drain
      <3>1. feed_buffer' = feed_buffer \o <<Item(buffer), Null>>
        BY <2>4 DEF Drain
      <3>2. /\ <<Item(buffer), Null>> \in Seq(WorkItem) /\ Len(<<Item(buffer), Null>>) = 2
            /\ <<Item(buffer), Null>>[1] = Item(buffer) /\ <<Item(buffer), Null>>[2] = Null
        BY <2>2
      <3>3. /\ Len(feed_buffer') = Len(feed_buffer) + 2
            /\ \A k \in 1 .. Len(feed_buffer) : feed_buffer'[k] = feed_buffer[k]
            /\ feed_buffer'[Len(feed_buffer) + 1] = Item(buffer)
            /\ feed_buffer'[Len(feed_buffer) + 2] = Null
        BY <2>1, <3>1, <3>2, ConcatProperties
      <3>4. /\ n \in Nat /\ m = n + 2 /\ feed_buffer'[n + 1].text = buffer
            /\ feed_buffer'[n + 2].text = <<>>
            /\ \A k \in 1 .. n : feed_buffer'[k] = feed_buffer[k]
        BY <2>1, <2>2, <3>3
      <3> HIDE DEF n, m
      <3>5. m \in Nat /\ n < m /\ \A k \in 1 .. m : k \in 1 .. n \/ k = n + 1 \/ (k > n + 1 /\ k = n + 2)
        BY <3>4
      <3> QED BY <3>4, <3>5 DEF n, m
    <2> QED BY <2>3, <2>4
  <1>3. /\ (LinesTo' <=> LinesTo) /\ Leaving' = Leaving /\ file' = file
        /\ Ready(reader)' = Ready(reader)
    BY <1>0, StayingSame DEF Ready
  <1>4. buffer \in Leaving => pos = Len(file.content)
    <2>1. CASE LinesTo
      BY <1>1, <2>1 DEF WholeLines
    <2>2. CASE ~LinesTo
      BY <2>2 DEF ReadInv, InOneRead, ReadTo, Flush, Drain
    <2> QED BY <2>1, <2>2
  <1>5. ASSUME NEW j \in Nat, NothingFrom(feed_buffer, j + 1), AllRead
        PROVE  NothingFrom(feed_buffer, j + 1)' /\ AllRead'
    <2>1. buffer = <<>> /\ AllRead'
      BY <1>0, <1>3, <1>5 DEF AllRead
    <2>2. ASSUME NEW k \in j + 1 .. m PROVE feed_buffer'[k].text = <<>>
      <3>1. k \in 1 .. m /\ (k \in 1 .. n => k \in j + 1 .. Len(feed_buffer))
        BY <1>2
      <3> QED BY <1>2, <1>5, <2>1, <3>1 DEF NothingFrom
    <2> QED BY <1>2, <2>1, <2>2 DEF NothingFrom
  <1>6. Unmoved'
    BY <1>0, <1>1 DEF Unmoved, NoneMoved
  <1>7. Between'
    <2>1. reader.record_buffer.text # <<>> => chunk = <<>> /\ NothingFrom(feed_buffer, 0 + 1) /\ AllRead
      BY <1>0, <1>1 DEF Between
    <2>2. reader.record_buffer.text # <<>> => NothingFrom(feed_buffer, 0 + 1)' /\ AllRead'
      BY <1>5, <2>1
    <2>3. reader.record_buffer.text # <<>> => NothingFrom(feed_buffer, 1)' /\ AllRead'
      BY <2>2 DEF NothingFrom
    <2>4. reader.record_buffer.current_end = 0 /\ (LinesTo => Ready(reader))
      BY <1>0, <1>1 DEF Between
    <2> QED BY <1>0, <1>3, <2>1, <2>3, <2>4 DEF Between
  <1>8. LastLeaves'
    <2>1. chunk \in Leaving => NothingFrom(feed_buffer, 1)' /\ AllRead'
      <3>1. chunk \in Leaving => NothingFrom(feed_buffer, 0 + 1) /\ AllRead
        BY <1>1 DEF LastLeaves
      <3>2. chunk \in Leaving => NothingFrom(feed_buffer, 0 + 1)' /\ AllRead'
        BY <1>5, <3>1
      <3> QED BY <3>2 DEF NothingFrom
    <2>2. ASSUME NEW k \in 1 .. m, feed_buffer'[k].text \in Leaving
          PROVE  NothingFrom(feed_buffer, k + 1)' /\ AllRead'
      <3>1. CASE k \in 1 .. n
        <4>1. NothingFrom(feed_buffer, k + 1) /\ AllRead
          BY <1>1, <1>2, <2>2, <3>1 DEF LastLeaves
        <4> QED BY <1>5, <4>1
      <3>2. CASE k = n + 1
        <4>1. AllRead'
          BY <1>0, <1>2, <1>3, <1>4, <2>2, <3>2 DEF AllRead
        <4>2. NothingFrom(feed_buffer, k + 1)'
          <5> SUFFICES ASSUME NEW j \in k + 1 .. m PROVE feed_buffer'[j].text = <<>>
            BY <1>2 DEF NothingFrom
          <5>1. j \in 1 .. m /\ ~(j \in 1 .. n) /\ j # n + 1
            BY <1>2, <3>2
          <5> QED BY <1>2, <5>1
        <4> QED BY <4>1, <4>2
      <3>3. CASE feed_buffer'[k].text = <<>>
        BY <2>2, <3>3, NothingIsGood
      <3> QED BY <1>2, <3>1, <3>2, <3>3
    <2> QED BY <1>0, <1>2, <1>3, <2>1, <2>2 DEF LastLeaves
  <1>9. WholeLines'
    <2> SUFFICES ASSUME LinesTo PROVE WholeLines'
      BY <1>3 DEF WholeLines
    <2>1. /\ GoodText(chunk, reader.delimiter) /\ GoodText(buffer, reader.delimiter)
          /\ \A k \in 1 .. n : GoodText(feed_buffer[k].text, reader.delimiter)
          /\ pos = 0 \/ pos = Len(file.content) \/ file.content[pos] = "\n"
      BY <1>1, <1>2 DEF WholeLines
    <2>2. \A k \in 1 .. m : GoodText(feed_buffer'[k].text, reader.delimiter)
      BY <1>2, <2>1, NothingIsGood
    <2>3. GoodText(buffer', reader.delimiter) /\ buffer' \notin Leaving
      BY <1>0, NothingIsGood
    <2> QED BY <1>0, <1>2, <1>3, <2>1, <2>2, <2>3 DEF WholeLines
  <1>10. AtOnce'
    <2>1. CASE LinesTo
      BY <1>3, <2>1 DEF AtOnce
    <2>2. CASE ~LinesTo
      BY <2>2 DEF ReadInv, InOneRead, Flush, Drain, AtOnce, Before, Reading
    <2> QED BY <2>1, <2>2
  <1> QED BY <1>6, <1>7, <1>8, <1>9, <1>10

\* The last row of the file is completed; otherwise the parser is left as it is.
LEMMA JoinStaying ==
    ASSUME ReaderInv, ReaderInv', ReadInv, Staying, Join
    PROVE  Staying'
  <1>0. Kept /\ SameFormat(reader', reader)
    <2>1. IsReader(reader)
      BY DEF ReadInv, Parsing
    <2>2. SameFormat(EndFeed(reader), reader)
      BY <2>1, WriteRecordEffect DEF EndFeed
    <2> QED BY <2>2 DEF Join, Kept, SameFormat
  <1> SUFFICES ASSUME OneBuffer \/ LinesTo PROVE (Unmoved /\ Between /\ LastLeaves /\ WholeLines /\ AtOnce)'
    <2>1. (OneBuffer' <=> OneBuffer) /\ (LinesTo' <=> LinesTo)
      BY <1>0, StayingSame
    <2> QED BY <2>1 DEF Staying
  <1>1. Unmoved /\ Between /\ LastLeaves /\ WholeLines
    BY DEF Staying
  <1>2. /\ UNCHANGED <<chunk, feed_buffer, buffer, pos, row>> /\ pc' = "take"
        /\ ~Completed /\ (Completed' <=> feof)
    BY DEF Join, readVars, threadVars, loopVars, Completed, Joined
  <1>3. /\ (LinesTo' <=> LinesTo) /\ Leaving' = Leaving
        /\ file' = file /\ reader'.delimiter = reader.delimiter
    BY <1>0, StayingSame
  <1>4. Unmoved'
    <2>1. NoneMoved(reader')
      BY <1>1, WriteRecordStays DEF Join, EndFeed, Unmoved, ReadInv, Parsing
    <2> QED BY <1>0, <1>1, <1>2, <2>1 DEF Unmoved, SameFormat
  <1>5. Between'
    <2> SUFFICES ASSUME ~feof PROVE Between'
      BY <1>2 DEF Between
    <2>1. reader' = reader /\ Ready(reader)' = Ready(reader)
      BY DEF Join, Ready
    <2>2. /\ reader.record_buffer.current_end = 0 /\ (LinesTo => Ready(reader))
          /\ reader.record_buffer.text # <<>> => chunk = <<>> /\ NothingFrom(feed_buffer, 1) /\ AllRead
      BY <1>1, <1>2 DEF Between
    <2> QED BY <1>2, <1>3, <2>1, <2>2 DEF Between, NothingFrom, AllRead
  <1>6. LastLeaves'
    BY <1>1, <1>2, <1>3 DEF LastLeaves, NothingFrom, AllRead
  <1>7. WholeLines'
    BY <1>1, <1>2, <1>3 DEF WholeLines
  <1>8. AtOnce'
    BY <1>2 DEF AtOnce, Before, Reading
  <1> QED BY <1>4, <1>5, <1>6, <1>7, <1>8

\* The other steps leave the texts and the parser alone.
LEMMA OtherStaying ==
    ASSUME ReaderInv, ReadInv, Staying,
           \/ NoLine \/ EnoughBytes \/ WorkerWaits \/ SpuriousWakeup \/ UNCHANGED vars
           \/ TakeFromNone \/ AtEnd \/ ReadMoved \/ LoadRow \/ RowThrows
    PROVE  Staying'
  <1>0. /\ UNCHANGED <<reader, chunk, feed_buffer, buffer, pos, file>>
        /\ row' = row \/ pc' # "body"
        /\ pc' = "body" => pc = "body"
    BY DEF NoLine, EnoughBytes, WorkerWaits, SpuriousWakeup, vars, TakeFromNone, AtEnd, ReadMoved, LoadRow,
           RowThrows, fileVars, readVars, threadVars, loopVars
  <1>1. /\ pc' \in Before \cup Reading => pc \in Before \cup Reading
        /\ Completed' <=> Completed
    BY DEF NoLine, EnoughBytes, WorkerWaits, SpuriousWakeup, vars, TakeFromNone, AtEnd, ReadMoved, LoadRow,
           RowThrows, fileVars, Before, Reading, Completed, Joined
  <1>2. Kept
    BY <1>0 DEF Kept
  <1> SUFFICES ASSUME OneBuffer \/ LinesTo PROVE (Unmoved /\ Between /\ LastLeaves /\ WholeLines /\ AtOnce)'
    <2>1. (OneBuffer' <=> OneBuffer) /\ (LinesTo' <=> LinesTo)
      BY <1>2, StayingSame
    <2> QED BY <2>1 DEF Staying
  <1>3. Unmoved /\ Between /\ LastLeaves /\ WholeLines /\ AtOnce
    BY DEF Staying
  <1>4. (LinesTo' <=> LinesTo) /\ Leaving' = Leaving /\ Ready(reader)' = Ready(reader)
    BY <1>0, <1>2, StayingSame DEF Ready
  <1>5. Unmoved'
    BY <1>0, <1>3 DEF Unmoved, NoneMoved
  <1>6. Between'
    BY <1>0, <1>1, <1>3, <1>4 DEF Between, NothingFrom, AllRead
  <1>7. LastLeaves'
    BY <1>0, <1>3, <1>4 DEF LastLeaves, NothingFrom, AllRead
  <1>8. WholeLines'
    BY <1>0, <1>3, <1>4 DEF WholeLines
  <1>9. AtOnce'
    BY <1>0, <1>1, <1>3, <1>4 DEF AtOnce
  <1> QED BY <1>5, <1>6, <1>7, <1>8, <1>9

\* The worker takes a text: behind one where a row may go on there is nothing.
LEMMA WorkerTakesStaying ==
    ASSUME ReaderInv, ReaderInv', ReadInv, Staying, WorkerTakes
    PROVE  Staying'
  <1>0. /\ UNCHANGED <<reader, buffer, pos, file, row, pc, infile>> /\ Kept /\ chunk = <<>>
        /\ feed_buffer # <<>> /\ feed_buffer' = Tail(feed_buffer) /\ chunk' = Head(feed_buffer).text
    BY DEF WorkerTakes, fileVars, readVars, loopVars, Kept, ReaderInv, Fed
  <1> SUFFICES ASSUME OneBuffer \/ LinesTo PROVE (Unmoved /\ Between /\ LastLeaves /\ WholeLines /\ AtOnce)'
    <2>1. (OneBuffer' <=> OneBuffer) /\ (LinesTo' <=> LinesTo)
      BY <1>0, StayingSame
    <2> QED BY <2>1 DEF Staying
  <1>1. Unmoved /\ Between /\ LastLeaves /\ WholeLines /\ AtOnce
    BY DEF Staying
  <1>2. /\ (LinesTo' <=> LinesTo) /\ Leaving' = Leaving
        /\ Ready(reader)' = Ready(reader) /\ (Completed' <=> Completed)
    BY <1>0, StayingSame DEF Ready, Completed
  <1>3. PICK n \in Nat :
            /\ Len(feed_buffer) = n + 1 /\ Len(feed_buffer') = n
            /\ chunk' = feed_buffer[1].text
            /\ \A k \in 1 .. n : feed_buffer'[k] = feed_buffer[k + 1]
    <2>1. feed_buffer \in Seq(WorkItem)
      BY DEF ReaderInv, Typing
    <2>2. /\ Len(feed_buffer) - 1 \in Nat /\ Len(feed_buffer) = (Len(feed_buffer) - 1) + 1
          /\ Len(feed_buffer') = Len(feed_buffer) - 1
          /\ chunk' = feed_buffer[1].text
          /\ \A k \in 1 .. Len(feed_buffer) - 1 : feed_buffer'[k] = feed_buffer[k + 1]
      BY <1>0, <2>1, HeadTailProperties
    <2> QED BY <2>2
  <1>4. ASSUME NEW j \in Nat, NothingFrom(feed_buffer, j + 2), AllRead
        PROVE  NothingFrom(feed_buffer, j + 1)' /\ AllRead'
    <2>1. ASSUME NEW k \in j + 1 .. n PROVE feed_buffer'[k].text = <<>>
      <3>1. k \in 1 .. n /\ k + 1 \in j + 2 .. n + 1
        OBVIOUS
      <3> QED BY <1>3, <1>4, <3>1 DEF NothingFrom
    <2> QED BY <1>0, <1>3, <1>4, <2>1 DEF NothingFrom, AllRead
  <1>5. Unmoved'
    BY <1>0, <1>1 DEF Unmoved, NoneMoved
  <1>6. Between'
    <2> SUFFICES ASSUME ~Completed PROVE Between'
      BY <1>2 DEF Between
    <2>1. /\ reader.record_buffer.current_end = 0 /\ (LinesTo => Ready(reader))
          /\ reader.record_buffer.text # <<>> => NothingFrom(feed_buffer, 1) /\ AllRead
      BY <1>1 DEF Between
    <2>2. ASSUME reader.record_buffer.text # <<>>
          PROVE  chunk' = <<>> /\ NothingFrom(feed_buffer, 1)' /\ AllRead'
      <3>1. chunk' = <<>> /\ NothingFrom(feed_buffer, 0 + 2) /\ AllRead
        <4>1. 1 \in 1 .. n + 1 /\ \A k \in 0 + 2 .. n + 1 : k \in 1 .. n + 1
          OBVIOUS
        <4> QED BY <1>3, <2>1, <2>2, <4>1 DEF NothingFrom
      <3>2. NothingFrom(feed_buffer, 0 + 1)' /\ AllRead'
        BY <1>4, <3>1
      <3> QED BY <3>1, <3>2 DEF NothingFrom
    <2> QED BY <1>0, <1>2, <2>1, <2>2 DEF Between
  <1>7. LastLeaves'
    <2>1. ASSUME NEW k \in 1 .. n + 1, feed_buffer[k].text \in Leaving
          PROVE  NothingFrom(feed_buffer, k)' /\ AllRead'
      <3>1. NothingFrom(feed_buffer, (k - 1) + 2) /\ AllRead
        <4>1. NothingFrom(feed_buffer, k + 1) /\ AllRead /\ (k - 1) + 2 = k + 1
          BY <1>1, <1>3, <2>1 DEF LastLeaves
        <4> QED BY <4>1
      <3>2. k - 1 \in Nat /\ (k - 1) + 1 = k
        OBVIOUS
      <3>3. NothingFrom(feed_buffer, (k - 1) + 1)' /\ AllRead'
        BY <1>4, <3>1, <3>2
      <3> QED BY <3>2, <3>3 DEF NothingFrom
    <2>2. chunk' \in Leaving => NothingFrom(feed_buffer, 1)' /\ AllRead'
      <3>1. 1 \in 1 .. n + 1
        OBVIOUS
      <3> QED BY <1>3, <2>1, <3>1
    <2>3. ASSUME NEW k \in 1 .. n, feed_buffer'[k].text \in Leaving
          PROVE  NothingFrom(feed_buffer, k + 1)' /\ AllRead'
      <3>1. k + 1 \in 1 .. n + 1
        OBVIOUS
      <3>2. NothingFrom(feed_buffer, k + 1)' /\ AllRead'
        <4>1. feed_buffer[k + 1].text \in Leaving
          BY <1>3, <2>3
        <4> QED BY <2>1, <3>1, <4>1
      <3> QED BY <3>2
    <2> QED BY <1>2, <1>3, <2>2, <2>3 DEF LastLeaves
  <1>8. WholeLines'
    <2> SUFFICES ASSUME LinesTo PROVE WholeLines'
      BY <1>2 DEF WholeLines
    <2>1. \A k \in 1 .. n + 1 : GoodText(feed_buffer[k].text, reader.delimiter)
      BY <1>1, <1>3 DEF WholeLines
    <2>2. 1 \in 1 .. n + 1 /\ \A k \in 1 .. n : k + 1 \in 1 .. n + 1
      OBVIOUS
    <2>3. GoodText(chunk', reader.delimiter)
          /\ \A k \in 1 .. n : GoodText(feed_buffer'[k].text, reader.delimiter)
      BY <1>3, <2>1, <2>2
    <2> QED BY <1>0, <1>1, <1>2, <1>3, <2>3 DEF WholeLines
  <1>9. AtOnce'
    BY <1>0, <1>1, <1>2 DEF AtOnce
  <1> QED BY <1>5, <1>6, <1>7, <1>8, <1>9

\* A feed starts a buffer of its own, unless it is of nothing: nothing moves.
LEMMA WorkerFeedsStaying ==
    ASSUME ReaderInv, ReaderInv', ReadInv, Staying, WorkerFeeds
    PROVE  Staying'
  <1>0. /\ UNCHANGED <<feed_buffer, buffer, pos, file, row, pc, infile>> /\ chunk' = <<>>
        /\ reader' = Feed(reader, chunk) /\ IsReader(reader) /\ chunk \in Seq(STRING)
    BY DEF WorkerFeeds, fileVars, readVars, loopVars, ReadInv, Parsing
  <1>1. SameFormat(reader', reader)
    BY <1>0, FeedFormat
  <1>2. Kept
    BY <1>0, <1>1 DEF SameFormat, Kept
  <1> SUFFICES ASSUME OneBuffer \/ LinesTo PROVE (Unmoved /\ Between /\ LastLeaves /\ WholeLines /\ AtOnce)'
    <2>1. (OneBuffer' <=> OneBuffer) /\ (LinesTo' <=> LinesTo)
      BY <1>2, StayingSame
    <2> QED BY <2>1 DEF Staying
  <1>3. Unmoved /\ Between /\ LastLeaves /\ WholeLines /\ AtOnce
    BY DEF Staying
  <1>4. (LinesTo' <=> LinesTo) /\ Leaving' = Leaving /\ reader'.delimiter = reader.delimiter
    BY <1>2, StayingSame
  <1>5. pc \in Reading \cup {"join"} /\ ~Completed
    BY DEF WorkerFeeds, ReaderInv, Typing, Protocol, Alive, Before, Joined, Reading, Completed
  <1>6. /\ reader.record_buffer.current_end = 0 /\ (LinesTo => Ready(reader))
        /\ reader.record_buffer.text # <<>> => chunk = <<>> /\ NothingFrom(feed_buffer, 1) /\ AllRead
    BY <1>3, <1>5 DEF Between
  <1>7. chunk = <<>> => /\ reader'.record_buffer.text = reader.record_buffer.text
                        /\ Ready(reader) => Ready(reader')
    <2> SUFFICES ASSUME chunk = <<>>
                 PROVE  /\ reader'.record_buffer.text = reader.record_buffer.text
                        /\ Ready(reader) => Ready(reader')
      OBVIOUS
    <2>1. Same(reader, reader, 0)
      BY <1>0, SameSelf
    <2>2. Same(reader', reader, 0)
      BY <1>0, <2>1, FeedOfNothing
    <2> QED BY <2>2 DEF Same, SameFormat, SameRow, Ready
  <1>8. LinesTo /\ chunk # <<>> =>
            Ready(reader') /\ (reader'.record_buffer.text # <<>> => chunk \in Leaving)
    <2> SUFFICES ASSUME LinesTo, chunk # <<>>
                 PROVE  Ready(reader') /\ (reader'.record_buffer.text # <<>> => chunk \in Leaving)
      OBVIOUS
    <2>1. /\ reader.quote_char = Quote /\ Ready(reader) /\ reader.record_buffer.text = <<>>
          /\ Lines(chunk, reader.delimiter) /\ Quote \notin ToSet(chunk)
      BY <1>3, <1>6 DEF Unmoved, WholeLines, GoodText
    <2>2. reader.delimiter \notin Newlines
      BY SplitLines DEF ReaderInv
    <2>3. /\ Ready(Feed(reader, chunk))
          /\ chunk[Len(chunk)] \in Newlines => Feed(reader, chunk).record_buffer.text = <<>>
      BY <1>0, <2>1, <2>2, LinesTaken
    <2> QED BY <1>0, <2>3 DEF Leaving
  <1>9. reader'.record_buffer.current_end = 0
    BY <1>0, FeedEnds
  <1>10. Unmoved'
    <2>1. NoneMoved(reader) /\ reader.quote_char = Quote /\ (chunk # <<>> => Fresh(reader))
      BY <1>3, <1>6 DEF Unmoved, Fresh
    <2>2. NoneMoved(reader')
      BY <1>0, <2>1, FeedStays
    <2> QED BY <1>0, <1>1, <1>5, <2>1, <2>2 DEF Unmoved, SameFormat, Reading
  <1>11. Between'
    <2>1. LinesTo => Ready(reader')
      BY <1>6, <1>7, <1>8
    <2>2. ASSUME reader'.record_buffer.text # <<>> PROVE NothingFrom(feed_buffer, 1) /\ AllRead
      <3>1. CASE chunk = <<>>
        BY <1>6, <1>7, <2>2, <3>1
      <3>2. CASE chunk # <<>>
        <4>1. chunk \in Leaving
          BY <1>0, <1>8, <2>2, <3>2 DEF Leaving
        <4> QED BY <1>3, <4>1 DEF LastLeaves
      <3> QED BY <3>1, <3>2
    <2>3. LinesTo' => Ready(reader)'
      BY <1>4, <2>1 DEF Ready
    <2> QED BY <1>0, <1>9, <2>2, <2>3 DEF Between, NothingFrom, AllRead
  <1>12. LastLeaves'
    BY <1>0, <1>3, <1>4, NothingIsGood DEF LastLeaves, NothingFrom, AllRead
  <1>13. WholeLines'
    BY <1>0, <1>3, <1>4, NothingIsGood DEF WholeLines
  <1>14. AtOnce'
    <2> SUFFICES ASSUME ~LinesTo, pc \in Before \cup Reading PROVE AtOnce'
      BY <1>0, <1>4 DEF AtOnce
    <2>1. feed_buffer = <<>> /\ chunk = <<>> /\ reader.record_buffer.text = <<>>
      BY <1>3 DEF AtOnce
    <2> QED BY <1>0, <1>7, <2>1 DEF AtOnce
  <1> QED BY <1>10, <1>11, <1>12, <1>13, <1>14

\* A row is taken as it is.
LEMMA TakeRowStaying ==
    ASSUME ReaderInv, ReadInv, Staying, TakeRow
    PROVE  Staying'
  <1>0. /\ UNCHANGED <<feed_buffer, chunk, buffer, pos, file, infile>> /\ pc \in Joined /\ pc' = "body"
        /\ IsReader(reader) /\ reader.records # <<>>
        /\ row' = Head(reader.records) /\ reader' = [reader EXCEPT !.records = Tail(@)]
    BY DEF TakeRow, fileVars, readVars, threadVars, ReadInv, Parsing, Joined
  <1>1. /\ SameFormat(reader', reader) /\ reader'.record_buffer = reader.record_buffer
        /\ Len(reader'.records) = Len(reader.records) - 1
        /\ \A k \in 1 .. Len(reader.records) - 1 : reader'.records[k] = reader.records[k + 1]
        /\ \A u, t : t \in Nat /\ Same(reader, u, t) => Same(reader', u, t + 1)
        /\ IsReader(reader')
    BY <1>0, TakeSame
  <1>2. Ready(reader') <=> Ready(reader)
    <2>1. Same(reader, reader, 0)
      BY <1>0, SameSelf
    <2>2. Same(reader', reader, 0 + 1)
      BY <1>1, <2>1
    <2> QED BY <2>2 DEF Same, SameFormat, Ready
  <1>3. Kept
    BY <1>0, <1>1 DEF SameFormat, Kept
  <1> SUFFICES ASSUME OneBuffer \/ LinesTo PROVE (Unmoved /\ Between /\ LastLeaves /\ WholeLines /\ AtOnce)'
    <2>1. (OneBuffer' <=> OneBuffer) /\ (LinesTo' <=> LinesTo)
      BY <1>3, StayingSame
    <2> QED BY <2>1 DEF Staying
  <1>4. Unmoved /\ Between /\ LastLeaves /\ WholeLines
    BY DEF Staying
  <1>5. /\ (LinesTo' <=> LinesTo) /\ Leaving' = Leaving /\ reader'.delimiter = reader.delimiter
        /\ Completed' <=> Completed
    BY <1>0, <1>3, StayingSame DEF Completed, Joined
  <1>6. Unmoved'
    <2>1. reader.records \in Seq(RowView) /\ reader'.records \in Seq(RowView)
      BY <1>0, <1>1 DEF IsReader
    <2>2. Len(reader.records) \in Nat \ {0} /\ Head(reader.records) = reader.records[1]
      BY <1>0, <2>1
    <2>3. ~row'.moved
      BY <1>0, <1>4, <2>1, <2>2 DEF Unmoved, NoneMoved
    <2>4. NoneMoved(reader')
      <3> SUFFICES ASSUME NEW k \in 1 .. Len(reader.records) - 1 PROVE ~reader'.records[k].moved
        BY <1>1, <2>1 DEF NoneMoved
      <3>1. k + 1 \in DOMAIN reader.records
        BY <2>1, <2>2
      <3> QED BY <1>1, <1>4, <3>1 DEF Unmoved, NoneMoved
    <2> QED BY <1>1, <1>4, <2>3, <2>4 DEF Unmoved, SameFormat
  <1>7. Between'
    <2>1. Ready(reader)' <=> Ready(reader)
      BY <1>2 DEF Ready
    <2> QED BY <1>0, <1>1, <1>4, <1>5, <2>1 DEF Between, NothingFrom, AllRead
  <1>8. LastLeaves'
    BY <1>0, <1>4, <1>5 DEF LastLeaves, NothingFrom, AllRead
  <1>9. WholeLines'
    BY <1>0, <1>4, <1>5 DEF WholeLines
  <1>10. AtOnce'
    BY <1>0 DEF AtOnce, Before, Reading
  <1> QED BY <1>6, <1>7, <1>8, <1>9, <1>10

\* A second read starts only behind whole lines.
LEMMA ReadMoreStaying ==
    ASSUME ReaderInv, ReadInv, Staying, ReadMore
    PROVE  Staying'
  <1>0. /\ UNCHANGED <<feed_buffer, chunk, pos, file, infile, reader>> /\ pc' = "read" /\ pc = "next"
        /\ buffer = <<>> /\ buffer' = <<>> /\ ~OneBuffer /\ infile
    BY DEF ReadMore, StartReading, fileVars, loopVars, ReadInv, ReadTo, InOneRead, Joined
  <1>1. Kept
    BY <1>0 DEF Kept
  <1> SUFFICES ASSUME LinesTo PROVE (Unmoved /\ Between /\ LastLeaves /\ WholeLines /\ AtOnce)'
    <2>1. (OneBuffer' <=> OneBuffer) /\ (LinesTo' <=> LinesTo)
      BY <1>1, StayingSame
    <2> QED BY <1>0, <2>1 DEF Staying
  <1>2. Unmoved /\ Between /\ LastLeaves /\ WholeLines
    BY DEF Staying
  <1>3. /\ LinesTo' /\ Leaving' = Leaving /\ Ready(reader)' = Ready(reader)
        /\ ~Completed /\ ~Completed'
    BY <1>0, <1>1, StayingSame DEF Completed, Joined, Ready
  <1>4. Unmoved'
    BY <1>0, <1>2 DEF Unmoved, NoneMoved
  <1>5. Between'
    BY <1>0, <1>2, <1>3 DEF Between, NothingFrom, AllRead
  <1>6. LastLeaves'
    BY <1>0, <1>2, <1>3 DEF LastLeaves, NothingFrom, AllRead
  <1>7. WholeLines'
    BY <1>0, <1>2, <1>3 DEF WholeLines
  <1>8. AtOnce'
    BY <1>3 DEF AtOnce
  <1> QED BY <1>4, <1>5, <1>6, <1>7, <1>8

\* No step breaks it,
LEMMA StayingStep ==
    ASSUME ReaderInv, ReaderInv', ReadInv, ReadInv', Staying, [Next]_vars
    PROVE  Staying'
  BY OpeningStaying, GetLineStaying, HandOverStaying, JoinStaying, OtherStaying, WorkerTakesStaying,
     WorkerFeedsStaying, TakeRowStaying, ReadMoreStaying DEF Next, MainStep, WorkerStep

\* so it always holds.
LEMMA StayingInvariant == Spec => []Staying
  BY InitStaying, StayingStep, ReaderInvariant, ReadInvariant, PTL DEF Spec

\* The rows that wait in the queue, and the one of the loop, keep the text they view:
\* what feed() reserves is enough (csv.hpp:4724, 5610-5621).
THEOREM RowsStayAlways == Spec => []RowsStay
  <1>1. Staying => RowsStay
    BY DEF Staying, RowsStay, LinesTo, Unmoved, NoneMoved
  <1> QED BY <1>1, StayingInvariant, PTL

--------------------------------------------------------------------------------
(* Loading a table implements what CostTable promises. *)

\* Rows are never lost again on the way.
LEMMA RecordsGrow ==
    ASSUME Typing, NEW p \in 0 .. Len(file.content), NEW n \in p .. Len(file.content)
    PROVE  /\ Len(ParsedUpTo(p).records) \in Nat /\ Len(ParsedUpTo(n).records) \in Nat
           /\ Len(ParsedUpTo(p).records) <= Len(ParsedUpTo(n).records)
  <1> DEFINE W == Whole(file.content, StartReader)
             m == Len(file.content)
  <1>1. file.content \in Seq(STRING) /\ m \in Nat /\ n \in 0 .. m
    BY Content
  <1>2. /\ Steps(W, file.content) /\ Same(W[0].r, StartReader, 0)
        /\ \A i \in 0 .. m : IsState(W[i])
    BY <1>1, WholeRun, StartTyped
  <1> HIDE DEF W
  <1>3. IsState(W[0]) /\ HeaderFirst(W[0].r)
    <2>1. IsState(W[0]) /\ W[0].r.records \in Seq(RowView)
      BY <1>1, <1>2 DEF IsState, IsReader
    <2>2. Len(StartReader.records) = 0 + Len(W[0].r.records) /\ Len(StartReader.records) = 0
      BY <1>2, StartTyped DEF Same
    <2>3. W[0].r.records = <<>>
      BY <2>1, <2>2
    <2> QED BY <2>1, <2>3 DEF HeaderFirst
  <1>4. Grows(W[p].r, W[n].r)
    <2>1. \A i \in p .. m : Grows(W[p].r, W[i].r) /\ HeaderFirst(W[i].r)
      BY <1>1, <1>2, <1>3, GrowsAlong
    <2> QED BY <1>1, <2>1
  <1>5. IsReader(ParsedUpTo(p)) /\ IsReader(ParsedUpTo(n))
    BY <1>1, AllTyped
  <1>6. Len(ParsedUpTo(p).records) \in Nat /\ Len(ParsedUpTo(n).records) \in Nat
    BY <1>5 DEF IsReader
  <1> QED BY <1>4, <1>6 DEF Grows, ParsedUpTo, W

\* At first there are none.
LEMMA NoRecordsAtStart ==
    ASSUME Typing
    PROVE  Len(ParsedUpTo(0).records) = 0
  <1> DEFINE W == Whole(file.content, StartReader)
  <1>1. file.content \in Seq(STRING)
    BY Content
  <1>2. Same(W[0].r, StartReader, 0) /\ Len(StartReader.records) = 0
    BY <1>1, WholeRun, StartTyped
  <1>3. IsReader(ParsedUpTo(0)) /\ Len(ParsedUpTo(0).records) \in Nat
    <2>1. 0 \in 0 .. Len(file.content)
      BY Content
    <2> QED BY <2>1, AllTyped DEF IsReader
  <1> QED BY <1>2, <1>3 DEF Same, ParsedUpTo

\* Where the read in progress has started: all rows that were complete there are loaded.
StartedAt(p) ==
    /\ p \in Nat /\ p + processed + Len(buffer) <= pos
    /\ Len(ParsedUpTo(p).records) = delivered
    /\ (bytes = FirstBytes /\ p = 0) \/ bytes = ChunkBytes
    /\ pc \in {"drain", "join", "take"} /\ ~feof => processed >= bytes

\* The inductive invariant of a read.
Bringing ==
    CutAnywhere /\ pc \in Reading \cup {"join", "take"} => \E p : StartedAt(p)

\* A read starts behind what the one before has read.
LEMMA StartBringing ==
    ASSUME ReaderInv, ReaderInv', ReadInv, ReadInv', Following, OpenFile \/ ReadMore
    PROVE  Bringing'
  <1>1. Kept /\ UNCHANGED <<pos, delivered, feof>> /\ processed' = 0 /\ buffer' = <<>> /\ pc' = "read"
    BY DEF OpenFile, ReadMore, StartReading, Kept, fileVars, loopVars
  <1>2. (CutAnywhere' <=> CutAnywhere) /\ \A n : ParsedUpTo(n)' = ParsedUpTo(n)
    BY <1>1, KeptSame
  <1>3. Typing /\ pos \in Nat /\ Len(buffer') = 0 /\ pos \in 0 .. Len(file.content) /\ delivered \in Nat
    BY <1>1, Content DEF ReaderInv, Typing
  <1> SUFFICES ASSUME CutAnywhere PROVE \E p : StartedAt(p)'
    BY <1>1, <1>2 DEF Bringing
  <1>4. CASE OpenFile
    <2>1. bytes' = FirstBytes /\ pc \in Before /\ delivered = 0
      BY <1>4 DEF OpenFile, StartReading, Before, ReadInv, ReadTo
    <2>2. Len(ParsedUpTo(0)'.records) = 0
      BY <1>2, <1>3, NoRecordsAtStart
    <2>3. StartedAt(0)'
      BY <1>1, <1>3, <2>1, <2>2 DEF StartedAt
    <2> QED BY <2>3
  <1>5. CASE ReadMore
    <2>1. bytes' = ChunkBytes /\ pc = "next" /\ reader.records = <<>> /\ infile
      BY <1>5 DEF ReadMore, StartReading
    <2>2. PICK f, q : Placing(f, q) /\ Followed(q)
      BY <2>1 DEF Following, Cuttable
    <2>3. q = pos
      <3>1. worker # "feeding" /\ feed_buffer = <<>> /\ buffer = <<>>
        BY <2>1 DEF ReaderInv, Protocol, Joined, ReadInv, ReadTo
      <3> QED BY <2>2, <3>1, NothingHeld
    <2>4. Same(reader, ParsedUpTo(pos), delivered)
      BY <1>3, <2>1, <2>2, <2>3 DEF Followed, Completed, Taken
    <2>5. Len(ParsedUpTo(pos).records) = delivered
      BY <1>3, <2>1, <2>4 DEF Same
    <2>6. PICK p : p = pos
      OBVIOUS
    <2>7. Len(ParsedUpTo(p)'.records) = delivered
      BY <1>2, <2>5, <2>6
    <2>8. StartedAt(p)'
      BY <1>1, <1>3, <2>1, <2>6, <2>7 DEF StartedAt
    <2> QED BY <2>8
  <1> QED BY <1>4, <1>5

\* Until its rows are taken it has started there.
LEMMA ReadBringing ==
    ASSUME ReaderInv, ReaderInv', ReadInv, ReadInv', Bringing,
           \/ GetLine \/ NoLine \/ EnoughBytes \/ Flush \/ Drain \/ Join
           \/ WorkerWaits \/ SpuriousWakeup \/ WorkerTakes \/ WorkerFeeds \/ UNCHANGED vars
    PROVE  Bringing'
  <1> USE DEF fileVars, readVars, threadVars, loopVars
  <1>1. Kept
    BY StepKeeps DEF Next, MainStep, WorkerStep, GetLine, NoLine, EnoughBytes, Flush, Drain, Join,
           WorkerWaits, SpuriousWakeup, WorkerTakes, WorkerFeeds, GuessFromHead, vars
  <1>2. (CutAnywhere' <=> CutAnywhere) /\ \A n : ParsedUpTo(n)' = ParsedUpTo(n)
    BY <1>1, KeptSame
  <1> SUFFICES ASSUME CutAnywhere, pc' \in Reading \cup {"join", "take"}
               PROVE  \E p : StartedAt(p)'
    BY <1>2 DEF Bringing
  <1>3. UNCHANGED <<bytes, delivered>> /\ pc \in Reading \cup {"join", "take"}
    BY DEF GetLine, NoLine, EnoughBytes, Flush, Drain, Join,
           WorkerWaits, SpuriousWakeup, WorkerTakes, WorkerFeeds, vars, Reading
  <1>4. PICK p : StartedAt(p)
    BY <1>3 DEF Bringing
  <1>5. p \in Nat /\ Len(ParsedUpTo(p)'.records) = delivered'
    BY <1>2, <1>3, <1>4 DEF StartedAt
  <1>6. /\ processed \in Nat /\ pos \in Nat /\ Len(buffer) \in Nat /\ bytes \in Nat
        /\ p + processed + Len(buffer) <= pos
    BY <1>4, Sizes DEF ReaderInv, Typing, StartedAt
  <1>7. p + processed' + Len(buffer') <= pos'
    <2>1. CASE GetLine
      <3>1. PICK n \in 1 .. Len(file.content) - pos :
                 buffer' = buffer \o SubSeq(file.content, pos + 1, pos + n) /\ pos' = pos + n
        BY <2>1 DEF GetLine
      <3>2. file.content \in Seq(STRING) /\ Len(file.content) \in Nat /\ pos \in 0 .. Len(file.content)
        BY Content DEF ReaderInv
      <3>3. n \in Nat /\ pos + n \in pos .. Len(file.content) /\ (pos + n) - pos = n
        BY <3>2
      <3>4. SubSeq(file.content, pos + 1, pos + n) \in Seq(STRING)
            /\ Len(SubSeq(file.content, pos + 1, pos + n)) = n
        BY <3>2, <3>3, PieceOf
      <3>5. Len(buffer') = Len(buffer) + n
        BY <3>1, <3>4 DEF ReaderInv, Typing
      <3>6. processed' = processed
        BY <2>1 DEF GetLine
      <3> QED BY <1>5, <1>6, <3>1, <3>3, <3>5, <3>6
    <2>2. CASE Flush
      <3>1. processed' = processed + Len(buffer) /\ Len(buffer') = 0 /\ pos' = pos
        BY <2>2 DEF Flush
      <3> QED BY <1>5, <1>6, <3>1
    <2>3. CASE Drain
      <3>1. processed' = processed /\ Len(buffer') = 0 /\ pos' = pos
        BY <2>3 DEF Drain
      <3> QED BY <1>5, <1>6, <3>1
    <2>4. CASE UNCHANGED <<processed, buffer, pos>>
      BY <1>6, <2>4
    <2> QED BY <2>1, <2>2, <2>3, <2>4 DEF NoLine, EnoughBytes, Join,
           WorkerWaits, SpuriousWakeup, WorkerTakes, WorkerFeeds, vars
  <1>8. pc' \in {"drain", "join", "take"} /\ ~feof' => processed' >= bytes
    <2>1. pc \in {"drain", "join", "take"} /\ ~feof => processed >= bytes
      BY <1>4 DEF StartedAt
    <2>2. CASE GetLine \/ Flush \/ NoLine
      BY <2>2 DEF GetLine, Flush, NoLine
    <2>3. CASE EnoughBytes
      BY <2>3 DEF EnoughBytes
    <2>4. CASE Drain \/ Join
      BY <2>1, <2>4 DEF Drain, Join
    <2>5. CASE UNCHANGED <<pc, feof, processed, bytes>>
      BY <2>1, <2>5
    <2> QED BY <2>2, <2>3, <2>4, <2>5 DEF WorkerWaits, SpuriousWakeup, WorkerTakes, WorkerFeeds, vars
  <1>9. (bytes' = FirstBytes /\ p = 0) \/ bytes' = ChunkBytes
    BY <1>3, <1>4 DEF StartedAt
  <1>10. StartedAt(p)'
    BY <1>3, <1>5, <1>7, <1>8, <1>9 DEF StartedAt
  <1> QED BY <1>10

\* No step breaks it,
LEMMA BringingStep ==
    ASSUME ReaderInv, ReaderInv', ReadInv, ReadInv', Following, Bringing, [Next]_vars
    PROVE  Bringing'
  <1>1. CASE \/ GuessFromHead \/ OpenFails \/ TakeRow \/ TakeFromNone \/ AtEnd \/ ReadMoved
             \/ LoadRow \/ RowThrows
    BY <1>1 DEF GuessFromHead, OpenFails, TakeRow, TakeFromNone, AtEnd, ReadMoved, LoadRow, RowThrows,
           Bringing, Reading
  <1> QED BY <1>1, StartBringing, ReadBringing DEF Next, MainStep, WorkerStep

\* so it always holds.
LEMMA BringingInvariant == Spec => []Bringing
  <1>1. Init => Bringing
    BY DEF Init, Bringing, Reading
  <1> QED BY <1>1, BringingStep, FollowingInvariant, ReaderInvariant, ReadInvariant, PTL DEF Spec

\* The row of the loop is one.
RowHeld == pc = "body" => row \in RowView

\* No step breaks it,
LEMMA RowHeldInvariant == Spec => []RowHeld
  <1>1. Init => RowHeld
    BY DEF Init, RowHeld
  <1>2. ASSUME ReadInv, RowHeld, [Next]_vars PROVE RowHeld'
    <2>1. CASE TakeRow
      <3>1. reader.records \in Seq(RowView) /\ reader.records # <<>> /\ row' = Head(reader.records)
        <4>1. IsReader(reader)
          BY <1>2 DEF ReadInv, Parsing
        <4> QED BY <2>1, <4>1 DEF TakeRow, IsReader
      <3>2. row' = reader.records[1] /\ 1 \in DOMAIN reader.records
        BY <3>1
      <3> QED BY <3>1, <3>2 DEF RowHeld
    <2>2. CASE ~TakeRow
      BY <1>2, <2>2 DEF RowHeld, Next, MainStep, WorkerStep, OpenFails, GuessFromHead, OpenFile, GetLine,
           NoLine, EnoughBytes, Flush, Drain, Join, TakeFromNone, ReadMore, AtEnd, ReadMoved,
           LoadRow, RowThrows, StartReading,
           WorkerWaits, SpuriousWakeup, WorkerTakes, WorkerFeeds, vars, loopVars
    <2> QED BY <2>1, <2>2
  <1> QED BY <1>1, <1>2, ReadInvariant, PTL DEF Spec

--------------------------------------------------------------------------------

\* Every read but the last one has a row that was not complete before.
ReadsBringRows ==
    LET rows(n) == Len(OneFeed(n).records)
        size == Len(file.content)
    IN  /\ FirstBytes <= size => rows(FirstBytes) > 0
        /\ \A n \in 0 .. size : n + ChunkBytes <= size => rows(n) < rows(n + ChunkBytes)

\* The size of a number without its sign.
Magnitude(n) == IF n < 0 THEN -n ELSE n

\* A field is the text of a cost: an integer, or what is none where the cost is one that
\* a CostTy does not hold.
Writes(field, cost) ==
    LET number == DataType(field)
    IN  /\ cost \in Int
        /\ \/ number.value = cost /\ number.type = DetermineIntegralType(Magnitude(cost))
           \/ number.type \in {CSV_NULL, CSV_STRING, CSV_DOUBLE} /\ cost \notin CostTy

\* The costs that a CostTy holds and get<CostTy> refuses (csv.hpp:3380).
Extremes == {-(IntMax[3] + 1), -IntMax[3], IntMax[3]}

\* The file says what its rows say to one feed of the whole, and none of its costs is an
\* extreme.
AsWritten ==
    LET whole == EndFeed(OneFeed(Len(file.content)))
        column(k, name) == Field(whole.records[k], ColPos(whole.col_names, name))
        columns == HasColumn(whole.col_names, OpcodeColumn) /\ HasColumn(whole.col_names, CostColumn)
    IN  /\ OneBuffer \/ (CutAnywhere /\ ReadsBringRows)
        /\ Len(whole.records) = Len(file.rows)
        /\ \A k \in 1 .. Len(file.rows) :
              /\ file.rows[k].cost \notin Extremes
              /\ columns => /\ file.rows[k].opcode = column(k, OpcodeColumn)
                            /\ Writes(column(k, CostColumn), file.rows[k].cost)
              /\ ~columns => file.rows[k].cost \notin CostTy

\* So it is with the format that is guessed, which is all the file is read with.
GuessedAsWritten == pc # "guess" => AsWritten

\* A number has the type of four bytes or a smaller one if it is below the largest value
\* of four bytes (csv.hpp:3370-3386).
LEMMA FitsFourBytes ==
    ASSUME NEW n \in Nat
    PROVE  IF n < IntMax[3] THEN DetermineIntegralType(n) \in 2 .. 4
                            ELSE DetermineIntegralType(n) \in {5, CSV_DOUBLE}
  <1> DEFINE fitting == {t \in IntTypes : n < IntMax[t - 1]}
  <1>1. /\ IntMax[1] \in Nat /\ IntMax[2] \in Nat /\ IntMax[3] \in Nat /\ IntMax[4] \in Nat
        /\ IntMax[1] < IntMax[2] /\ IntMax[2] < IntMax[3] /\ IntMax[3] < IntMax[4]
    BY IntMaxAssumption
  <1>2. \A t \in fitting : t \in IntTypes /\ n < IntMax[t - 1]
    OBVIOUS
  <1>3. \A t \in IntTypes : n < IntMax[t - 1] => t \in fitting
    OBVIOUS
  <1>4. IntTypes = {2, 3, 4, 5}
    BY DEF IntTypes
  <1>5. DetermineIntegralType(n) = IF fitting = {} THEN CSV_DOUBLE ELSE Min(fitting)
    BY DEF DetermineIntegralType
  <1> HIDE DEF fitting
  <1>6. fitting # {} => Min(fitting) \in fitting /\ \A t \in fitting : Min(fitting) <= t
    <2> SUFFICES ASSUME fitting # {} PROVE \E m \in fitting : \A t \in fitting : m <= t
      BY DEF Min
    <2>1. CASE 2 \in fitting
      BY <1>2, <1>4, <2>1
    <2>2. CASE 2 \notin fitting /\ 3 \in fitting
      BY <1>2, <1>4, <2>2
    <2>3. CASE 2 \notin fitting /\ 3 \notin fitting /\ 4 \in fitting
      BY <1>2, <1>4, <2>3
    <2>4. CASE 2 \notin fitting /\ 3 \notin fitting /\ 4 \notin fitting
      <3>1. 5 \in fitting
        BY <1>2, <1>4, <2>4
      <3> QED BY <1>2, <1>4, <2>4, <3>1
    <2> QED BY <2>1, <2>2, <2>3, <2>4
  <1>7. CASE n < IntMax[3]
    <2>1. 4 \in fitting
      BY <1>3, <1>4, <1>7
    <2>2. Min(fitting) \in IntTypes /\ Min(fitting) <= 4
      BY <1>2, <1>6, <2>1
    <2> QED BY <1>4, <1>5, <1>7, <2>1, <2>2
  <1>8. CASE ~(n < IntMax[3])
    <2>1. 2 \notin fitting /\ 3 \notin fitting /\ 4 \notin fitting
      BY <1>1, <1>2, <1>8
    <2>2. fitting # {} => Min(fitting) = 5
      BY <1>2, <1>4, <1>6, <2>1
    <2> QED BY <1>5, <1>8, <2>2 DEF CSV_DOUBLE
  <1> QED BY <1>7, <1>8

\* The text of a cost that is no extreme throws if and only if a CostTy does not hold it,
\* and is read as that cost otherwise (csv.hpp:3755-3773).
LEMMA ThrowsIfNotHeld ==
    ASSUME NEW field, NEW cost, cost \notin Extremes, Writes(field, cost)
    PROVE  /\ ~GetThrows(field) <=> cost \in CostTy
           /\ cost \in CostTy => Get(field) = cost
  <1>1. PICK number : number = DataType(field)
    OBVIOUS
  <1>2. PICK max : max = IntMax[3]
    OBVIOUS
  <1>3. max \in Nat /\ cost \in Int /\ cost # max /\ cost # -max /\ cost # -(max + 1)
    BY <1>2, IntMaxAssumption DEF Writes, Extremes
  <1>4. cost \in CostTy <=> Magnitude(cost) < max
    BY <1>2, <1>3 DEF CostTy, Magnitude
  <1>5. GetThrows(field) <=> number.type <= 1 \/ number.type = 6 \/ 4 < number.type
    BY <1>1 DEF GetThrows, TypeNum, IntTypeArr, CostBytes, CSV_STRING, CSV_DOUBLE, CSV_INT32
  <1>6. CASE number.value = cost /\ number.type = DetermineIntegralType(Magnitude(cost))
    <2>1. Magnitude(cost) \in Nat
      BY <1>3 DEF Magnitude
    <2>2. IF Magnitude(cost) < max THEN number.type \in 2 .. 4 ELSE number.type \in {5, 6}
      BY <1>2, <1>6, <2>1, FitsFourBytes DEF CSV_DOUBLE
    <2>3. GetThrows(field) <=> ~(Magnitude(cost) < max)
      BY <1>5, <2>2
    <2> QED BY <1>1, <1>4, <1>6, <2>3 DEF Get
  <1>7. CASE number.type \in {CSV_NULL, CSV_STRING, CSV_DOUBLE} /\ cost \notin CostTy
    BY <1>5, <1>7 DEF CSV_NULL, CSV_STRING, CSV_DOUBLE
  <1> QED BY <1>1, <1>6, <1>7 DEF Writes
\* The rows that have been written are those of one feed of the whole.
LEMMA RowsWritten ==
    ASSUME Typing, AsWritten
    PROVE  /\ Cuttable /\ Len(Rows) = Len(file.rows) /\ Len(Rows) \in Nat
           /\ \A k \in 1 .. Len(Rows) :
                 LET loads == /\ HasColumn(Names, OpcodeColumn) /\ HasColumn(Names, CostColumn)
                              /\ ~GetThrows(RowColumn(k, CostColumn))
                 IN  /\ loads <=> file.rows[k].cost \in CostTy
                     /\ loads => /\ file.rows[k].opcode = RowColumn(k, OpcodeColumn)
                                 /\ file.rows[k].cost = Get(RowColumn(k, CostColumn))
  <1> DEFINE whole == EndFeed(OneFeed(Len(file.content)))
             column(k, name) == Field(whole.records[k], ColPos(whole.col_names, name))
  <1>1. Cuttable
    BY DEF AsWritten, Cuttable
  <1>2. IsReader(whole) /\ Same(whole, ParsedAll, 0)
    <2>1. Len(file.content) \in 0 .. Len(file.content)
      BY Content
    <2>2. IsReader(OneFeed(Len(file.content))) /\ IsReader(ParsedUpTo(Len(file.content)))
          /\ Same(OneFeed(Len(file.content)), ParsedUpTo(Len(file.content)), 0)
      BY <2>1, OneFeedIsRun, AllTyped
    <2> QED BY <2>2, WriteRecordSame DEF EndFeed, ParsedAll
  <1>3. /\ Len(whole.records) = Len(file.rows)
        /\ \A k \in 1 .. Len(file.rows) :
              LET loads == /\ HasColumn(whole.col_names, OpcodeColumn)
                           /\ HasColumn(whole.col_names, CostColumn)
                           /\ ~GetThrows(column(k, CostColumn))
              IN  /\ loads <=> file.rows[k].cost \in CostTy
                  /\ loads => /\ file.rows[k].opcode = column(k, OpcodeColumn)
                              /\ file.rows[k].cost = Get(column(k, CostColumn))
    <2>1. ASSUME NEW k \in 1 .. Len(file.rows)
          PROVE  LET loads == /\ HasColumn(whole.col_names, OpcodeColumn)
                              /\ HasColumn(whole.col_names, CostColumn)
                              /\ ~GetThrows(column(k, CostColumn))
                 IN  /\ loads <=> file.rows[k].cost \in CostTy
                     /\ loads => /\ file.rows[k].opcode = column(k, OpcodeColumn)
                                 /\ file.rows[k].cost = Get(column(k, CostColumn))
      <3> DEFINE columns == /\ HasColumn(whole.col_names, OpcodeColumn)
                            /\ HasColumn(whole.col_names, CostColumn)
      <3>1. /\ file.rows[k].cost \notin Extremes
            /\ columns => /\ file.rows[k].opcode = column(k, OpcodeColumn)
                          /\ Writes(column(k, CostColumn), file.rows[k].cost)
            /\ ~columns => file.rows[k].cost \notin CostTy
        BY DEF AsWritten
      <3>2. columns => /\ ~GetThrows(column(k, CostColumn)) <=> file.rows[k].cost \in CostTy
                       /\ file.rows[k].cost \in CostTy => Get(column(k, CostColumn)) = file.rows[k].cost
        BY <3>1, ThrowsIfNotHeld
      <3> HIDE DEF whole, column
      <3> QED BY <3>1, <3>2
    <2>2. Len(whole.records) = Len(file.rows)
      BY DEF AsWritten
    <2> HIDE DEF whole, column
    <2> QED BY <2>1, <2>2
  <1> HIDE DEF whole
  <1>4. /\ Len(whole.records) = Len(Rows) /\ whole.col_names = Names /\ Len(Rows) \in Nat
        /\ \A k \in 1 .. Len(Rows) : SameRow(whole.records[k], Rows[k])
    <2>1. Len(whole.records) \in Nat /\ Len(Rows) = 0 + Len(whole.records)
      BY <1>2 DEF IsReader, Same, Rows
    <2> QED BY <1>2, <2>1 DEF Same, Rows, Names
  <1>5. \A k \in 1 .. Len(Rows) : \A name : column(k, name) = RowColumn(k, name)
    <2> SUFFICES ASSUME NEW k \in 1 .. Len(Rows), NEW name PROVE column(k, name) = RowColumn(k, name)
      OBVIOUS
    <2> QED BY <1>4, FieldSame DEF RowColumn
  <1> HIDE DEF column
  <1> QED BY <1>1, <1>3, <1>4, <1>5

\* The row in the body is the next one that has been written.
LEMMA BodyWritten ==
    ASSUME ReaderInv, Loading, AsWritten, pc = "body"
    PROVE  /\ delivered \in Nat /\ Len(file.rows) \in Nat /\ delivered < Len(file.rows)
           /\ RowLoads <=> file.rows[delivered + 1].cost \in CostTy
           /\ RowLoads => /\ file.rows[delivered + 1].opcode = Column(OpcodeColumn)
                          /\ file.rows[delivered + 1].cost = Get(Column(CostColumn))
  <1>1. Typing /\ delivered \in Nat
    BY DEF ReaderInv, Typing
  <1>2. Cuttable /\ Len(Rows) = Len(file.rows) /\ Len(Rows) \in Nat
    BY <1>1, RowsWritten
  <1>3. delivered + 1 <= Len(Rows) /\ SameRow(row, Rows[delivered + 1]) /\ reader.col_names = Names
    BY <1>2 DEF Loading, InBody
  <1>4. PICK n \in 1 .. Len(Rows) : n = delivered + 1
    BY <1>1, <1>2, <1>3
  <1>5. \A name : Column(name) = RowColumn(n, name)
    BY <1>3, <1>4, FieldSame DEF Column, RowColumn
  <1>6. LET loads == /\ HasColumn(Names, OpcodeColumn) /\ HasColumn(Names, CostColumn)
                     /\ ~GetThrows(RowColumn(n, CostColumn))
        IN  /\ loads <=> file.rows[n].cost \in CostTy
            /\ loads => /\ file.rows[n].opcode = RowColumn(n, OpcodeColumn)
                        /\ file.rows[n].cost = Get(RowColumn(n, CostColumn))
    BY <1>1, RowsWritten
  <1>7. RowLoads <=> /\ HasColumn(Names, OpcodeColumn) /\ HasColumn(Names, CostColumn)
                     /\ ~GetThrows(RowColumn(n, CostColumn))
    BY <1>3, <1>5 DEF RowLoads
  <1>8. /\ RowLoads <=> file.rows[delivered + 1].cost \in CostTy
        /\ RowLoads => /\ file.rows[delivered + 1].opcode = Column(OpcodeColumn)
                       /\ file.rows[delivered + 1].cost = Get(Column(CostColumn))
    BY <1>4, <1>5, <1>6, <1>7
  <1> QED BY <1>1, <1>2, <1>3, <1>8

\* There is always a row to take as long as one that has been written is left.
LEMMA NoneLeft ==
    ASSUME ReaderInv, ReadInv, Following, Bringing, AsWritten, TakeFromNone
    PROVE  delivered = Len(file.rows)
  <1>1. Typing /\ delivered \in Nat /\ pc = "take" /\ reader.records = <<>>
        /\ file.content \in Seq(STRING) /\ pos \in 0 .. Len(file.content) /\ Len(file.content) \in Nat
    BY Content DEF ReaderInv, Typing, TakeFromNone
  <1>2. Cuttable /\ Len(Rows) = Len(file.rows)
    BY <1>1, RowsWritten
  <1>3. PICK f, q : Placing(f, q) /\ Followed(q)
    BY <1>1, <1>2 DEF Following
  <1>4. q = pos
    <2>1. worker # "feeding" /\ feed_buffer = <<>> /\ buffer = <<>>
      BY <1>1 DEF ReaderInv, Protocol, Joined, ReadInv, ReadTo
    <2> QED BY <1>3, <2>1, NothingHeld
  <1>5. Same(reader, IF Completed THEN ParsedAll ELSE ParsedUpTo(pos), delivered)
    BY <1>1, <1>3, <1>4 DEF Followed, Taken
  <1>6. CASE Completed
    BY <1>1, <1>2, <1>5, <1>6 DEF Same, Rows
  <1>7. CASE ~Completed
    <2>1. infile /\ ~feof /\ CutAnywhere /\ ReadsBringRows
      <3>1. infile /\ ~feof
        BY <1>1, <1>7 DEF Completed, Joined, ReadInv, ReadTo
      <3>2. ~OneBuffer
        BY <1>1, <3>1 DEF ReadInv, InOneRead, Joined
      <3> QED BY <3>1, <3>2 DEF AsWritten
    <2>2. Len(ParsedUpTo(pos).records) = delivered
      BY <1>1, <1>5, <1>7 DEF Same
    <2>3. PICK p : StartedAt(p)
      BY <1>1, <2>1 DEF Bringing
    <2>4. PICK z : z = p + bytes
      OBVIOUS
    <2>5. bytes \in Nat /\ p \in Nat /\ z \in p .. pos /\ p \in 0 .. pos /\ z \in 0 .. Len(file.content)
      <3>1. bytes \in Nat /\ processed \in Nat /\ Len(buffer) \in Nat
        BY Sizes DEF ReaderInv, Typing
      <3>2. p \in Nat /\ p + processed + Len(buffer) <= pos /\ processed >= bytes
        BY <1>1, <2>1, <2>3 DEF StartedAt
      <3> QED BY <1>1, <2>4, <3>1, <3>2
    <2>6. p \in 0 .. Len(file.content) /\ z \in p .. Len(file.content) /\ pos \in z .. Len(file.content)
      BY <1>1, <2>5
    <2>7. /\ Len(ParsedUpTo(p).records) \in Nat /\ Len(ParsedUpTo(z).records) \in Nat
          /\ Len(ParsedUpTo(z).records) <= delivered
      BY <1>1, <2>2, <2>5, <2>6, RecordsGrow
    <2>8. \A n \in 0 .. Len(file.content) : Len(OneFeed(n).records) = Len(ParsedUpTo(n).records)
      <3> SUFFICES ASSUME NEW n \in 0 .. Len(file.content)
                   PROVE  Len(OneFeed(n).records) = Len(ParsedUpTo(n).records)
        OBVIOUS
      <3>1. IsReader(OneFeed(n)) /\ Same(OneFeed(n), ParsedUpTo(n), 0)
        BY <1>1, <2>1, OneFeedIsRun
      <3>2. Len(OneFeed(n).records) \in Nat /\ Len(ParsedUpTo(n).records) = 0 + Len(OneFeed(n).records)
        BY <3>1 DEF IsReader, Same
      <3> QED BY <3>2
    <2>9. Len(ParsedUpTo(p).records) = delivered
      BY <2>3 DEF StartedAt
    <2>10. CASE bytes = FirstBytes /\ p = 0
      <3>1. z = FirstBytes /\ z <= Len(file.content)
        BY <1>1, <2>4, <2>5, <2>10
      <3>2. Len(OneFeed(z).records) > 0
        BY <2>1, <3>1 DEF ReadsBringRows
      <3>3. Len(ParsedUpTo(z).records) > 0
        BY <2>5, <2>8, <3>2
      <3>4. delivered = 0
        BY <1>1, <2>9, <2>10, NoRecordsAtStart
      <3> QED BY <2>7, <3>3, <3>4
    <2>11. CASE bytes = ChunkBytes
      <3>1. z = p + ChunkBytes /\ z <= Len(file.content)
        BY <1>1, <2>4, <2>5, <2>11
      <3>2. Len(OneFeed(p).records) < Len(OneFeed(z).records)
        BY <2>1, <2>6, <3>1 DEF ReadsBringRows
      <3>3. Len(ParsedUpTo(p).records) < Len(ParsedUpTo(z).records)
        BY <2>5, <2>6, <2>8, <3>2
      <3> QED BY <1>1, <2>7, <2>9, <3>3
    <2> QED BY <2>3, <2>10, <2>11 DEF StartedAt
  <1> QED BY <1>6, <1>7

--------------------------------------------------------------------------------

\* How the loading stands.
Status == IF pc \in Ended /\ ~(pc = "undefined" /\ row # <<>> /\ row.moved) THEN pc ELSE "loading"

\* Every row that is loaded is the next one of those written.
LEMMA LoadsTable ==
    ASSUME ReaderInv, Loading, AsWritten, LoadRow
    PROVE  Table!Load
  <1>1. pc = "body" /\ RowLoads /\ pc' = "next" /\ UNCHANGED <<file, row>> /\ delivered' = delivered + 1
    BY DEF LoadRow
  <1>2. PICK w : w = file.rows[delivered + 1]
    OBVIOUS
  <1>3. /\ delivered < Len(file.rows) /\ w.cost \in CostTy
        /\ w.opcode = Column(OpcodeColumn) /\ w.cost = Get(Column(CostColumn))
    BY <1>1, <1>2, BodyWritten
  <1>4. costModel' = [opcode \in DOMAIN costModel \cup {w.opcode} |->
                         IF opcode = w.opcode THEN w.cost ELSE costModel[opcode]]
    BY <1>3 DEF LoadRow
  <1>5. Status = "loading" /\ Status' = "loading"
    BY <1>1 DEF Status, Ended
  <1> QED BY <1>1, <1>2, <1>3, <1>4, <1>5 DEF Table!Load, Status

\* A row that throws has a cost that cannot be held.
LEMMA RefusesRow ==
    ASSUME ReaderInv, Loading, AsWritten, RowThrows
    PROVE  Table!Refuse
  <1>1. /\ pc = "body" /\ ~RowLoads /\ pc' = "threw" /\ UNCHANGED <<file, delivered, costModel>>
    BY DEF RowThrows, loopVars
  <1>2. delivered < Len(file.rows) /\ file.rows[delivered + 1].cost \notin CostTy
    BY <1>1, BodyWritten
  <1>3. Status = "loading" /\ Status' = "threw"
    BY <1>1 DEF Status, Ended
  <1> QED BY <1>1, <1>2, <1>3 DEF Table!Refuse, Status

\* The loop ends with the last row that has been written.
LEMMA FinishesTable ==
    ASSUME ReaderInv, Loading', AsWritten, ReadInv, AtEnd
    PROVE  Table!Finish
  <1>1. pc = "next" /\ pc' = "done" /\ UNCHANGED <<file, delivered, costModel, reader>>
    BY DEF AtEnd, loopVars
  <1>2. Kept /\ Typing /\ Cuttable /\ Len(Rows) = Len(file.rows)
    BY <1>1, RowsWritten DEF ReaderInv, Kept
  <1>3. ParsedAll' = ParsedAll /\ Cuttable'
    BY <1>2, KeptSame
  <1>4. delivered' = Len(Rows')
    BY <1>1, <1>3 DEF Loading
  <1>5. delivered = Len(file.rows)
    BY <1>1, <1>2, <1>3, <1>4 DEF Rows
  <1>6. Status = "loading" /\ Status' = "done"
    BY <1>1 DEF Status, Ended
  <1> QED BY <1>1, <1>5, <1>6 DEF Table!Finish, Status

\* Every step is one of the table's or leaves it alone.
LEMMA StepImplements ==
    ASSUME ReaderInv, ReadInv, Following, Bringing, Loading, Loading', RowHeld, GuessedAsWritten,
           [Next]_vars
    PROVE  [Table!Next]_(Table!vars)
  <1>1. CASE LoadRow
    <2>1. AsWritten
      BY <1>1 DEF LoadRow, GuessedAsWritten
    <2> QED BY <1>1, <2>1, LoadsTable DEF Table!Next
  <1>2. CASE RowThrows
    <2>1. AsWritten
      BY <1>2 DEF RowThrows, GuessedAsWritten
    <2> QED BY <1>2, <2>1, RefusesRow DEF Table!Next
  <1>3. CASE AtEnd
    <2>1. AsWritten
      BY <1>3 DEF AtEnd, GuessedAsWritten
    <2> QED BY <1>3, <2>1, FinishesTable DEF Table!Next
  <1>4. CASE OpenFails
    <2>1. /\ pc \in {"guess", "fopen"} /\ pc' = "unopened" /\ delivered = 0
          /\ UNCHANGED <<file, delivered, costModel>>
      BY <1>4 DEF OpenFails, loopVars, ReadInv, ReadTo, Before
    <2>2. Status = "loading" /\ Status' = "unopened"
      BY <2>1 DEF Status, Ended
    <2> QED BY <2>1, <2>2 DEF Table!Next, Table!CannotOpen, Status
  <1>5. CASE TakeFromNone
    <2>1. pc = "take" /\ pc' = "undefined" /\ UNCHANGED <<file, delivered, costModel, row>> /\ AsWritten
      BY <1>5 DEF TakeFromNone, loopVars, GuessedAsWritten
    <2>2. delivered = Len(file.rows)
      BY <1>5, <2>1, NoneLeft
    <2>3. Status = "loading" /\ Status' \in {"undefined", "loading"}
      BY <2>1 DEF Status, Ended
    <2> QED BY <2>1, <2>2, <2>3 DEF Table!Next, Table!Finish, Table!vars, Status
  <1>6. CASE ReadMoved
    <2>1. /\ pc = "body" /\ row.moved /\ pc' = "undefined" /\ row' = row
          /\ UNCHANGED <<file, delivered, costModel>>
      BY <1>6 DEF ReadMoved, loopVars
    <2>2. row # <<>>
      BY <2>1 DEF RowHeld, RowView
    <2>3. Status = "loading" /\ Status' = "loading"
      BY <2>1, <2>2 DEF Status, Ended
    <2> QED BY <2>1, <2>3 DEF Table!vars, Status
  <1>7. CASE \/ GuessFromHead \/ OpenFile \/ GetLine \/ NoLine \/ EnoughBytes \/ Flush \/ Drain \/ Join
             \/ TakeRow \/ ReadMore
    <2>1. /\ pc \notin Ended /\ pc' \notin Ended /\ UNCHANGED <<file, delivered, costModel>>
      BY <1>7 DEF GuessFromHead, OpenFile, GetLine, NoLine, EnoughBytes, Flush, Drain, Join, TakeRow,
             ReadMore, StartReading, Ended, loopVars
    <2>2. Status = "loading" /\ Status' = "loading"
      BY <2>1 DEF Status
    <2> QED BY <2>1, <2>2 DEF Table!vars, Status
  <1>8. CASE WorkerStep \/ SpuriousWakeup \/ UNCHANGED vars
    <2>1. UNCHANGED <<file, delivered, costModel, pc, row>>
      BY <1>8 DEF WorkerStep, WorkerWaits, WorkerTakes, WorkerFeeds, SpuriousWakeup, vars, loopVars
    <2> QED BY <2>1 DEF Table!vars
  <1> QED BY <1>1, <1>2, <1>3, <1>4, <1>5, <1>6, <1>7, <1>8 DEF Next, MainStep

\* The reader implements the table: no row is lost, repeated or out of order across buffers
\* and reads, whatever their sizes and however the threads run, a cost is the one written
\* or refused, and no read beyond the rows happens while there are rows
\* (AssemblyCostModel.cpp:9-16, csv.hpp:4888-5014).
THEOREM CostTableImplemented == Spec /\ []GuessedAsWritten => ImplementsCostTable
  <1>1. Init => Table!Init
    BY DEF Init, Table!Init, Ended
  <1> QED BY <1>1, StepImplements, ReaderInvariant, ReadInvariant, FollowingInvariant, LoadingInvariant,
             BringingInvariant, RowHeldInvariant, PTL DEF Spec, ImplementsCostTable, Table!Spec

================================================================================
