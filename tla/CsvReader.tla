-------------------------------- MODULE CsvReader --------------------------------
(***************************************************************************)
(* The constructor of AssemblyCostModel (lib/AssemblyCostModel.cpp) over a *)
(* CSVReader: the main thread reads the file line by line into a buffer    *)
(* and hands full buffers to a worker thread that parses them; it joins    *)
(* the worker before it takes rows, and starts another one when the rows   *)
(* run out before the file does.                                           *)
(*                                                                         *)
(* What a thread does while it holds feed_lock is one step.                *)
(***************************************************************************)
EXTENDS CsvParser, CsvField

CONSTANTS
    Files,          \* the contents of files, each with the rows it was written from
    OpcodeColumn,   \* "Opcode" and "Cost" in the code
    CostColumn,
    PageSize,       \* fgets reads a character less at a time
    FirstBytes,     \* what the constructor reads, 500000
    ChunkBytes,     \* ITERATION_CHUNK_SIZE, 50000000: what read_row reads
    BufferMax,      \* the largest buffer, 1000000
    FlushNum,       \* a buffer filled to FlushNum / FlushDen, 0.9, is handed over
    FlushDen

ASSUME ReaderAssumption ==
    /\ {PageSize, FirstBytes, ChunkBytes, BufferMax} \subseteq Nat \ {0, 1}
    /\ FlushNum \in Nat /\ FlushDen \in Nat \ {0}
    /\ \A f \in Files : f.content \in Seq(STRING)

\* The largest buffer of a read of so many bytes.
BufferSize(n) == IF n < BufferMax THEN n ELSE BufferMax

\* The rest of a buffer that is not handed over yet has room for a page.
ASSUME BufferAssumption ==
    \A n \in {FirstBytes, ChunkBytes} :
        FlushNum * BufferSize(n) + FlushDen * PageSize <= FlushDen * BufferSize(n)

VARIABLES
    file,           \* which file this is; never changes
    pos,            \* characters of it that fgets has returned
    infile,         \* whether it is open
    feof,
    bytes,          \* read_csv: its argument, and what it has handed over
    processed,
    buffer,         \* read_csv: the characters not yet handed over
    feed_buffer,    \* the queue between the threads: texts, and at last Null
    worker,         \* "none", "running", "waiting" on feed_cond, "feeding", "dead"
    chunk,          \* the text the worker feeds
    reader,         \* the parser's state with the queue of rows
    row,            \* the row of the loop
    delivered,      \* history: how many rows the loop has taken in
    costModel,
    pc

fileVars == <<pos, infile, feof>>
readVars == <<bytes, processed, buffer>>
threadVars == <<feed_buffer, worker, chunk>>
loopVars == <<row, delivered, costModel>>

vars == <<file, fileVars, readVars, threadVars, reader, loopVars, pc>>

\* Work items; the one with a null pointer ends the worker.
Item(in) == [null |-> FALSE, text |-> in]
Null == [null |-> TRUE, text |-> <<>>]

Limit == BufferSize(bytes)

Init ==
    /\ file \in Files
    /\ pos = 0 /\ infile = FALSE /\ feof = FALSE
    /\ bytes = 0 /\ processed = 0 /\ buffer = <<>>
    /\ feed_buffer = <<>> /\ worker = "none" /\ chunk = <<>>
    /\ reader = Reader(DefaultFormat)
    /\ row = <<>> /\ delivered = 0 /\ costModel = <<>>
    /\ pc = "guess"

--------------------------------------------------------------------------------
(* The constructor of CSVReader. *)

\* get_csv_head and fopen throw when there is no such file.
OpenFails ==
    /\ pc \in {"guess", "fopen"}
    /\ pc' = "unopened"
    /\ UNCHANGED <<file, fileVars, readVars, threadVars, reader, loopVars>>

GuessFromHead ==
    /\ pc = "guess"
    /\ \E format \in (IF GuessesDelim(GUESS_CSV) THEN GuessFormat(file.content) ELSE {GUESS_CSV}) :
          reader' = Reader(format)
    /\ pc' = "fopen"
    /\ UNCHANGED <<file, fileVars, readVars, threadVars, loopVars>>

\* The entry of read_csv: a buffer of its own, and a new worker.
StartReading(n) ==
    /\ bytes' = n /\ processed' = 0 /\ buffer' = <<>>
    /\ worker' = "running"
    /\ pc' = "read"

OpenFile ==
    /\ pc = "fopen"
    /\ infile' = TRUE
    /\ StartReading(FirstBytes)
    /\ UNCHANGED <<file, pos, feof, feed_buffer, chunk, reader, loopVars>>

--------------------------------------------------------------------------------
(* read_csv on the main thread. *)

\* The length of what fgets returns next: up to the end of the line, of the page or
\* of the file.
LineLength ==
    LET left == 1 .. Len(file.content) - pos
    IN  Min({n \in left : file.content[pos + n] = "\n"}
            \cup {PageSize - 1, Len(file.content) - pos})

\* Mutant: the buffer is taken to be as large as the read.
FullLate(text) == FlushDen * Len(text) >= FlushNum * bytes

Full(text) == FlushDen * Len(text) >= FlushNum * Limit

GetLine ==
    /\ pc = "read" /\ processed < bytes /\ pos < Len(file.content)
    /\ \E n \in 1 .. Len(file.content) - pos :
          /\ n = LineLength
          /\ buffer' = buffer \o SubSeq(file.content, pos + 1, pos + n)
          /\ pos' = pos + n
          /\ feof' = (feof \/ (n < PageSize - 1 /\ file.content[pos + n] # "\n"))
    /\ pc' = IF Full(buffer') THEN "flush" ELSE "read"
    /\ UNCHANGED <<file, infile, bytes, processed, threadVars, reader, loopVars>>

\* fgets returns NULL.
NoLine ==
    /\ pc = "read" /\ processed < bytes /\ pos = Len(file.content)
    /\ feof' = TRUE
    /\ pc' = "drain"
    /\ UNCHANGED <<file, pos, infile, readVars, threadVars, reader, loopVars>>

EnoughBytes ==
    /\ pc = "read" /\ processed >= bytes
    /\ pc' = "drain"
    /\ UNCHANGED <<file, fileVars, readVars, threadVars, reader, loopVars>>

\* notify_one wakes the worker if it waits.
Notified == IF worker = "waiting" THEN "running" ELSE worker

Flush ==
    /\ pc = "flush"
    /\ feed_buffer' = Append(feed_buffer, Item(buffer))
    /\ processed' = processed + Len(buffer)
    /\ buffer' = <<>>
    /\ worker' = Notified
    /\ pc' = "read"
    /\ UNCHANGED <<file, fileVars, bytes, chunk, reader, loopVars>>

\* Mutant: the end goes into the queue before the rest.
DrainEndFirst ==
    /\ pc = "drain"
    /\ feed_buffer' = feed_buffer \o <<Null, Item(buffer)>>
    /\ buffer' = <<>>
    /\ worker' = Notified
    /\ pc' = "join"
    /\ UNCHANGED <<file, fileVars, bytes, processed, chunk, reader, loopVars>>

\* Mutant: the end is put in the queue without waking the worker.
DrainSilently ==
    /\ pc = "drain"
    /\ feed_buffer' = feed_buffer \o <<Item(buffer), Null>>
    /\ buffer' = <<>>
    /\ pc' = "join"
    /\ UNCHANGED <<file, fileVars, bytes, processed, worker, chunk, reader, loopVars>>

\* The rest of the buffer and the end go into the queue together.
Drain ==
    /\ pc = "drain"
    /\ feed_buffer' = feed_buffer \o <<Item(buffer), Null>>
    /\ buffer' = <<>>
    /\ worker' = Notified
    /\ pc' = "join"
    /\ UNCHANGED <<file, fileVars, bytes, processed, chunk, reader, loopVars>>

\* Mutant: the worker is detached, not joined.
JoinDetached ==
    /\ pc = "join"
    /\ reader' = IF feof THEN EndFeed(reader) ELSE reader
    /\ infile' = ~feof
    /\ pc' = "take"
    /\ UNCHANGED <<file, pos, feof, readVars, threadVars, loopVars>>

\* At the end of the file its last row is completed and the file closed.
Join ==
    /\ pc = "join" /\ worker = "dead"
    /\ reader' = IF feof THEN EndFeed(reader) ELSE reader
    /\ infile' = ~feof
    /\ pc' = "take"
    /\ UNCHANGED <<file, pos, feof, readVars, threadVars, loopVars>>

--------------------------------------------------------------------------------
(* read_csv_worker. *)

WorkerWaits ==
    /\ worker = "running" /\ feed_buffer = <<>>
    /\ worker' = "waiting"
    /\ UNCHANGED <<file, fileVars, readVars, feed_buffer, chunk, reader, loopVars, pc>>

\* A condition variable may wake its thread without a reason.
SpuriousWakeup ==
    /\ worker = "waiting"
    /\ worker' = "running"
    /\ UNCHANGED <<file, fileVars, readVars, feed_buffer, chunk, reader, loopVars, pc>>

\* Mutant: the newest text is taken first.
WorkerTakesNewest ==
    /\ worker = "running" /\ feed_buffer # <<>>
    /\ LET n == Len(feed_buffer)
           k == IF n > 1 /\ feed_buffer[n].null THEN n - 1 ELSE n
           in == feed_buffer[k]
       IN  /\ feed_buffer' = RemoveAt(feed_buffer, k)
           /\ worker' = IF in.null THEN "dead" ELSE "feeding"
           /\ chunk' = in.text
    /\ UNCHANGED <<file, fileVars, readVars, reader, loopVars, pc>>

WorkerTakes ==
    /\ worker = "running" /\ feed_buffer # <<>>
    /\ feed_buffer' = Tail(feed_buffer)
    /\ LET in == Head(feed_buffer)
       IN  /\ worker' = IF in.null THEN "dead" ELSE "feeding"
           /\ chunk' = in.text
    /\ UNCHANGED <<file, fileVars, readVars, reader, loopVars, pc>>

WorkerFeeds ==
    /\ worker = "feeding"
    /\ reader' = Feed(reader, chunk)
    /\ worker' = "running"
    /\ chunk' = <<>>
    /\ UNCHANGED <<file, fileVars, readVars, feed_buffer, loopVars, pc>>

--------------------------------------------------------------------------------
(* The loop over the rows: begin(), operator++ with read_row, and the body. *)

TakeRow ==
    /\ pc \in {"take", "next"} /\ reader.records # <<>>
    /\ row' = Head(reader.records)
    /\ reader' = [reader EXCEPT !.records = Tail(@)]
    /\ pc' = "body"
    /\ UNCHANGED <<file, fileVars, readVars, threadVars, delivered, costModel>>

\* begin() and read_row() take the first row after reading without looking if there
\* is one: the behaviour is undefined.
TakeFromNone ==
    /\ pc = "take" /\ reader.records = <<>>
    /\ pc' = "undefined"
    /\ UNCHANGED <<file, fileVars, readVars, threadVars, reader, loopVars>>

\* Mutant: the loop ends with the rows that have been read.
ReadNoMore ==
    /\ pc = "next" /\ reader.records = <<>> /\ infile
    /\ pc' = "done"
    /\ UNCHANGED <<file, fileVars, readVars, threadVars, reader, loopVars>>

ReadMore ==
    /\ pc = "next" /\ reader.records = <<>> /\ infile
    /\ StartReading(ChunkBytes)
    /\ UNCHANGED <<file, fileVars, feed_buffer, chunk, reader, loopVars>>

AtEnd ==
    /\ pc = "next" /\ reader.records = <<>> /\ ~infile
    /\ pc' = "done"
    /\ UNCHANGED <<file, fileVars, readVars, threadVars, reader, loopVars>>

Column(name) == Field(row, ColPos(reader.col_names, name))

\* What the row views is gone: the behaviour is undefined.
ReadMoved ==
    /\ pc = "body" /\ row.moved
    /\ pc' = "undefined"
    /\ UNCHANGED <<file, fileVars, readVars, threadVars, reader, loopVars>>

RowLoads ==
    /\ HasColumn(reader.col_names, OpcodeColumn)
    /\ HasColumn(reader.col_names, CostColumn)
    /\ ~GetThrows(Column(CostColumn))

\* Mutant: an opcode keeps the cost it has, as with insert.
LoadRowKeepsFirst ==
    /\ pc = "body" /\ ~row.moved /\ RowLoads
    /\ costModel' = [opcode \in DOMAIN costModel \cup {Column(OpcodeColumn)} |->
                        IF opcode \in DOMAIN costModel THEN costModel[opcode] ELSE Get(Column(CostColumn))]
    /\ delivered' = delivered + 1
    /\ pc' = "next"
    /\ UNCHANGED <<file, fileVars, readVars, threadVars, reader, row>>

LoadRow ==
    /\ pc = "body" /\ ~row.moved /\ RowLoads
    /\ costModel' = [opcode \in DOMAIN costModel \cup {Column(OpcodeColumn)} |->
                        IF opcode = Column(OpcodeColumn) THEN Get(Column(CostColumn)) ELSE costModel[opcode]]
    /\ delivered' = delivered + 1
    /\ pc' = "next"
    /\ UNCHANGED <<file, fileVars, readVars, threadVars, reader, row>>

RowThrows ==
    /\ pc = "body" /\ ~row.moved /\ ~RowLoads
    /\ pc' = "threw"
    /\ UNCHANGED <<file, fileVars, readVars, threadVars, reader, loopVars>>

--------------------------------------------------------------------------------

MainStep ==
    \/ GuessFromHead \/ OpenFile
    \/ GetLine \/ NoLine \/ EnoughBytes \/ Flush \/ Drain \/ Join
    \/ TakeRow \/ TakeFromNone \/ ReadMore \/ AtEnd \/ ReadMoved \/ LoadRow \/ RowThrows

WorkerStep == WorkerWaits \/ WorkerTakes \/ WorkerFeeds

Next == MainStep \/ OpenFails \/ WorkerStep \/ SpuriousWakeup

\* Both threads are scheduled; a wakeup without a reason need not come.
Spec == Init /\ [][Next]_vars /\ WF_vars(MainStep) /\ WF_vars(WorkerStep)

Ended == {"unopened", "undefined", "threw", "done"}

--------------------------------------------------------------------------------

CsvTypeOK ==
    /\ file \in Files
    /\ pos \in 0 .. Len(file.content)
    /\ infile \in BOOLEAN /\ feof \in BOOLEAN
    /\ bytes \in {0, FirstBytes, ChunkBytes} /\ processed \in 0 .. pos
    /\ Len(buffer) <= pos
    /\ \A k \in DOMAIN feed_buffer :
          feed_buffer[k].null <=> (pc = "join" /\ k = Len(feed_buffer))
    /\ worker \in {"none", "running", "waiting", "feeding", "dead"}
    /\ worker # "feeding" => chunk = <<>>
    /\ delivered \in Nat
    /\ pc \in {"guess", "fopen", "read", "flush", "drain", "join", "take", "body", "next"} \cup Ended

\* When fgets is called, a page fits behind the text already in the buffer
\* (csv.hpp:4921-4942).
BufferFits == pc = "read" /\ processed < bytes => Len(buffer) + PageSize <= Limit

\* The rows and the header are taken and looked at without a lock: by then the
\* worker is gone and nothing it would feed is left (csv.hpp:4954-4958, 4987-5014).
RowsUnshared ==
    pc \in {"take", "body", "next"} => worker = "dead" /\ feed_buffer = <<>>

\* "Incomplete CSV fragments can be joined together by calling feed() on them
\* sequentially" (csv.hpp:4709): when the worker has been joined, rows, row in
\* progress and header are those of one feed of everything read, wherever the
\* buffers were cut and however the threads ran.  It takes a text that goes into one
\* buffer, or one without quotes, blank lines and ends of lines of two characters that
\* a page may cut.
OneBuffer == FlushDen * Len(file.content) < FlushNum * Min({FirstBytes, BufferMax})

\* Every line, with its end, goes into one page.
LinesFitPages ==
    \A k \in 1 .. Len(file.content) - PageSize + 2 :
        \E j \in k .. k + PageSize - 2 : file.content[j] = "\n"

CutAnywhere ==
    LET newline(before) ==
            \E k \in DOMAIN file.content \ {1} : file.content[k - 1] = before /\ file.content[k] = "\n"
    IN  Quote \notin ToSet(file.content) /\ ~newline("\n") /\ (newline("\r") => LinesFitPages)

Newlines == {"\r", "\n"}

\* The parser's state behind one feed of the first n characters.
OneFeed(n) ==
    Feed([Reader(DefaultFormat) EXCEPT !.delimiter = reader.delimiter,
                                       !.header_row = reader.header_row],
         SubSeq(file.content, 1, n))

\* A reader without where its rows are kept.
Parsed(r) ==
    [r EXCEPT !.record_buffer = GetRow(@),
              !.records = [k \in DOMAIN @ |-> [@[k] EXCEPT !.moved = FALSE]]]

ParsedAsOneFeed ==
    pc \in {"take", "next"} /\ (OneBuffer \/ CutAnywhere) =>
        LET whole == IF infile THEN OneFeed(pos) ELSE EndFeed(OneFeed(pos))
        IN  Parsed(reader) = Parsed([whole EXCEPT !.records = SubSeq(@, delivered + 1, Len(@))])

\* Whatever the file holds, the table that is loaded from it is that of one feed of the
\* whole: its rows, each taken once and in their order, the last one of an opcode
\* winning, and all of them when the loop ends (AssemblyCostModel.cpp:9-16).
LoadedAsOneFeed ==
    pc \in {"threw", "done"} /\ (OneBuffer \/ CutAnywhere) =>
        LET whole == EndFeed(OneFeed(Len(file.content)))
            column(k, name) == Field(whole.records[k], ColPos(whole.col_names, name))
            rowsOf(opcode) == {k \in 1 .. delivered : column(k, OpcodeColumn) = opcode}
        IN  /\ delivered <= Len(whole.records) /\ (pc = "done" => delivered = Len(whole.records))
            /\ DOMAIN costModel = {column(k, OpcodeColumn) : k \in 1 .. delivered}
            /\ \A opcode \in DOMAIN costModel :
                  costModel[opcode] = Get(column(Max(rowsOf(opcode)), CostColumn))

\* Every line that is not empty has a delimiter, so that it is taken from the buffer at
\* its end whether its length is right or not; the first one is the header.
LinesSplit ==
    /\ reader.header_row = 0 /\ reader.delimiter \notin Newlines
    /\ \A k \in DOMAIN file.content \ {1} :
          file.content[k] \in Newlines =>
              \/ file.content[k - 1] \in Newlines
              \/ \E j \in 1 .. k - 1 :
                    /\ file.content[j] = reader.delimiter
                    /\ \A i \in j .. k - 1 : file.content[i] \notin Newlines

\* The rows of a buffer share one string, which grows while they wait in the queue:
\* what was reserved is enough for it to stay where it is, unless a row goes on behind
\* the end of a buffer, because it is cut there or because it was too short to be taken
\* (csv.hpp:4724, 4815, 4836-4860, 5610-5621).
RowsStay ==
    OneBuffer \/ (Quote \notin ToSet(file.content) /\ LinesFitPages /\ LinesSplit) =>
        /\ \A k \in DOMAIN reader.records : ~reader.records[k].moved
        /\ pc = "body" => ~row.moved

\* Loading a written table, row by row, is what CostTable promises: no row is lost,
\* repeated or out of order across buffers and reads, a cost is exactly the one written,
\* or refused when a CostTy does not hold it, and the read past the end that is
\* undefined never happens while there are rows (AssemblyCostModel.cpp:9-16).  From a
\* row on whose text has moved nothing is promised.
Table == INSTANCE CostTable WITH
    rows <- file.rows,
    loaded <- delivered,
    Loadable <- CostTy,
    status <- IF pc \in Ended /\ ~(pc = "undefined" /\ row # <<>> /\ row.moved) THEN pc
              ELSE "loading"

ImplementsCostTable == Table!Spec

\* The constructor comes to an end: neither thread waits for the other for ever
\* (csv.hpp:4865-4884, 4948-4954).
ReaderTerminates == <>(pc \in Ended)

\* "rows that are too short or too long are dropped" (csv.hpp:4036): what is in
\* the table comes from rows of the right length.
WrongLengthIsDropped ==
    \A opcode \in DOMAIN costModel :
        \E k \in DOMAIN file.rows :
            file.rows[k].opcode = opcode /\ file.rows[k].cost = costModel[opcode]

\* An integer is too large only for "a smaller type that will not hold it"
\* (csv.hpp:3738): a row of two columns, as written, is refused only when its cost is
\* beyond a CostTy.
HeldCostsLoad ==
    pc = "threw" /\ delivered < Len(file.rows) => file.rows[delivered + 1].cost \notin CostTy

================================================================================
