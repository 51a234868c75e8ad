# gpscat in TLA+

gpscat infers an upper bound of the cost of running a program, as a function of
the program's inputs, from the cost of the *assembly* its LLVM IR is compiled
to. This directory holds TLA+ modules that model it, TLC configurations that
check them on small instances, and TLAPS proofs: of the whole chain from the
IR module to the ticks, of the reader of the cost model's file, of the driver and of
the score. Line numbers below are those of the files under `src/`.

## 1. The system

### 1.1 How a bound is computed

`gpscat-cost` (`tools/gpscat-cost.cpp`) runs one stage after the other:

1. read the IR module and the cost model, a CSV file of opcodes and prices;
2. `IRLocator`: strip the module's debug information and give every LLVM
   instruction a source line of its own (debugify);
3. write the module out and have `llc` compile it; its `.loc` directives now say
   which assembly comes from which LLVM instruction;
4. `MappingExtractor`: read the assembly back, and invert the lines;
5. `IRCostCalculator`: add up prices per instruction and per basic block;
6. `CoFloCoWrapper::cost2tick`: put a call `tick(cost)` at the end of every block;
7. `CoFloCoWrapper`: hand the module to `llvm2kittel`, `koat2cfg.pl`,
   `cfg2ces.pl` and `cofloco`, and parse the bound out of the last one's output;
8. print the bound, maybe rewritten for SymEngine, and remove temporary files.

The stages share no memory but the module; what couples them is an unwritten
contract on *line numbers*. Locations have to be one to one when `llc` starts,
its emission has to follow them, and the module must still have the same numbers
when the assembly is read back. No stage checks what the one before it did.

`gpscat-score` takes a bound and intervals for its parameters and integrates it
to a mean. `experiments/LessIsMore/run.py` pipes programs through `opt`,
`gpscat-cost` and `gpscat-score`.

### 1.2 Inventory

| component | state | operations | module |
|---|---|---|---|
| `IRLocator` (`lib/IRLocator.cpp`) | the module | `run`: strip, debugify, erase intrinsics | `IRLocator` |
| Debugify, apply (`lib/opt/Debugify.cpp:59-167`) | `NextLine`, `NextVar`, the list it walks and inserts into | `applyDebugifyMetadata` | `IRLocator` |
| Debugify, check, statistics and wrappers (`lib/opt/Debugify.cpp:173-423`) | `MissingLines`, `MissingVars`, the statistics | `checkDebugifyMetadata`, the module and function passes, `exportDebugifyStats` | `DebugifyCheck` |
| `AssemblyCostModel` | opcode to `int32_t` price | `get` (throws), `hasInst` | `AssemblyCostModel` |
| its construction (`lib/AssemblyCostModel.cpp:9-16`) | the table loaded so far | the loop over the rows of the file | `CsvReader`; what it promises: `CostTable` |
| csv-parser, parser and guesser | the string rows share, row deque, header | `feed`, `write_record`, `end_feed`, `GuessFormat` | `RawRowBuffer`, `CsvParser` |
| csv-parser, values | none | `data_type`, `get<CostTy>` | `CsvField` |
| csv-parser, reader | queue of chunks, worker thread, file | `read_csv`, `read_csv_worker`, `read_row`, `begin` | `CsvReader` |
| `MappingExtractor` | `currentLocLineno`, `IRIDAsmMap`, `instIDPtrMap` | the scan, the index, the join | `MappingExtractor`, on `AssemblyFile` and `IRModule` |
| `IRCostCalculator` | `instCostMap`, `blockCostMap` | `visitInstruction`, the two getters | `IRCostCalculator`, on `IRModule` |
| its generators of metadata | `cost` metadata of the module | `generateInstCostMetadata`, `generateBlockCostMetadata` | `CostMetadata` |
| `CoFloCoWrapper::cost2tick` | the module | rename, declare, annotate | `CostTicks` |
| `CoFloCoWrapper`, external stages | temporary files, child processes | conversion, run, parse | `CostDriver` |
| `removeNat`, `replaceNatWithMax` | none (strings) | two rewritings | `NatRewriting`, where `CostDriver` applies them |
| `gpscat-cost` `main` | command line, temporary files, exit status | the chain above | `CostAttribution`, `CostDriver` |
| `gpscat-score` | bounds map, integration task | read bounds, integrate, mean | `GpscatScore`, `GpscatScoreProofs` |
| `Utils` (`split`, temporary files) | none | | within their callers |
| `run.py`, `tests/examples/test.py` | pipes and children | pipeline | not modelled |
| `llc` (not in the repository) | the file it writes | emission | `Llc`, external |

### 1.3 What is hard

* **A long protocol with an implicit contract.** A line used twice, or a `.loc`
  inherited from elsewhere, changes the bound and nothing else.
* **Loops over lists they change.** Debugify inserts while it walks; the locator
  erases while it walks.
* **State that outlives its scope.** `currentLocLineno` runs on across functions
  of the assembly file.
* **Undefined orders.** `unordered_map` decides which entries are joined first, and in
  which order costs are added up.
* **Partial failure.** Five external programs; none of their results is looked
  at. Two are killed after 60 seconds, three waited for without limit.
* **Narrow arithmetic.** Costs are signed 32 bit integers, and prices may be
  negative.
* **Threads**: the reader of the cost model's file and the worker that parses it
  share a queue, a condition variable and, one after the other, the parser;
  Monte-Carlo integration runs beside the loop that waits for it.
* **Text that is cut**: a row by the end of a buffer, a bound by the end of a
  process. What the parser knows of a row must survive the cut, or the cut must
  not come there.
* **Views of a buffer that may move** (the rows of the CSV reader).

`PROJECT.json` lists every hazard at its line, with the properties that would
notice it going wrong.

### 1.4 What makes each component correct

| component | correct when |
|---|---|
| locator | lines number the program's instructions 1, 2, ...; the code is what it was; every module on the way is valid IR; it ends |
| extractor | an instruction is mapped to exactly the known assembly under its line; none is charged twice |
| debugify check | what it reports missing is what the passes in between lost, and the statistics add it up |
| cost model's loader | the rows of the file are loaded as they were written, each once and in order, for every cut and interleaving; what is no cost is an exception; it ends |
| calculator | sums are exact whenever they can be represented; an unknown opcode never leaves half a result |
| ticks | exactly one tick per block, of its cost, in front of its terminator; the program's own `tick` is not counted |
| the chain | running a block is billed what its assembly costs, and assembly is charged to what it was emitted for |
| driver | files exist when used; what each exit leaves behind is known; it ends; what is printed is what cofloco answered for this module; `nat` is rewritten, everywhere it occurs, as the options ask |
| score | the bounds used are those in the input, each with its own parameter; the mean is the mean; it ends |

## 2. The modules

```
 AssemblyCostModel
   ^          ^
   |          |
 AssemblyFile   IRModule
   ^   ^          ^   ^
   |   |          |   +---- IRCostCalculator <-- CostMetadata
   |   |          |              ^
   |   +-- MappingExtractor      |
   |              ^              |
 Llc (external)   |          CostTicks
   |     ^        |            ^  |
   |     +--- CostAttribution -+  |
   |                              |
   +-------> IRLocator <----------+
                ^
          DebugifyCheck

 Counting <-- IRLocatorProofs <-------+-- DebugifyCheckProofs
    ^                                 |
    +-------- MappingAndCostProofs <--+-- CostAttributionProofs

 NatRewriting <-- CostDriver <-- CostDriverProofs        GpscatScore <-- GpscatScoreProofs --> Counting

 RawRowBuffer <-- CsvParser <--+
                               +-- CsvReader <-- CsvReaderProofs --> Counting
                  CsvField <---+       |
                                       +---> CostTable (refinement)
```

An arrow points to the module that is extended; each `...Proofs` module also extends the
module it is about.

**`AssemblyCostModel`** has the constants every stage shares: `Token` (what a
line of assembly may start with), `CostModel` (a function from opcodes to
prices), and `MaxCost`, from which `CostTy == -(MaxCost+1) .. MaxCost`: the
`std::int32_t` of the code, with a width the configuration chooses. `AddCost`
wraps: signed overflow is undefined in C++, and wrapping is what the addition in
`+=` compiles to. A `PricedInstruction` carries, besides its name, the line `at`
which it stands, so that the properties can tell two equal instructions apart.
`TotalCost` is the true sum over a set of instructions in the integers, given by
its two defining equations (`TotalCostAssumption`); the configurations use
the library's fold, and TLC checks the equations for it.

**`IRLocator`** models `IRLocator::run` and `applyDebugifyMetadata` step by step:
`StripSymbols` (the LLVM pass, external), the early return on `llvm.dbg.cu`,
`BeginFunction` with its skip of inexact definitions, the numbering loop
(`AttachLocations`), `FindTerminatingInstruction` with its musttail case, EH pads,
`SkipVoid` and `InsertDbgValue` in the loop of lines 127-146, the flags at the
end with the assertion of line 159 (`Asserts` says whether the build has them),
and `EraseIntrinsic`/`EraseInNextBlock`. A module is a sequence of blocks, a block
a sequence of instructions of the kinds `phi`, `pad`, `value`, `void`, `dbg`,
`musttail`, `term`, all that the control of the two files distinguishes. Types
and names of debug variables are left out. `IsProgram` is what LLVM's verifier asks
of a module, as far as the two files rely on it: a block ends with its terminator and
has no other, its phis come first, a musttail call is right before the terminator, and
the blocks of a function stand together.

**`DebugifyCheck`** puts passes between debugify and its check. A wrapped pass
(`WrappedPass`, external) loses one location or one debug value or nothing: a location goes
with its `DebugLoc` (line 0 in the model), keeps one that has line 0 (`NoLine`), which the check
does not call an error, or becomes a line another instruction has. `losses` remembers what,
function by function. The check is the three loops of `checkDebugifyMetadata` with the bit sets it resets, its diagnosis, and what it
strips when asked to: only behind that can the module be debugified once more,
which the statistics over several passes do. `wrapped` says which passes run:
those for modules, `-debugify-function` with `-check-debugify-function`, or the
function passes `-debugify-each` creates, with `Strip`. `Given` is the range of
functions a pass is given.

**`AssemblyFile`** is what a line of assembly is after `split`, and **`IRModule`** the
instructions of a module one after another and the mapping between the two, as they
are handed from the one component to the other.

**`MappingExtractor`** models both functions. `LocDirective`,
`KnownInstruction` and `OtherLine` are the branches of the scan,
`IndexInstruction` the loop over the module, `Join` one entry of the
`unordered_map` and picks *any* of those left, so every order is explored. `split`
is reduced to its result: the first token and the operand that becomes the ID.

**`IRCostCalculator`** models the visitor: instruction by instruction, and for
each one assembly instruction at a time in any order; `get` throws out of the
constructor. `GetInstCost` and `GetBlockCost` are the getters with their default.

**`CostMetadata`** adds the two generators, called in any order on a finished
calculator. Both write the kind `cost`, and a block's goes on its terminator, so
that the terminator's own is lost or wins by the order of the calls.

**`CostTicks`** models `cost2tick` on the same blocks, with function names and
calls: an existing `tick` is renamed, `getOrInsertFunction`, then one call per
block before the terminator.

**`Llc`** is external: what the other stages rely on. It may emit any machine
instructions, for any LLVM instruction, in any order within a function, with or
without location, but writes a `.loc` whenever the location changes, starts a
function that has a `DISubprogram` with one, and writes none in a function that
has no `DISubprogram`. `owner` remembers which LLVM instruction each line
belongs to, which no later stage knows.

**`CostAttribution`** extends the five and shares their variables: each runs to
completion on what the one before left, as in `gpscat-cost.cpp:53-153`. The variable
`ir` is the module as the extractor and the calculator walk it, and `Instructions(code)`
keeps it with the blocks that the locator changes. Its properties compare
the costs billed with `owner`, across all of the stages. `PrintMapping`,
`PrintInstCosts` and `PrintBlockCosts` are the tables of the verbose output: the
file as `llc` wrote it, instructions and blocks with what the maps have for them.

**`CostDriver`** models `main` and the wrapper's stages from outside: which
files exist and how they came about, which programs are installed, how each one
ends (a complete file, an empty one, one cut off, killed after its 60 seconds),
the error returns, uncaught exceptions, and exit statuses. A complete file is `whole` if
its stage was given whole files of this module all the way, and `unfounded` otherwise; whether
the costs in it are right is the matter of `CostAttribution`, not of this module. `cofloco`
names no bound without relations (`Solvable`, external). The bound is one of
`Bounds`, as text, cut off wherever the process that wrote it was killed, and goes
through the rewritings.

**`NatRewriting`** has `removeNat` and `replaceNatWithMax` on sequences of tokens,
with `findClosingParenthesis` and its assertion, and, apart from them, bounds
built as expressions, each written with `nat`, with `max` and with neither: what
the rewriting of a *text* is compared with.

**`RawRowBuffer`** is the string that all rows of one `feed` are put into. A row
is a view of it; when the string outgrows its capacity it moves, and the views are
left with nothing. Capacities are those the code asks for: a real string may have
more, and move later.

**`CsvParser`** is the parsing half of `CSVReader`: formats, `feed` character by
character with the state it keeps between two calls and the state it loses,
`write_record` with the rows it rejects, `end_feed`, and the guesser, which parses the
head of the file once per delimiter in `first_guess` and again in
`second_guess`, where the order of a hash table may decide (all outcomes are
explored). `CsvEscape` and `WriteRow` are the library's writer: they define what
a well-formed file is.

**`CsvField`** is `data_type`, its table of transitions included, and `get` for a
`CostTy`: what counts as an integer, of which width, and when `get` throws. A byte has `ByteBits`
bits, so that the four integer types are all within reach.

**`CsvReader`** composes them with two threads: the loop of `read_csv` over `fgets`,
handing over full buffers; the worker, which waits on the condition variable and
may wake without reason; `join`; and the loop of `AssemblyCostModel` over the rows,
which starts another read when they run out. What a thread does under `feed_lock`
is one step. Taking a row where there is none, or looking at one whose text has moved,
is undefined behaviour and a state of its own.

**`CostTable`** is what loading promises, without buffers, threads or syntax.
`ImplementsCostTable` is the refinement, by `INSTANCE CostTable WITH`.

**`GpscatScore`** models `main` of `gpscat-score.cpp` with the functions it calls:
one record of a name and two ints at a time, from the file or from stdin, with
`>>` doing what it does on words, on numbers that are too large and behind a
failure; the check for unbounded parameters; the choice of an algorithm; the
Monte-Carlo task, which runs beside the loop that waits for it, second by second,
and cancels it; the mean. Functions are affine and results are fractions, so that an
exact integral is known, and shows which bounds went to which parameter. What Boost
does is external: Gauss-Kronrod integration is exact on affine functions,
Monte-Carlo returns an estimate of no particular value, and may reject an
interval without interior. The uninitialized `lowerBound` and `upperBound` start
with any value of `Garbage`.

**`MC...`** modules give the constants values. **`...Proofs`** hold the theorems.

### Abstractions common to all

Text is a token; messages and verbose output are left out; an LLVM pointer is a
model value or the pair of its block and index. Nothing that decides control is
left out of the operations modelled.

## 3. The runs

| run | question | instance |
|---|---|---|
| `locator` | does location number the instructions, leave the code alone, pass through valid modules only, and end? does the check between debugify and itself report exactly what was lost? | every block of up to 2 phis, a pad, 2 more instructions, a musttail call; a second block in the same, in another or behind an external function; also a module debugified before; up to 2 module passes wrapped, or one function pass over all functions, each losing at most one thing |
| `mapping_and_cost` | is the mapping exactly what the `.loc` directives say? are costs exact whenever representable, and written into the module as they are? | every file of 3 lines of 7 sorts, and of 5 of the 3 sorts that move costs; every line assignment of 3 instructions, repeated and zero lines included, in 2 blocks; the calculator on each mapping that comes of them, and on mappings no extractor made: 4 files times all 81 assignments, an opcode without a price included; `CostTy` = -4..3 so that partial sums leave it on both sides; up to 2 calls of the generators |
| `attribution` | end to end, is a block billed what its assembly costs, and do the verbose tables add up to it? | 3 modules: with a `tick` of their own, with 2 blocks in a function, with a replaceable function in front; every assembly file of up to 7 lines |
| `attribution_weak` | the same with a replaceable function behind an exact one | **violated**, see 6 |
| `driver` | files, leftovers, termination under every failure; is every `nat` rewritten? | all 128 environments; 4 bounds: no `nat`, nested ones, side by side and around parentheses, below and behind a maximum; each complete or cut off behind every token |
| `driver_bound` | does a failed `llc`, and nothing else failing, leave no bound behind? | **violated**, see 6 |
| `score` | is the mean printed that of the function over the bounds in the input? does it end? | 5 functions of up to 2 parameters; every input of 2 records, whole or cut off after any token, some of 3; proper, equal, inverted, far apart and unreadable bounds; ints -4..3; `AutoLimit` 1 so that two parameters reach Monte-Carlo; 2 seconds |
| `csv` | is a table loaded as it was written, across buffers, reads and threads? | 253 files: up to 8 rows with both delimiters, with and without the last newline, CRLF and blank lines; quoted opcodes; columns swapped or more of them; numbers around every type's limits but the extremes of `CostTy`, and texts that are none; a missing column; rows too long; opcodes longer than a page |
| `csv_short` | are rows of the wrong length dropped? | **violated**, see 6 |
| `csv_extreme` | is every cost loaded that a `CostTy` holds? | **violated**, see 6 |
| `score_mean`, `score_unbounded` | does it hold for fixed parameters, and for any stdin? | **violated**, see 6 |

Why the bounds are enough. The extractor's state after a line depends on the last
`.loc` and the entry of its ID only: three lines reach every pair of
branches in a row, five reach "one entry, another, the first again". The
locator treats blocks alike; two blocks give every case of first, middle and last
block in and across functions, and the shapes enumerate every neighbourhood the
loops distinguish. The calculator needs an instruction with several costs, a
block with several instructions, and a second block: all of it, with sums out of
range on both sides and coming back. The score's records are read alike: two show what one
leaves for the next, three a parameter given twice; two parameters are enough to mix
up their bounds. The driver has no bound but the bounds it prints, and what is rewritten in them
depends on how `nat`, parentheses and maxima stand to each other.

The reader's sizes are scaled. A page of `fgets` is 9 characters (4096 in the
code), the first read takes 24 (500000), the reads behind it 36 (50 MB), in buffers of 24
(500000 and 1 MB), handed over from 12 on (`FlushNum / FlushDen` = 1/2 for 0.9): a file of 8
rows has several buffers in a read and several reads, with lines that end on every position
of a page, and a short one with a quoted field is a single buffer.
`BufferAssumption` is what the scaling has to keep: a page fits behind a buffer that is not
handed over yet. The real sizes fulfil it for pages of up to 50000 bytes, so for the usual ones
of 4 KiB, but not on a machine whose pages have 64 KiB, where a buffer of the first read can
be overrun; nothing is claimed for those.
`ByteBits` = 2 makes `int32_t` the range -128..127. `CsvReader` is proved about for every size.

A check over one pass distinguishes what is lost from what is not; two passes show
what one leaves to the next. With one loss per pass the report can be
compared item by item.

All finite instances stop when the program does, so runs do not check for
deadlock: a final state is a return or an exit. That none of them stops *early* is what
`LocateTerminates`, `DriverTerminates`, `ScoreTerminates`, `ReaderTerminates` and the exactness properties in `done`
states are for.

### What the properties say

* `LinesNumberProgram`: once located, the instructions of exact functions have
  the lines 1, 2, ..., in order, no two alike. This is what makes the inversion by
  `MappingExtractor` legitimate.
* `DebugValuesPlaced`, `DebugifyComplete`: no debug value between phis, behind a
  musttail call or before its value; each value described once. They
  catch a wrong insertion point of the loop.
* `BodyPreserved`: no step adds, loses or reorders the program's own code.
* `ReportIsExact`: the lines and variables the check prints are those the wrapped
  pass lost, and nothing hides one: neither another instruction with its line,
  nor a debug value diagnosed already.
* `StatisticsAddUp`: the row exported is the sum of what the passes lost.
* `ScanAttribution`: at any point of the scan, an entry holds just the known
  instructions after a `.loc` of its ID and before the next `.loc`.
* `MappingExact`, `ChargedOnce`: the final mapping, whatever the order of the join.
* `BlockCostExact`, `InstCostExact`: equal to the true sum if that fits, even if
  partial sums overflowed. `BlockCostComplete`: nothing is missing when the
  constructor returns.
* `MetadataExact`: an instruction carries the cost that was written last, its own
  or its block's, and that one is the true sum.
* `MappedToOwner`: assembly is charged only to the LLVM instruction it was emitted for.
* `NeverThrows`: after the extractor's filter the calculator meets no unknown opcode.
* `BilledExact`: what calls of `tick` bill for a block is its cost, once, and no
  call of the program's own `tick` bills anything.
* `PrintedCostsAddUp`: the instructions of a block print costs that add up to the one
  printed for the block, and the assembly printed for an instruction to its own.
* `TicksBeforeTerminators`: a tick is directly in front of a terminator.
* `BoundsAsGiven`, `MeanIsExact`: compare the bounds recorded, and the fraction
  printed, with what the input says when it is read as a whole, for files and for
  well formed stdins; the mean, for widths that are positive ints.
* `FilesOutliveTheirUse`: no program is started without the files it reads and writes.
* `CleanRunPrintsAnswer`: when every program was found and finished its file, what is printed
  is the bound `cofloco` answered with for relations that come, through whole files only, from
  this module; without an option that rewrites it, word for word. It says nothing under
  `-remove-nat`, which "Can lead to incorrect upperbounds" (`gpscat-cost.cpp:26`), nor that the
  costs are the right ones.
* `OnlyKnownLeftovers`: what each of the exits leaves behind: the normal one (0), a module that
  cannot be read (1), a missing `llc` (3), an exception or abort (6) and a fault (11). For a
  normal exit that keeps files it asks for the three of `main` at least: that the wrapper
  removes the others is not something it demands (section 6).
* `DriverTerminates`: the driver comes to an exit, see 4.
* `BoundIsRewritten`: a complete bound comes out as the same expression, with `max` or
  parentheses for each `nat`, and no text keeps a `nat(` it should not.
* `BufferFits`: `fgets` never gets less room than it is told.
* `RowsUnshared`: rows and column names are looked at, without a lock, only when the
  worker is gone and has nothing left to feed.
* `ParsedAsOneFeed`: after a join the parser is where one `feed` of all that was read
  would have brought it. This is what the comment on `feed` says. It does not hold of quoted fields or
  of a blank line at a cut, as `feed` forgets between two calls that a quote
  was open or that the next character is to be skipped; `CutAnywhere` names both. It also asks that,
  where lines end in two characters, they fit into a page (`LinesFitPages`), so that no
  buffer ends between the two.
* `LoadedAsOneFeed`: the same of the table: what the constructor has at its end, or when it
  throws, is what the rows of one `feed` of the whole file say, each taken once and in
  their order. It needs nothing of the rows, which may be short, repeated or unreadable.
* `RowsStay`: no row in the queue loses its text. What `feed` reserves is the length of its
  text, without what is left of a row from the buffer before. So the property takes files of
  one buffer, or lines that fit into a page and are taken at their end (`LinesSplit`): one with
  a single field is not a row, and stays in front of the next line's text.
* `ImplementsCostTable`: see `CostTable`. A cost is to be loaded if and only if `CostTy` holds it,
  whatever `get` thinks of it; the three it refuses wrongly are in `csv_extreme` only. From a row
  on whose text has moved, nothing is promised.
* `ReaderTerminates`: neither thread waits for the other for ever.

## 4. Fairness

* `IRLocator`: weak fairness of its next step. It is a sequential function in a
  running process; nothing in it waits.
* `CostDriver`: weak fairness of the driver's own steps, of the timer of the two
  programs started with `SecondsToWait = 60`, and of the end of a program started
  *without* a limit. Nothing is assumed about a program with a limit:
  `DriverTerminates` holds although `llvm2kittel` or `cofloco` may hang. It
  would not without the third conjunct: a hanging `llc`, `koat2cfg.pl` or
  `cfg2ces.pl` hangs gpscat-cost. This is an assumption about those programs, and
  the code does nothing to enforce it.
* `GpscatScore`: weak fairness of the program, its clock included (`wait_for`
  returns), and of the end of a *cancelled* task (Boost's threads look at the flag).
  A task that is not cancelled may run for ever.

* `CsvReader`: weak fairness of each of the two threads. That a condition variable
  wakes its thread without a reason is possible and not required, so that a
  notification that is missed would show.

The other runs assume no fairness.

## 5. The proofs

`tlapm` checks `IRLocatorProofs`, `DebugifyCheckProofs`, `MappingAndCostProofs` (the extractor
and the calculator), `CostAttributionProofs`, `CsvReaderProofs`, `CostDriverProofs`,
`GpscatScoreProofs` and `Counting`, the facts about numbers, sequences and sums that several of them need: for
**every** value of the constants that meets the assumptions,

| theorem | of | says |
|---|---|---|
| `LocateTypeCorrect` | `LocateSpec => []LocateTypeOK` | |
| `LinesAreNumbers` | `LocateSpec => []LinesNumberProgram` | a located module has the lines 1, 2, ... in order |
| `ValuesArePlaced` | `LocateSpec => []DebugValuesPlaced` | debug values stand where LLVM accepts them |
| `DebugifyIsComplete` | `LocateSpec => []DebugifyComplete` | each value is described once |
| `BodiesArePreserved` | `LocateSpec => BodyPreserved` | no step touches the program's own code |
| `ReportsAreExact` | `CheckSpec => []ReportIsExact`, if `Fresh` | the check prints what the pass lost, and nothing else |
| `StatisticsAreSums` | `CheckSpec => []StatisticsAddUp`, if `Fresh` | over all passes, the exported row is their sum |
| `PassesTypeCorrect`, `PassesPlaceValues`, `PassesDescribeAll`, `PassesNumberLines`, `PassesPreserveBodies` | `CheckSpec => ...` | the five properties of the locator, with passes wrapped, checked and stripped before it |
| `MapTypeCorrect` | `MapSpec => []MapTypeOK` | |
| `ScanCorrect` | `MapSpec => []ScanAttribution` | the scan is right at every point |
| `MappingCorrect` | `MapSpec => []MappingExact` | the mapping is right in every order of the join |
| `ChargedOnceCorrect` | `MapSpec => []ChargedOnce` | nothing is charged to two instructions |
| `CalcTypeCorrect` | `CalcSpec => []CalcTypeOK` | costs stay in `CostTy` |
| `BlockCostCorrect`, `InstCostCorrect` | `CalcSpec => []...CostExact` | sums are right whenever representable |
| `BlockCostsComplete` | `CalcSpec => []BlockCostComplete` | a finished calculator has counted everything |
| `MetadataCorrect` | `MetadataSpec => []MetadataExact` | the metadata is what was written last, and right |
| `AttributionInvariant` | `Spec => []AttributionInv` | each stage starts as its own proofs assume, and stays right |
| `OpcodesKnown` | `Spec => []NeverThrows` | the calculator meets no unknown opcode |
| `TicksPlaced` | `Spec => []TicksBeforeTerminators` | |
| `TablesAgree` | `Spec => []PrintedCostsAddUp` | the verbose tables tell one story |
| `MappedCorrect` | `AllSkippedFirst => (Spec => []MappedToOwner)` | assembly goes to the instruction it was emitted for |
| `BillingCorrect` | `AllSkippedFirst => (Spec => []BilledExact)` | end to end, a block is billed what its assembly costs |
| `CsvTypeCorrect` | `Spec => []CsvTypeOK` | types, and the null buffer comes last |
| `BufferFitsAlways` | `Spec => []BufferFits` | `fgets` never writes behind its buffer |
| `RowsUnsharedAlways` | `Spec => []RowsUnshared` | no row is looked at while the worker could touch it |
| `ParsedAsOneFeedAlways` | `Spec => []ParsedAsOneFeed` | cuts and threads do not show in what is parsed |
| `LoadedAsOneFeedAlways` | `Spec => []LoadedAsOneFeed` | nor in the table that is loaded |
| `RowsStayAlways` | `Spec => []RowsStay` | no row loses the text it views |
| `CostTableImplemented` | `Spec /\ []GuessedAsWritten => ImplementsCostTable` | the reader and its threads implement `CostTable`, for costs that are no extreme of a `CostTy` |
| `DriverTypeCorrect` | `Spec => []TypeOK` | of `CostDriver` |
| `FilesOutlive` | `Spec => []FilesOutliveTheirUse` | no program is started without its files |
| `CleanRunPrintsTheAnswer` | `Spec => []CleanRunPrintsAnswer` | without a failure, what is printed is what `cofloco` answered for this module |
| `LeftoversKnown` | `Spec => []OnlyKnownLeftovers` | what each kind of exit leaves behind |
| `ScoreTypeCorrect` | `ScoreSpec => []ScoreTypeOK` | no denominator is 0 |
| `BoundsRecordedAsGiven` | `ScoreSpec => []BoundsAsGiven` | the bounds recorded are those the input as a whole gives |
| `IntervalsOfTheirParameters` | `ScoreSpec => [](... => boundsVector = ...)` | at each position stands the interval of the parameter there |
| `UnboundedReported` | `ScoreSpec => [](Readable => UnboundedIsReported)` | no result without all bounds, unless stdin is not well formed |
| `MeanPrinted` | `ScoreSpec => []MeanIsExact` | what is printed is the mean, for any number of parameters |

Assumptions, all of which TLC evaluates in the runs: `CostModelAssumption` (prices are
costs, the width is a number), `TotalCostAssumption` (the two equations of a sum);
`ProgramAssumption` of `IRLocator` (the modules are ones LLVM's verifier accepts, see
section 2); `ModuleAssumption`, `LineAssumption`, `InstAssumption`, `InputAssumption`,
`BlockAssumption` and `MappingAssumption` (what is handed to the extractor and the
calculator has its type); `AttributionAssumption` (an instruction's id names its block, the
lines of a module fit into the numbers, `calls` and `names` belong to it); `ReaderAssumption`
(sizes are positive, files are texts) and `BufferAssumption` (behind a buffer that is not
handed over yet a page has room) in `CsvReader`; `ScoreAssumption` and `InputAssumption` in
`GpscatScore` (inputs are sequences of tokens, coefficients are integers, and each symbol
of a function has its one place in the order of names); `ByteAssumption` and `IntMaxAssumption` in
`CsvField` (the largest integers of 1, 2, 4 and 8 bytes are naturals that grow);
`BoundsAssumption` in `CostDriver` (what stands for no bound is none).

Six theorems have a hypothesis.

* `Fresh`, of the two about the check, says that the build has its assertions
  (`Debugify.cpp:159`) or no module comes with operands of `llvm.debugify`. Otherwise
  debugify appends its two counts behind the old ones, and the check reads the old ones
  (`Debugify.cpp:221-228`): with `Asserts = FALSE` TLC shows a pass that loses nothing and has
  line 3 reported missing. The run `locator` has the assertions, and modules with and
  without such operands.
* `AllSkippedFirst`, of the two about the chain, says that in every module explored, the
  functions debugify skips stand before those it does not. It holds of the modules of the run
  `attribution` (`ExploredAssumption` in its MC module), it is false of those of
  `attribution_weak`, and that run shows that the theorem without it is false.
* `Readable`, inside `UnboundedReported`, is explained with the score below.
* `GuessedAsWritten`, of the refinement of `CostTable`, says that with the format that has been
  guessed, one `feed` of the whole file gives the rows it was written from: their opcodes, and
  for a cost a text that writes it (`Writes`: an integer of that value, or, only where `CostTy`
  does not hold the cost, no integer), none of the costs being `INT32_MAX` or one of the
  two smallest (`Extremes`), which `get` refuses wrongly (section 6). If a column is missing, no
  cost is one a `CostTy` holds (`AsWritten`). That is a statement about the writer and about the
  guess, not about buffers and threads, nor about which costs `get` accepts: that it throws if
  and only if `CostTy` does not hold the cost is `ThrowsIfNotHeld`. The hypothesis also takes a
  file of one buffer, or one that may be cut (`CutAnywhere`) and each of whose reads completes
  a row (`ReadsBringRows`): after one that does not, the code takes the front of no rows
  (`csv.hpp:4997`). Of the 253 files of the run it holds for 206, 78 of them of one buffer, 4
  of those with a quoted field, and 128 that may be cut anywhere; 30 have a cost that is
  refused. The refinement itself TLC checks for all 253.

No definition in a module with theorems is recursive. Folds are library functions that
are chosen, so `Counting` first shows that there is one to choose
(`FoldExists`), then that a sum or a product does not depend on the order it is taken in
(`FoldInAnyOrder`, `SumRecursion`, `ProductRecursion`) or on the names of its terms
(`SumAlong`). The induction in them is over sets instead of predicates: were there
a counterexample, there would be a least one (`LeastNatural`, `SetInduction`).

**The locator.** None of its properties is inductive: what debugify has done to a function
is known by where it is. `LocInv(first)` is the invariant of a pass from function
`first` on. `Position` and `InBlock` say where `F`, `BB`, `I` and `InsertBefore` may stand and
what is around them, `Numbering` that the instructions ahead of `BB` have the lines counted so far
and that the rest has none, with `PlaceInBody` counting what is not a debug value, as debug values
are inserted between; `Subprograms`, `Placed` and `Describing` say the same of functions and of
debug values; `Erasing` has what the last loop left. `LinesAreNumbers` then counts
the bodies of all blocks at the end. `ValuesArePlaced` needs `Blocks`, the shape the verifier
asks for: without it a phi behind a value would have a debug value in front of it.

**The check.** `PassesInv` is about what debugify leaves to the pass and to the check: a
numbering. While debugify runs, the module satisfies the `LocInv(first)` of the locator, with
`first` 1 in a module pass, and the one function in a function pass. From the second function
on, the wrapper meets the compile unit of the first and leaves the module alone (`Stale`). When
debugify is over, `LinesTaken` and `VarsTaken` show that each line up to `NextLine - 1` is
that of exactly one instruction, and each variable up to `NextVar - 1` that of exactly one
debug value (`VarsCount`), so that both are the numbers of what there is to keep. A pass
loses one of them (`LineIsLost`, `ValueIsLost`, `SizeIsLost`) or nothing, and what the check does
not find in its two bit vectors is exactly what was lost. `Reports` carries this over the check, and
`Adding` relates the statistics to sums over the history `losses`, to which
each check adds the last term (`SumsOneMore`). That the strip leaves the module without lines,
values and operands (`Operands`) is what makes the next pass start as the first one did, and why no
later debugify aborts.

**The extractor.** `MappingExact` speaks of the end only. `MapInv` adds what
carries it there: `ScanAttribution` alone is not inductive, since what the *next*
line is filed under depends on `currentLocLineno`, so `CurrentLocGoverns` says
that this variable is the last `.loc` of the part that was read;
`IndexExact` says the same of `instIDPtrMap`, namely that each line leads to the
last instruction seen with it; `Progress` says which entries are joined
and that each of them reached exactly the instruction its line leads to. The lemmas
relate "the last `.loc` before a line" before and after one more line is read. That only priced
instructions are mapped (`MappedPriced`) is what `OpcodesKnown` rests on.

**The calculator.** `BlockCostExact` is not inductive because a sum may be out of
range now and in range later. `SumsCongruent` is: modulo `Width` the stored sum
*always* equals the true one. With `CalcTypeOK` this gives exactness, as
two congruent numbers in one interval of that width are equal.
`CountedPriced`, `LoopOverCurrent` and `CompleteWhenDone` say that what was counted
has a price, that the running loop is over the current instruction's assembly,
and that a return has nothing left to do.

**The metadata.** Each generator overwrites what the other wrote on a terminator, so that
what an instruction carries depends on the calls so far. `LastWritten` names the call that
wrote on it last, and `CalcInv` that what was written is the sum.

**The chain.** `AttributionInv` holds the invariants of the components together.
`Sequenced` says that a component that has not begun is in its initial state, so that the
invariant of each is established when the one before is done (the lemmas `...Starts`), by what
that one left: `LocateInv` gives the extractor a module whose lines are distinct
(`ModuleFits`); its mapping is what the calculator may be given; `Owned` relates the file to
the instructions: up to each line, the last `.loc` is that of the owner (`Filed`), and within a
function one is in force that belongs to what was emitted last. Here is where `AllSkippedFirst` is
needed: a function without `.loc` would be under the last one of the function before. `Shaped`
and `Billing` say what the ticks leave of a block and which calls are billed. `OwnersMatch` joins `MappingExact` with
`Filed`, `CostsAddUp` and `SumOfCosts` the sums over instructions with those over blocks, and
`TickIsBilled` the last sum with what the module bills.

**The reader's threads.** None of the first three properties is inductive. `ReaderInv` adds to `Typing`:
`Accounted`, that what was handed over and what is in the buffer is not more than was
read; `Room`, that a buffer `fgets` gets was not full when it was last looked at, from which
`BufferAssumption` gives the room for a page (`RoomForAPage`); `Fed`, which
text the worker holds; `Protocol`, the heart of it: a null
item is in the queue exactly between `Drain` and the worker taking it, it is the last one, a worker is alive
while there is something to take, and dead with an empty queue once joined;
and `NullIsEmpty`. The parser is left abstract here: this part uses nothing of `Feed`.

**What is parsed.** `Feed` is a loop over the characters of a text. A *run* is the sequence
of its states (`Run`, one `FeedStep` each, `RunSteps`), and each step leaves the parser as it was,
splits the row, takes it or adds a character to it (`FeedStepOutcome`). `Same(r, u, t)` says that
`r` has parsed what `u` has, of whose rows the first `t` are gone from `r`; where the rows are kept
is left out. Two runs over the same characters without a quote stay the
same (`RunsTogether`) if they also agree on whether the character ahead is to be skipped, which
is what a cut between `\r` and `\n` breaks (`NoSkipAtCut`). Hence a feed of the next
piece brings the parser along the run over the whole file (`FeedFollows`).
`Following` is the invariant: the text of the worker, those in the queue and the
buffer lie behind each other in the file (`Placing`), with the parser at the place where
the first one starts, or, once completed, behind the last row (`Followed`). The queue being first in first out
is what keeps this. A file of one buffer is fed in one piece, whatever it holds.

**What is loaded.** `Following` relates the queue to the rows parsed *so far*; the table speaks
of those of the whole file. `Grows` fills this: along a run rows are only added, and once
the header is known it stays, so that the next row in the queue is the next of all and
its columns have the names of all (`NextRowKnown`). `Loading` then says that
the table is what the rows taken so far make it.

**What the rows view.** A text of `n` characters moves no string that has room for `n` and in
which nothing was put before (`FeedStays`, from `Roomy`, room for one character less with each
step). `Staying` gives the second: between two feeds there is no row in progress
(`Between`), as each text is made of whole lines (`WholeLines`, from `fgets` returning whole lines
where they fit into a page), and behind the end of a line that has a delimiter, or is empty,
nothing is left (`LinesTaken`); what is left behind the last text meets only empty
ones (`LastLeaves`).

**The table.** `CostTableImplemented` is a refinement, step by step (`StepImplements`): a row that
is loaded, or throws, is `Load` or `Refuse` of the next row written (`BodyWritten`, from `Loading`),
the end of the loop is `Finish` (`FinishesTable`), a file that is not there `CannotOpen`, and every other
step of either thread leaves the table as it is. The step that needs an
invariant of its own is the one into undefined behaviour, taking a row where there is none: it
must be `Finish` too, and so happen behind the last row only (`NoneLeft`). `Bringing` says that
a read starts where all complete rows are loaded and, unless the file ends in it, has
handed over what it was told to; such a read brings a row, as rows only get more (`RecordsGrow`).

**The driver.** `DriverInv` adds to `TypeOK`: `ToolsFound` (a program that runs was looked
up), `AnswerInPlace` (there is no answer before it is parsed, and its text is that of the
bound until an option rewrites it), `FilesInPlace` (which files exist at each stage),
`WholeSoFar` (as long as nothing failed, the file the current stage reads is whole, and so is
the bound), `Left` (what an exit leaves, by the way it was reached) and `Running`. The stages are
one after the other, so that each conjunct is a table over `pc`; the proof
goes through the actions with it.

**The score.** `BoundsAsGiven` compares the end of the reading with the input as a whole,
and says nothing on the way. `Reading` does: between two records the stream stands at the
beginning of one, everything before it is records (`AtRecord`), and `bounds` holds what
those give (`RecordedUpTo`). Two lemmas carry it: a record in front of the stream is read
without a failure and adds what it says (`ReadRecord`, `RecordOne`); where no record
begins, a file fails without recording anything (`FailsWithoutRecord`) and a well formed
stdin is at its end (`WellFormedGoesOn`, which counts the records before). `Matched` says
why a comparison of two numbers is enough: the names with bounds are some of the
parameters, so that as many of them are all of them. Without `Readable` this part of the
invariant is empty, and `UnboundedIsReported` fails, as the finding shows. The mean is
`MeanInv`: while the result is divided, its numerator is the product of all widths times the
weighted sum, and its denominator the product of the widths so far (`Dividing`); both are
folds over positions, so that the proof needs that they may be taken in any order, that
`Ordered` lists each parameter once (`OrderedIsBijection`), and hence that a sum over
positions is one over parameters (`SumOverParameters`).

Only model-checked: `BoundIsRewritten` (a rewriting of texts of any nesting,
defined by recursion, so that its proof is an induction over data); that a table as it
is written is what one feed reads, which the refinement of `CostTable` assumes
(`AsWritten`; see section 7); and everything temporal but `[]` of a state or a step: liveness under fairness is not within
reach of the prover.

## 6. Where the code and its texts disagree

* **A function that debugify skips is charged to the one before it**
  (`attribution_weak`). Debugify gives no locations to a replaceable (weak,
  linkonce) function, `llc` writes no `.loc` in it, and `currentLocLineno`
  (`MappingExtractor.cpp:19`) still is the last line of the function before. The
  assembly of all of it is added to that instruction's block, and the skipped
  function itself costs nothing. `attribution` shows the chain right for modules
  in which such functions come before all others.
* **A failed `llc` ends as a bound** (`driver_bound`). The result of `ExecuteAndWait`
  (`gpscat-cost.cpp:71`) is dropped, so that an empty or cut off assembly file gives small
  costs; the other programs do their work, and their bound is printed as "The inferred cost
  upperbound is" with exit status 0. `CleanRunPrintsAnswer` is what does hold.
* **A row with one field only is not dropped** (`csv_short`): `csv.hpp:4036` says that rows
  that are too short are, but `write_record` takes a rejected row out of the buffer only to
  hand it to `bad_row_handler`, which it does for rows of more than one field. The text of
  the others stays, and becomes the beginning of the next row's first field: another
  opcode gets that row's price.
* **The extremes of a cost are refused** (`csv_extreme`): `csv.hpp:3342` calls `CSV_INT32_MAX` the
  "Largest number that can be stored in a 32-bit integer", and 3738 wants an integer refused by "a
  smaller type that will not hold it", but types are told apart with `<` and without the sign
  (3380): `get` throws for 2147483647, -2147483647 and -2147483648.
* **The mean over a fixed parameter is 0** (`score_mean`): `gpscat-score.cpp:205`
  skips the division by a width of 0, but the integral over it is 0 already.
* **Unreadable bounds on stdin are used** (`score_unbounded`): the file's loop ends
  at a record it cannot read, the loop on stdin records stale, zero or
  uninitialized ints and prints a result where the file gives "Some variables are
  unbounded".

Seen while modelling, and in the models, but without a run of its own, or without a text of the
repository that says otherwise:

* `-keep-temporary-files` keeps some of the files only. `gpscat-cost.cpp:23` says "Don't remove
  the temporary files when analyzing cost"; the wrapper knows nothing of the option and removes
  `tmp.koat.cfg` (`CoFloCoWrapper.cpp:103`), `tmp.bc` and `tmp.koat` (116-117) and the output of
  `cofloco` (155) all the same. No property of the driver takes this for right: with the option,
  `OnlyKnownLeftovers` asks for the three files of `main`.
* `cost2tick` puts the tick directly before the terminator (`CoFloCoWrapper.cpp:44`), so between a
  musttail call and its `ret`, which makes the module invalid; debugify takes "Special care" of
  these calls (`Debugify.cpp:53`). `CostTicks` does what the code does; no module of the run
  `attribution` has such a block.
* Rows above the header are not ignored, as `csv.hpp:4860` says: the text of such a row stays
  in the buffer, for the reason `csv_short` shows, and becomes the beginning of the first
  column's name. With a remark `x` above `O,C` that column is called `xO`.
* A cost model without rows, or whose rows are all in a later read than the first one,
  makes `begin()` take the front of an empty deque (`TakeFromNone`).
* A line longer than a page can be cut where the string of its buffer has no room
  reserved; the rows before it then view memory that was given back (`ReadMoved`).
* An empty opcode reads as the whole row (`csv.hpp:5110`).
* `-debugify-function` only works on the first function: the next one is in a module
  that has debug information by now, is skipped, and reported as FAIL by the check.
* `getMissingValueRatio` divides the missing values by the expected *locations*
  (`Debugify.h:45`). The model keeps the fraction as it is.
* `GenerateBlockCostMetadata` overwrites the cost of a terminator, and the other way round.

## 7. Not modelled, and what is left

Not modelled:

* LLVM itself beyond the constraints above, and the four programs behind
  `CoFloCoWrapper` beyond how they end.
* Messages and the layout of what is printed.
* In csv-parser: trimming, strict parsing, byte order marks, floating point values
  beyond telling them from integers, JSON, `CSVStat`, reading from a `csv::string_view`, and the vendored
  `string_view` and Hedley. gpscat uses none of them: the table is read with
  `GUESS_CSV`, trims nothing and is not strict. This is most of the 5665 lines of `csv.hpp`.
* `AssemblyCostModel::set`, which nothing calls.
* In the passes: deoptimize calls (`Debugify.cpp:58-59`) are treated as musttail calls, and no
  bitcast stands between a musttail call and its `ret`, so that the place before the one and the
  place before the other are next to each other. A wrapped pass loses one thing at most. A build
  without assertions is possible (`Asserts`), but no run has one.
* In the extractor: `std::stoul` throws on a `.loc` whose third word is no number, and line
  numbers are cut to 32 bits (`MappingExtractor.cpp:36`); `llc` writes a number there. An
  instruction with a `DebugLoc` of line 0 is not told from one without: a located module,
  which is all the extractor is given, has none.
* The scripts under `experiments/` and `tests/examples/`: they start `opt` and the tools,
  collect what these print and keep no state of their own. That their pipes may
  fill up is listed as a hazard.
* The unit tests and the vendored Catch framework.

Files that the run `csv` leaves out, as the library does not read them as they were written, in
ways the model shows when they are added: a quoted field that is cut by, or begins at, the
end of a buffer; a quoted field at the end of a file without a newline; an empty opcode; a
header row longer than the first read; a remark above the header; numbers with a sign in the
middle (`5-3`). The extremes of a `CostTy` have a run of their own, `csv_extreme`, in which they
are refused against what the library's texts say.

What is left, in this order:

1. A ledger that bills blocks abstractly, which `CostAttribution` is shown to
   implement.
2. The pipes of `run.py` when stderr is full.
3. Proofs: the step simulation of the ledger; that the rows of one feed of a written table are
   those that were written, where no field is quoted.
