------------------------------ MODULE GpscatScore ------------------------------
(***************************************************************************)
(* tools/gpscat-score.cpp: read a function, read the bounds of its         *)
(* parameters from a file or from stdin, integrate it over them and divide *)
(* by their widths.                                                        *)
(*                                                                         *)
(* Functions are affine, with a coefficient for each parameter, so that    *)
(* an integral is known exactly and shows which parameter was given which  *)
(* bounds.  An input is a sequence of tokens.  A result is a fraction;     *)
(* what Monte-Carlo integration returns is an estimate, without a value.   *)
(***************************************************************************)
EXTENDS Integers, FiniteSetsExt, SequencesExt

CONSTANTS
    Names,          \* names of parameters, in the order std::set and std::map have
    MaxInt,         \* INT_MAX in the code
    Functions,      \* the functions main may be given
    Inputs,         \* the bounds files and stdins
    Garbage,        \* what an uninitialized int may hold
    AutoLimit,      \* 4 in the code: more parameters go to Monte-Carlo
    maxtime         \* the option, in seconds

ASSUME ScoreAssumption ==
    /\ MaxInt \in Nat /\ AutoLimit \in Nat /\ maxtime \in Nat
    /\ Garbage \subseteq -(MaxInt + 1) .. MaxInt
    /\ IsInjective(Names) /\ Names \in Seq(STRING)

IntTy == -(MaxInt + 1) .. MaxInt

\* The build's subtraction of two ints.
WrapInt(n) == ((n + MaxInt + 1) % (2 * (MaxInt + 1))) - (MaxInt + 1)

\* Tokens: >> on an int stores 0 for a word and the limit for what is too large,
\* and fails for both.
Word(w) == [word |-> w, kind |-> "word", value |-> 0]
Num(n) == [word |-> "number", kind |-> "number", value |-> n]
TooLarge == [word |-> "number", kind |-> "tooLarge", value |-> MaxInt]

Token == [word : STRING, kind : {"word", "number", "tooLarge"}, value : IntTy]

ASSUME InputAssumption ==
    /\ Inputs \subseteq Seq(Token)
    /\ \A f \in Functions :
          /\ f.coef \in [DOMAIN f.coef -> Int] /\ f.const \in Int
          /\ DOMAIN f.coef \subseteq ToSet(Names)

VARIABLES
    func,           \* the first line: kind, coefficient of each symbol, constant
    input,          \* the tokens of the bounds file or of the rest of stdin
    boundsFile,     \* -bounds-file was given
    algorithm,      \* -algorithm
    stream,         \* next token, and the failbit
    lowerBound, upperBound,
    bounds,         \* parameter -> its two bounds
    task,           \* Monte-Carlo: "none", "running", "ready"
    secondCount,    \* capped at maxtime, past which it is only compared
    cancelled,
    result,
    divided,        \* bounds whose width has divided the result
    exitCode,       \* -1 before the exit, 6 for an uncaught exception
    pc

options == <<func, input, boundsFile, algorithm>>
reading == <<stream, lowerBound, upperBound, bounds>>
waiting == <<task, secondCount, cancelled>>
scoreVars == <<options, reading, waiting, result, divided, exitCode, pc>>

Algorithms == {"auto", "monte_carlo", "gauss_kronrod", "unsupported"}

NoResult == [kind |-> "none", num |-> 0, den |-> 1]
Exactly(n) == [kind |-> "exact", num |-> n, den |-> 1]
Estimate == [kind |-> "estimate", num |-> 0, den |-> 1]

paramsSet == DOMAIN func.coef

\* The order of a set or a map of names.
Ordered(S) == FoldLeft(LAMBDA s, n : IF n \in S THEN Append(s, n) ELSE s, <<>>, Names)

ScoreInit ==
    /\ func \in Functions /\ input \in Inputs
    /\ boundsFile \in BOOLEAN /\ algorithm \in Algorithms
    /\ stream = [next |-> 1, failed |-> FALSE]
    /\ lowerBound \in Garbage /\ upperBound \in Garbage
    /\ bounds = [p \in {} |-> <<0, 0>>]
    /\ task = "none" /\ secondCount = 0 /\ cancelled = FALSE
    /\ result = NoResult /\ divided = 0 /\ exitCode = -1
    /\ pc = "function"

Exit(status) == exitCode' = status /\ pc' = "exited"

--------------------------------------------------------------------------------
(* The function. *)

\* SymEngine::Expression throws on what it cannot parse.
FunctionThrows ==
    /\ pc = "function" /\ func.kind = "unparsable"
    /\ Exit(6)
    /\ UNCHANGED <<options, reading, waiting, result, divided>>

PrintInfinity ==
    /\ pc = "function" /\ func.kind = "infinite"
    /\ Exit(0)
    /\ UNCHANGED <<options, reading, waiting, result, divided>>

FunctionRead ==
    /\ pc = "function" /\ func.kind = "finite"
    /\ pc' = "bounds"
    /\ UNCHANGED <<options, reading, waiting, result, divided, exitCode>>

--------------------------------------------------------------------------------
(* The bounds. *)

AtEnd(s) == s.failed \/ s.next > Len(input)

Advance(s) == [s EXCEPT !.next = @ + 1]

Failed(s) == [s EXCEPT !.failed = TRUE]

AfterWord(s) == IF AtEnd(s) THEN Failed(s) ELSE Advance(s)

AfterInt(s) == IF AtEnd(s) \/ input[s.next].kind # "number" THEN Failed(s) ELSE Advance(s)

\* At the end of the stream, or after a failure, >> leaves the variable alone.
IntRead(s, old) == IF AtEnd(s) THEN old ELSE input[s.next].value

\* Mutant: a name that is no parameter is recorded too.
RecordedAnyName(name, bnds) ==
    IF bnds[1] > bnds[2] THEN bounds
    ELSE [p \in DOMAIN bounds \cup {name} |-> IF p = name THEN bnds ELSE bounds[p]]

\* Mutant: bounds in the wrong order are recorded too.
RecordedInverted(name, bnds) ==
    IF name \notin paramsSet THEN bounds
    ELSE [p \in DOMAIN bounds \cup {name} |-> IF p = name THEN bnds ELSE bounds[p]]

Recorded(name, bnds) ==
    IF bnds[1] > bnds[2] \/ name \notin paramsSet THEN bounds
    ELSE [p \in DOMAIN bounds \cup {name} |-> IF p = name THEN bnds ELSE bounds[p]]

\* A name and two ints; what the file makes of a failure, stdin does not.
ReadBounds ==
    LET afterName == AfterWord(stream)
        afterLower == AfterInt(afterName)
        lower == IntRead(afterName, lowerBound)
        upper == IntRead(afterLower, upperBound)
    IN  /\ stream' = AfterInt(afterLower)
        /\ lowerBound' = lower /\ upperBound' = upper
        /\ bounds' = IF boundsFile /\ stream'.failed THEN bounds
                     ELSE Recorded(input[stream.next].word, <<lower, upper>>)

ReadFromFile ==
    /\ pc = "bounds" /\ boundsFile
    /\ ReadBounds
    /\ pc' = IF stream'.failed THEN "check" ELSE "bounds"
    /\ UNCHANGED <<options, waiting, result, divided, exitCode>>

StdinEnds == (IF AtEnd(stream) THEN "end" ELSE input[stream.next].word) = "end"

ReadFromStdin ==
    /\ pc = "bounds" /\ ~boundsFile /\ ~StdinEnds
    /\ ReadBounds
    /\ UNCHANGED <<options, waiting, result, divided, exitCode, pc>>

EndOfStdin ==
    /\ pc = "bounds" /\ ~boundsFile /\ StdinEnds
    /\ stream' = AfterWord(stream)
    /\ pc' = "check"
    /\ UNCHANGED <<options, lowerBound, upperBound, bounds, waiting, result, divided, exitCode>>

Unbounded ==
    /\ pc = "check" /\ Cardinality(DOMAIN bounds) # Cardinality(paramsSet)
    /\ Exit(1)
    /\ UNCHANGED <<options, reading, waiting, result, divided>>

Bounded ==
    /\ pc = "check" /\ Cardinality(DOMAIN bounds) = Cardinality(paramsSet)
    /\ pc' = "integrate"
    /\ UNCHANGED <<options, reading, waiting, result, divided, exitCode>>

--------------------------------------------------------------------------------
(* Integration: parameters and bounds are matched by their positions. *)

params == Ordered(paramsSet)

boundsVector == [i \in 1 .. Cardinality(DOMAIN bounds) |-> bounds[Ordered(DOMAIN bounds)[i]]]

Product(s) == FoldSeq(LAMBDA x, y : x * y, 1, s)

\* Twice the integral of func over the box of the bounds.
TwiceIntegral ==
    Product([i \in DOMAIN params |-> boundsVector[i][2] - boundsVector[i][1]])
      * (2 * func.const
         + SumFunction([i \in DOMAIN params |->
                           func.coef[params[i]] * (boundsVector[i][1] + boundsVector[i][2])]))

UsesMonteCarlo ==
    \/ algorithm = "monte_carlo"
    \/ algorithm = "auto" /\ Len(params) > AutoLimit

IntegrateConstant ==
    /\ pc = "integrate" /\ Len(params) = 0
    /\ result' = Exactly(2 * func.const)
    /\ pc' = "mean"
    /\ UNCHANGED <<options, reading, waiting, divided, exitCode>>

GaussKronrodIntegration ==
    /\ pc = "integrate" /\ Len(params) > 0
    /\ ~UsesMonteCarlo /\ algorithm # "unsupported"
    /\ result' = Exactly(TwiceIntegral)
    /\ pc' = "mean"
    /\ UNCHANGED <<options, reading, waiting, divided, exitCode>>

\* A quiet NaN, which stays one through the divisions.
Unsupported ==
    /\ pc = "integrate" /\ Len(params) > 0 /\ algorithm = "unsupported"
    /\ result' = [NoResult EXCEPT !.kind = "nan"]
    /\ pc' = "mean"
    /\ UNCHANGED <<options, reading, waiting, divided, exitCode>>

MonteCarloIntegration ==
    /\ pc = "integrate" /\ Len(params) > 0 /\ UsesMonteCarlo
    /\ task' = "running"
    /\ pc' = "wait"
    /\ UNCHANGED <<options, reading, secondCount, cancelled, result, divided, exitCode>>

\* Boost may reject an interval without interior.
BoundsThrow ==
    /\ pc = "integrate" /\ Len(params) > 0 /\ UsesMonteCarlo
    /\ \E p \in DOMAIN bounds : bounds[p][1] = bounds[p][2]
    /\ Exit(6)
    /\ UNCHANGED <<options, reading, waiting, result, divided>>

\* Boost's threads: the error goal is reached, or the cancellation noticed.
TaskEnds ==
    /\ task = "running"
    /\ task' = "ready"
    /\ UNCHANGED <<options, reading, secondCount, cancelled, result, divided, exitCode, pc>>

\* Mutant: the seconds are not counted when the progress is displayed.
WaitOneSecondUncounted ==
    /\ pc = "wait" /\ task = "running"
    /\ cancelled' = (cancelled \/ secondCount >= maxtime)
    /\ UNCHANGED <<options, reading, task, secondCount, result, divided, exitCode, pc>>

\* wait_for returns after a second in which the task did not get ready.
WaitOneSecond ==
    /\ pc = "wait" /\ task = "running"
    /\ secondCount' = IF secondCount < maxtime THEN secondCount + 1 ELSE secondCount
    /\ cancelled' = (cancelled \/ secondCount' >= maxtime)
    /\ UNCHANGED <<options, reading, task, result, divided, exitCode, pc>>

GetResult ==
    /\ pc = "wait" /\ task = "ready"
    /\ result' = Estimate
    /\ pc' = "mean"
    /\ UNCHANGED <<options, reading, waiting, divided, exitCode>>

--------------------------------------------------------------------------------
(* The mean. *)

\* Mutant: the number of ints in an interval in the place of its width.
DivideByCount ==
    /\ pc = "mean" /\ divided < Len(boundsVector)
    /\ divided' = divided + 1
    /\ LET width == WrapInt(boundsVector[divided + 1][2] - boundsVector[divided + 1][1] + 1)
       IN  result' = IF width = 0 THEN result ELSE [result EXCEPT !.den = @ * width]
    /\ UNCHANGED <<options, reading, waiting, exitCode, pc>>

DivideByWidth ==
    /\ pc = "mean" /\ divided < Len(boundsVector)
    /\ divided' = divided + 1
    /\ LET width == WrapInt(boundsVector[divided + 1][2] - boundsVector[divided + 1][1])
       IN  result' = IF width = 0 THEN result ELSE [result EXCEPT !.den = @ * width]
    /\ UNCHANGED <<options, reading, waiting, exitCode, pc>>

PrintResult ==
    /\ pc = "mean" /\ divided = Len(boundsVector)
    /\ Exit(0)
    /\ UNCHANGED <<options, reading, waiting, result, divided>>

ScoreStep ==
    \/ FunctionThrows \/ PrintInfinity \/ FunctionRead
    \/ ReadFromFile \/ ReadFromStdin \/ EndOfStdin \/ Unbounded \/ Bounded
    \/ IntegrateConstant \/ GaussKronrodIntegration \/ Unsupported
    \/ MonteCarloIntegration \/ BoundsThrow
    \/ WaitOneSecond \/ GetResult
    \/ DivideByWidth \/ PrintResult

ScoreNext == ScoreStep \/ TaskEnds

\* The program and its clock run; a task that was cancelled ends, one that was
\* not may never.
ScoreFairness == WF_scoreVars(ScoreStep) /\ WF_scoreVars(cancelled /\ TaskEnds)

ScoreSpec == ScoreInit /\ [][ScoreNext]_scoreVars /\ ScoreFairness

--------------------------------------------------------------------------------

ScoreTypeOK ==
    /\ stream \in [next : 1 .. Len(input) + 1, failed : BOOLEAN]
    /\ lowerBound \in IntTy /\ upperBound \in IntTy
    /\ DOMAIN bounds \subseteq paramsSet
    /\ \A p \in DOMAIN bounds : bounds[p] \in IntTy \X IntTy
    /\ task \in {"none", "running", "ready"}
    /\ secondCount \in 0 .. maxtime
    /\ cancelled \in BOOLEAN
    /\ result \in [kind : {"none", "exact", "estimate", "nan"}, num : Int, den : Int \ {0}]
    /\ divided \in 0 .. Cardinality(DOMAIN bounds)
    /\ exitCode \in {-1, 0, 1, 6}
    /\ pc \in {"function", "bounds", "check", "integrate", "wait", "mean", "exited"}

--------------------------------------------------------------------------------
(* What an input says, without reading it token by token. *)

\* A record starts at k, and all up to it are of a name and two numbers.
IsRecord(k) ==
    /\ k % 3 = 1 /\ k + 2 <= Len(input)
    /\ \A j \in {i \in 1 .. k : i % 3 = 1} :
          /\ input[j + 1].kind = "number" /\ input[j + 2].kind = "number"
          /\ boundsFile \/ input[j].word # "end"

RecordStarts == {k \in DOMAIN input : IsRecord(k)}

\* Nothing stands behind the last record but what ends a file of this sort.
WellFormed ==
    LET n == 3 * Cardinality(RecordStarts) IN n = Len(input) \/ input[n + 1].word = "end"

Given(p) ==
    {k \in RecordStarts : input[k].word = p /\ input[k + 1].value <= input[k + 2].value}

GivenBounds(p) ==
    LET k == Max(Given(p)) IN <<input[k + 1].value, input[k + 2].value>>

BoundedByInput == \A p \in paramsSet : Given(p) # {}

\* The exact result is the mean of func over the given bounds: num / den is
\* twice the constant and the weighted sums of both bounds.
IsMean ==
    result.num = result.den
        * (2 * func.const
           + SumFunction([p \in paramsSet |->
                             func.coef[p] * (GivenBounds(p)[1] + GivenBounds(p)[2])]))

PrintsExact == exitCode = 0 /\ result.kind = "exact"

\* Each parameter has the last of the bounds the input gives it, and no other
\* name has any, whatever an incomplete record in a file left in the variables
\* (gpscat-score.cpp:175-193).
BoundsAsGiven ==
    pc \notin {"function", "bounds"} /\ func.kind = "finite" /\ (boundsFile \/ WellFormed) =>
        bounds = [p \in {q \in paramsSet : Given(q) # {}} |-> GivenBounds(p)]

\* From the tokens to the output: what is printed is the mean of the function over
\* the bounds in the input, each with its own parameter, if all widths are
\* positive ints (gpscat-score.cpp:107-114, 195-209).
MeanIsExact ==
    /\ PrintsExact
    /\ boundsFile \/ WellFormed
    /\ \A p \in paramsSet : GivenBounds(p)[2] - GivenBounds(p)[1] \in 1 .. MaxInt
    => IsMean

\* gpscat-score ends, although an integration that is not cancelled may not
\* (gpscat-score.cpp:60-79).
ScoreTerminates == <>(pc = "exited")

\* "Calculate the mean of the input function" (gpscat-score.cpp:202): MeanIsExact
\* with parameters whose bounds are equal.
MeanOfInput ==
    /\ PrintsExact
    /\ boundsFile \/ WellFormed
    /\ \A p \in paramsSet : GivenBounds(p)[2] - GivenBounds(p)[1] \in 0 .. MaxInt
    => IsMean

\* "Some variables are unbounded" (gpscat-score.cpp:196): there is no result when
\* the input does not give every parameter its bounds.
UnboundedIsReported == func.kind = "finite" /\ exitCode = 0 => BoundedByInput

================================================================================
