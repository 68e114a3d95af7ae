---------------------------- MODULE ProgramProofs ----------------------------
(***************************************************************************)
(* Theorems about main and the command line, and about the integration     *)
(* test that runs them, for numbers, widths of integers and files of any   *)
(* size.                                                                   *)
(***************************************************************************)
EXTENDS IntegrationTest, SizingProofs, FiniteSetTheorems

(* Before a run nothing has happened. *)
Untouched ==
  pc \in {"parse", "construct", "start", "run"} =>
    ~success /\ output = "original" /\ ~warned /\ ~late /\ returnCode = 0

(* The options, once they are accepted. *)
Accepted ==
  /\ pc = "parse" => args \in CommandLines
  /\ pc \in {"construct", "start", "run", "unwind"} => args = None
  /\ pc \in {"construct", "start", "run"} =>
       /\ options.blockSize \in 0 .. SizeModulus - 1
       /\ options.maxRamSize \in 0 .. SizeModulus - 1
       /\ options.isSSD \in BOOLEAN

(* Which way the stack is unwound. *)
Unwinding ==
  pc = "unwind" => \/ success /\ output = "signed" /\ returnCode = 0
                   \/ ~success /\ output # "signed" /\ returnCode \in {2, 3}

(* What the constructor's checks leave: blocks that are not empty, and     *)
(* queues that can hold something.                                         *)
Runnable ==
  pc \in {"start", "run"} =>
    /\ options.blockSize > 0
    /\ getMaxQueueSize(options.blockSize, options.maxRamSize) > 0

IInv == TypeOK /\ Untouched /\ Accepted /\ Runnable /\ Unwinding /\ ExitCodeTruthful

-----------------------------------------------------------------------------
LEMMA Widths ==
  /\ KB \in Nat \ {0} /\ MB \in Nat \ {0} /\ GB \in Nat \ {0}
  /\ IntModulus \in Nat \ {0} /\ SizeModulus \in Nat \ {0}
  /\ Numbers \subseteq Nat /\ MaxFileSize \in Nat /\ MaxConcurrency \in Nat
BY WidthsAssumption

LEMMA ModRange ==
  ASSUME NEW x \in Int, NEW n \in Nat \ {0}
  PROVE  x % n \in 0 .. n - 1
BY SMTT(30)

(* parseMemorySize returns a size_t for whatever it does not reject. *)
LEMMA ParsedSize ==
  ASSUME NEW str \in SizeStrings, IsMemorySize(str)
  PROVE  parseMemorySize(str) \in 0 .. SizeModulus - 1
<1>. USE Widths
<1>1. str.number \in Nat
  BY DEF SizeStrings, IsMemorySize
<1>2. atoi(str.number) \in Int
  <2>. DEFINE low == str.number % IntModulus
  <2>1. low \in Int
    BY <1>1, ModRange
  <2>. HIDE DEF low
  <2>2. low - IntModulus \in Int
    BY <2>1
  <2>. QED  BY <2>1, <2>2 DEF atoi, low
<1>3. FromLiteralsToNumber(str.suffix) \in Nat
  BY DEF FromLiteralsToNumber
<1>4. atoi(str.number) * FromLiteralsToNumber(str.suffix) \in Int
  BY <1>2, <1>3
<1>. QED  BY <1>4, ModRange DEF parseMemorySize

(* What the constructor's check means. *)
LEMMA AcceptableSizes ==
  ASSUME options.blockSize \in 0 .. SizeModulus - 1,
         options.maxRamSize \in 0 .. SizeModulus - 1, Acceptable
  PROVE  /\ options.blockSize > 0
         /\ getMaxQueueSize(options.blockSize, options.maxRamSize) > 0
<1>. DEFINE size == options.blockSize  ram == options.maxRamSize
<1>1. size \in Nat /\ size + Crc8ResultSize \in Nat \ {0} /\ ram \in Nat
  BY Widths DEF Crc8ResultSize
<1>2. ram \div (size + Crc8ResultSize) \in Nat
  BY <1>1, DivMod
<1>3. size # 0 /\ ram \div (size + Crc8ResultSize) # 0
  BY DEF Acceptable, getMaxQueueSize
<1>4. size > 0
  BY <1>1, <1>3
<1>5. ram \div (size + Crc8ResultSize) > 0
  BY <1>2, <1>3
<1>. QED  BY <1>4, <1>5 DEF getMaxQueueSize

-----------------------------------------------------------------------------
LEMMA InitIInv == Init => IInv
<1>. SUFFICES ASSUME Init PROVE IInv
  OBVIOUS
<1>1. TypeOK
  <2>1. 0 \in 0 .. MaxConcurrency /\ 0 \in 0 .. MaxFileSize
    BY Widths
  <2>2. args \in CommandLines \cup {None}
    BY DEF Init
  <2>3. /\ pc = "parse" /\ options = None /\ output = "original" /\ returnCode = 0
        /\ processors = 0 /\ fileSize = 0
    BY DEF Init
  <2>4. success \in BOOLEAN /\ warned \in BOOLEAN /\ late \in BOOLEAN
    BY DEF Init
  <2>. QED  BY <2>1, <2>2, <2>3, <2>4 DEF TypeOK
<1>. QED  BY <1>1 DEF Init, IInv, Untouched, Accepted, Runnable, Unwinding, ExitCodeTruthful

(* Exits before there is a CrcSignatureOfFile. *)
LEMMA ExitsEarly ==
  ASSUME IInv, pc \in {"parse", "construct"}, NEW code \in 0 .. 3, Exit(code),
         code = 0 <=> pc = "parse" /\ Notified(args) /\ args.help,
         UNCHANGED <<args, options, machine, result>>
  PROVE  IInv'
<1>1. /\ pc' = "exited" /\ returnCode' = code
      /\ UNCHANGED <<args, options, processors, fileSize, success, output, warned, late>>
  BY DEF Exit, machine, result
<1>2. TypeOK'
  BY <1>1 DEF IInv, TypeOK
<1>3. output = "original" /\ (pc = "parse" => args # None) /\ (pc = "construct" => args = None)
  BY CommandLinesAssumption DEF IInv, Untouched, Accepted
<1>4. ExitCodeTruthful'
  BY <1>1, <1>3 DEF ExitCodeTruthful, Notified
<1>. QED  BY <1>1, <1>2, <1>4 DEF IInv, Untouched, Accepted, Runnable, Unwinding

LEMMA AcceptOptionsStep ==
  ASSUME IInv, AcceptOptions
  PROVE  IInv'
<1>1. args \in CommandLines /\ ValidOptions(args) /\ pc' = "construct" /\ args' = None
  BY DEF IInv, AcceptOptions, Accepted
<1>2. /\ UNCHANGED <<processors, fileSize, success, output, warned, late, returnCode>>
      /\ Untouched
  BY DEF IInv, AcceptOptions, machine, result
<1>3. /\ options' = [blockSize |-> parseMemorySize(args.block),
                     isSSD |-> args.disk = "SSD",
                     maxRamSize |-> parseMemorySize(args.ram)]
  BY DEF AcceptOptions
<1>4. /\ parseMemorySize(args.block) \in 0 .. SizeModulus - 1
      /\ parseMemorySize(args.ram) \in 0 .. SizeModulus - 1
  BY <1>1, ParsedSize DEF CommandLines, ValidOptions
<1>5. /\ options'.blockSize \in 0 .. SizeModulus - 1
      /\ options'.maxRamSize \in 0 .. SizeModulus - 1
      /\ options'.isSSD \in BOOLEAN
  BY <1>3, <1>4
<1>6. TypeOK'
  BY <1>1, <1>2, <1>5 DEF IInv, TypeOK
<1>7. Untouched' /\ Accepted'
  BY <1>1, <1>2, <1>5 DEF IInv, Untouched, Accepted, AcceptOptions
<1>. QED  BY <1>1, <1>6, <1>7 DEF IInv, Runnable, Unwinding, ExitCodeTruthful

LEMMA ConstructStep ==
  ASSUME IInv, Construct
  PROVE  IInv'
<1>1. /\ pc = "construct" /\ pc' = "start" /\ processors' \in 0 .. MaxConcurrency
      /\ UNCHANGED <<args, options, fileSize, success, output, warned, late, returnCode>>
  BY DEF Construct, result
<1>2. /\ options.blockSize > 0
      /\ getMaxQueueSize(options.blockSize, options.maxRamSize) > 0
  BY AcceptableSizes DEF IInv, Accepted, Construct
<1>3. TypeOK'
  BY <1>1 DEF IInv, TypeOK
<1>4. Runnable'
  BY <1>1, <1>2 DEF Runnable
<1>. QED  BY <1>1, <1>3, <1>4 DEF IInv, Untouched, Accepted, Unwinding, ExitCodeTruthful

LEMMA StartStep ==
  ASSUME IInv, Start
  PROVE  IInv'
<1>1. /\ pc = "start" /\ UNCHANGED <<args, options, processors, success, output, warned, late>>
      /\ fileSize' \in 0 .. MaxFileSize
      /\ \/ pc' = "run" /\ returnCode' = returnCode
         \/ pc' = "unwind" /\ returnCode' = 3
  BY DEF IInv, TypeOK, Start, result
<1>2. TypeOK'
  BY <1>1 DEF IInv, TypeOK
<1>. QED  BY <1>1, <1>2 DEF IInv, Untouched, Accepted, Runnable, Unwinding, ExitCodeTruthful

(* A run ends, with success or with an exception. *)
LEMMA RunStep ==
  ASSUME IInv, Finish \/ Throw
  PROVE  IInv'
<1>1. /\ pc = "run" /\ pc' = "unwind"
      /\ UNCHANGED <<args, options, processors, fileSize, warned>>
  BY DEF Finish, Throw, machine
<1>4. ~success /\ returnCode = 0
  BY <1>1 DEF IInv, Untouched
<1>5. /\ late' \in BOOLEAN /\ success' \in BOOLEAN
      /\ output' \in {"original", "partial", "signed"} /\ returnCode' \in 0 .. 3
  <2>1. CASE Finish
    BY <1>4, <2>1 DEF IInv, TypeOK, Finish
  <2>2. CASE Throw
    BY <2>2 DEF IInv, TypeOK, Throw
  <2>. QED  BY <2>1, <2>2
<1>2. TypeOK'
  BY <1>1, <1>5 DEF IInv, TypeOK
<1>3. Unwinding'
  BY <1>1, <1>4 DEF Finish, Throw, Unwinding
<1>. QED  BY <1>1, <1>2, <1>3 DEF IInv, Untouched, Accepted, Runnable, ExitCodeTruthful

LEMMA UnwindStep ==
  ASSUME IInv, Unwind
  PROVE  IInv'
<1>1. /\ pc = "unwind" /\ pc' = "exited" /\ args = None
      /\ UNCHANGED <<args, options, processors, fileSize, success, late, returnCode>>
      /\ warned' \in BOOLEAN /\ output' \in {"original", "partial", "signed"}
  BY DEF IInv, TypeOK, Accepted, Unwind, Exit, machine
<1>2. TypeOK'
  BY <1>1 DEF IInv, TypeOK
<1>3. ExitCodeTruthful'
  BY <1>1 DEF IInv, Unwinding, Unwind, ExitCodeTruthful
<1>. QED  BY <1>1, <1>2, <1>3 DEF IInv, Untouched, Accepted, Runnable, Unwinding

LEMMA NextIInv == IInv /\ [Next]_vars => IInv'
<1>. SUFFICES ASSUME IInv, [Next]_vars PROVE IInv'
  OBVIOUS
<1>1. CASE UNCHANGED vars
  BY <1>1 DEF vars, IInv, TypeOK, Untouched, Accepted, Runnable, Unwinding,
              ExitCodeTruthful
<1>2. CASE ShowHelp
  BY <1>2, ExitsEarly DEF ShowHelp
<1>3. CASE RejectOptions
  BY <1>3, ExitsEarly DEF RejectOptions
<1>4. CASE AcceptOptions
  BY <1>4, AcceptOptionsStep
<1>5. CASE DivideByZero
  BY <1>5 DEF DivideByZero, machine, result, IInv, TypeOK, Untouched, Accepted,
              Runnable, Unwinding, ExitCodeTruthful
<1>6. CASE RejectSizes
  BY <1>6, ExitsEarly DEF RejectSizes
<1>7. CASE ConstructionFails
  <2>1. PICK code \in {2, 3} : Exit(code)
    BY <1>7 DEF ConstructionFails
  <2>. QED  BY <1>7, <2>1, ExitsEarly DEF ConstructionFails
<1>8. CASE Construct
  BY <1>8, ConstructStep
<1>9. CASE Start
  BY <1>9, StartStep
<1>10. CASE Finish \/ Throw
  BY <1>10, RunStep
<1>11. CASE Unwind
  BY <1>11, UnwindStep
<1>12. CASE Terminate
  <2>1. /\ pc' = "crashed" /\ output' \in {"original", "partial"}
        /\ UNCHANGED <<args, options, processors, fileSize, success, warned, late, returnCode>>
    BY <1>12 DEF Terminate, machine
  <2>2. TypeOK'
    BY <2>1 DEF IInv, TypeOK
  <2>. QED  BY <2>1, <2>2 DEF IInv, Untouched, Accepted, Runnable, Unwinding, ExitCodeTruthful
<1>. QED  BY <1>1, <1>2, <1>3, <1>4, <1>5, <1>6, <1>7, <1>8, <1>9, <1>10, <1>11, <1>12
          DEF Next, Terminated

LEMMA InvariantHolds == Spec => []IInv
<1>. QED  BY InitIInv, NextIInv, PTL DEF Spec

LEMMA BudgetFromInvariant == IInv => ThreadBudget
<1>. SUFFICES ASSUME IInv, pc = "start" PROVE ThreadBudget
  BY DEF ThreadBudget
<1>1. processors \in Nat /\ options.isSSD \in BOOLEAN
  BY Widths DEF IInv, TypeOK, Accepted
<1>. QED  BY <1>1, ThreadBudgetAlways DEF ThreadBudget

LEMMA PartitionFromInvariant == IInv => BlocksPartitioned
<1>. SUFFICES ASSUME IInv, pc = "run" PROVE BlocksPartitioned
  BY DEF BlocksPartitioned
<1>. DEFINE bs == options.blockSize
            Blocks == 0 .. dataBlocksInFile(fileSize, bs) - 1
<1>1. bs \in Nat \ {0} /\ fileSize \in Nat
  BY Widths DEF IInv, TypeOK, Accepted, Runnable
<1>2. CASE fileSize = 0
  <2>1. dataBlocksInFile(fileSize, bs) = 0 /\ dataFramesInFile(fileSize, bs, OptimalDataFrameSize) = 0
    <3>. DEFINE n == ceilDevision(0, bs)
    <3>1. n \in Nat /\ (n - 1) * bs < 0
      BY <1>1, CeilBounds
    <3>. HIDE DEF n
    <3>2. n >= 1 => 0 * bs <= (n - 1) * bs
      BY <1>1, <3>1, MulMonotone
    <3>3. n = 0
      BY <1>1, <3>1, <3>2
    <3>. QED  BY <1>2, <3>3 DEF n, dataBlocksInFile, dataFramesInFile
  <2>2. Frames = {} /\ Blocks = {}
    BY <2>1 DEF Frames
  <2>. QED  BY <2>2 DEF BlocksPartitioned
<1>3. CASE fileSize # 0
  <2>. USE DEF Frames, BlocksOf
  <2>1. OptimalDataFrameSize \in Nat \ {0} /\ fileSize \in Nat \ {0}
    BY <1>1, <1>3, WidthsAssumption
  <2>2. /\ \A f \in Frames : BlocksOf(f) \subseteq Blocks
        /\ \A b \in Blocks :
             \E f \in Frames : /\ b \in BlocksOf(f)
                               /\ \A g \in Frames : b \in BlocksOf(g) => g = f
    BY <1>1, <2>1, BlocksPartitionedAlways
  <2>3. ASSUME NEW b \in Blocks
        PROVE  Cardinality({f \in Frames : b \in BlocksOf(f)}) = 1
    <3>1. PICK f \in Frames : /\ b \in BlocksOf(f)
                              /\ \A g \in Frames : b \in BlocksOf(g) => g = f
      BY <2>2
    <3>2. {g \in Frames : b \in BlocksOf(g)} = {f}
      BY <3>1
    <3>. QED  BY <3>2, FS_Singleton
  <2>. QED  BY <2>2, <2>3 DEF BlocksPartitioned
<1>. QED  BY <1>2, <1>3

LEMMA CoverFromInvariant == IInv => BytesCovered
<1>. SUFFICES ASSUME IInv, pc = "run", fileSize > 0 PROVE BytesCovered
  BY DEF BytesCovered
<1>1. options.blockSize \in Nat \ {0} /\ fileSize \in Nat
  BY Widths DEF IInv, TypeOK, Accepted, Runnable
<1>. QED  BY <1>1, CeilBounds DEF BytesCovered, dataBlocksInFile

-----------------------------------------------------------------------------
(* The types of the program's state: in particular what parseMemorySize    *)
(* accepts is a size_t whatever the user writes (lines 16-41).             *)
THEOREM TypeCorrect == Spec => []TypeOK
<1>1. IInv => TypeOK
  BY DEF IInv
<1>. QED  BY <1>1, InvariantHolds, PTL

(* The exit code tells how the run ended (main.cpp 16-50).                 *)
THEOREM ExitCodesAreTruthful == Spec => []ExitCodeTruthful
<1>1. IInv => ExitCodeTruthful
  BY DEF IInv
<1>. QED  BY <1>1, InvariantHolds, PTL

(* Whatever the machine, a thread is left to calculate (line 65).          *)
THEOREM ThreadBudgetHolds == Spec => []ThreadBudget
<1>. QED  BY BudgetFromInvariant, InvariantHolds, PTL

(* What the constructor accepted makes the arithmetic of makeConfigs and   *)
(* of the short read right for every file: its blocks are divided among    *)
(* the frames (datafilewrapper.cpp 29-42, datafile.cpp 39-41).             *)
THEOREM BlocksArePartitioned == Spec => []BlocksPartitioned
<1>. QED  BY PartitionFromInvariant, InvariantHolds, PTL

(* No byte of any file is left out, and no block is empty (makeConfigs     *)
(* line 29; ceilDevision).                                                 *)
THEOREM BytesAreCovered == Spec => []BytesCovered
<1>. QED  BY CoverFromInvariant, InvariantHolds, PTL

-----------------------------------------------------------------------------
(* The integration test and the program it runs: what a pass means, when   *)
(* the test blames the program, and what it leaves behind.  While the test *)
(* has not started the program nothing has happened to the program's       *)
(* variables; from then on the program's invariant holds.  What is added   *)
(* is what the sizes become on their way through the test.                 *)

Stages == {"absent", "options", "ensure", "child", "simple", "compare", "exited", "aborted"}

(* What the test has made of its own options. *)
Sizes ==
  /\ test.help = FALSE /\ test.disk \in {"HDD", "SSD", "other"}
  /\ test.blockSize \in Numbers /\ test.blockSize \in 0 .. SizeModulus - 1
  /\ test.maxRamSize \in Numbers

(* How a run of the program ends. *)
Outcome ==
  /\ output = "signed" => success
  /\ success => args = None /\ options.blockSize \in Nat \ {0}

(* The child works on what it was given. *)
ChildOK ==
  /\ IInv /\ Outcome
  /\ args \in {None, ChildArgs}
  /\ pc # "parse" /\ args = None => options.blockSize = parseMemorySize(ChildArgs.block)

StagesOK ==
  /\ stage \in Stages /\ files \subseteq {"actual", "expected"}
  /\ stage = "absent" => IInv
  /\ stage \in {"options", "ensure"} => NotRunYet
  /\ stage = "options" => test \in TestCommandLines
  /\ stage \in {"ensure", "child", "simple", "compare"} => Sizes
  /\ stage = "child" => ChildOK /\ files = {}
  /\ stage \in {"simple", "compare"} => /\ ChildOK /\ pc = "exited" /\ returnCode = 0
                                       /\ "actual" \in files
  /\ stage = "compare" => written \in Nat
  /\ stage = "compare" /\ unnoticed = {} => written = SimpleCount /\ "expected" \in files
  /\ stage \in {"exited", "aborted"} => NotRunYet \/ IInv

TestInv == StagesOK /\ PassMeansSigned /\ NoFalseAlarm /\ TestCanBeRepeated

-----------------------------------------------------------------------------
(* The child's command line is one that Program knows. *)
LEMMA ChildArgsAreArgs == Sizes => ChildArgs \in CommandLines /\ ChildArgs # None
<1>. SUFFICES ASSUME Sizes PROVE ChildArgs \in CommandLines /\ ChildArgs # None
  OBVIOUS
<1>1. /\ [number |-> test.blockSize, suffix |-> ""] \in SizeStrings
      /\ [number |-> test.maxRamSize, suffix |-> ""] \in SizeStrings
  BY DEF Sizes, SizeStrings, Suffixes
<1>2. ChildArgs \in CommandLines
  BY <1>1 DEF Sizes, ChildArgs, CommandLines
<1>. QED  BY <1>2, CommandLinesAssumption

(* A size below the range of int reaches the child as it is. *)
LEMMA SmallSizesArrive ==
  ASSUME Sizes, test.blockSize < IntModulus \div 2
  PROVE  parseMemorySize(ChildArgs.block) = test.blockSize
<1>. USE Widths
<1>. DEFINE n == test.blockSize
            str == ChildArgs.block
<1>1. n \in Nat /\ n < SizeModulus
  BY DEF Sizes
<1>2. n < IntModulus
  <2>1. IntModulus \div 2 <= IntModulus
    BY SMTT(30)
  <2>2. IntModulus \div 2 \in Nat
    BY DivMod
  <2>. QED  BY <1>1, <2>1, <2>2
<1>3. n % IntModulus = n /\ n % SizeModulus = n
  BY <1>1, <1>2, SMTT(30)
<1>4. atoi(n) = n
  BY <1>3 DEF atoi
<1>5. str.number = n /\ str.suffix = ""
  BY DEF ChildArgs
<1>6. n * 1 = n
  BY <1>1
<1>. HIDE DEF n, str
<1>7. FromLiteralsToNumber(str.suffix) = 1
  BY <1>5 DEF FromLiteralsToNumber
<1>8. parseMemorySize(str) = (n * 1) % SizeModulus
  BY <1>4, <1>5, <1>7 DEF parseMemorySize
<1>9. parseMemorySize(str) = n
  BY <1>3, <1>6, <1>8
<1>. QED  BY <1>9 DEF n, str

-----------------------------------------------------------------------------
(* Steps of the test alone. *)
LEMMA ProgramSame ==
  ASSUME UNCHANGED vars
  PROVE  (IInv => IInv') /\ (Outcome => Outcome') /\ (NotRunYet => NotRunYet')
<1>1. IInv => IInv'
  BY DEF vars, IInv, TypeOK, Untouched, Accepted, Runnable, Unwinding, ExitCodeTruthful
<1>2. (Outcome => Outcome') /\ (NotRunYet => NotRunYet')
  BY DEF vars, Outcome, NotRunYet
<1>. QED  BY <1>1, <1>2

LEMMA ChildSame ==
  ASSUME UNCHANGED vars, test' = test
  PROVE  (ChildOK => ChildOK') /\ (Sizes => Sizes')
<1>1. ChildArgs' = ChildArgs /\ (Sizes => Sizes')
  BY DEF ChildArgs, Sizes
<1>2. pc' = pc /\ args' = args /\ options' = options
  BY DEF vars
<1>3. parseMemorySize(ChildArgs.block)' = parseMemorySize(ChildArgs.block)
  BY DEF ChildArgs
<1>. QED  BY <1>1, <1>2, <1>3, ProgramSame DEF ChildOK

(* Steps of the program. *)
LEMMA OutcomeStep ==
  ASSUME IInv, Outcome, Next
  PROVE  Outcome'
<1>1. CASE pc = "parse"
  <2>1. ~success' /\ output' = "original"
    BY <1>1 DEF IInv, Untouched, Next, ShowHelp, RejectOptions, AcceptOptions, DivideByZero,
       RejectSizes, ConstructionFails, Construct, Start, Finish, Throw, Terminate, Unwind, Terminated,
       Exit, result
  <2>. QED  BY <2>1 DEF Outcome
<1>2. CASE pc \in {"construct", "start"}
  <2>1. ~success' /\ output' = "original"
    BY <1>2 DEF IInv, Untouched, Next, ShowHelp, RejectOptions, AcceptOptions, DivideByZero,
       RejectSizes, ConstructionFails, Construct, Start, Finish, Throw, Terminate, Unwind, Terminated,
       Exit, result
  <2>. QED  BY <2>1 DEF Outcome
<1>3. CASE Finish \/ Throw
  <2>1. options' = options /\ args' = None /\ options.blockSize \in Nat \ {0}
    BY <1>3, Widths DEF IInv, Accepted, Runnable, Finish, Throw
  <2>2. output' = "signed" => success'
    BY <1>3 DEF Finish, Throw
  <2>. QED  BY <2>1, <2>2 DEF Outcome
<1>4. CASE Terminate \/ Unwind
  <2>1. UNCHANGED <<args, options, success>> /\ (output' = "signed" => output = "signed")
    BY <1>4 DEF Terminate, Unwind
  <2>. QED  BY <2>1 DEF Outcome
<1>6. CASE pc = "run" \/ pc = "unwind"
  <2>1. Finish \/ Throw \/ Terminate \/ Unwind
    BY <1>6 DEF Next, ShowHelp, RejectOptions, AcceptOptions, DivideByZero,
       RejectSizes, ConstructionFails, Construct, Start, Terminated
  <2>. QED  BY <2>1, <1>3, <1>4
<1>5. CASE pc \in {"exited", "crashed"}
  <2>1. UNCHANGED vars
    BY <1>5 DEF Next, ShowHelp, RejectOptions, AcceptOptions, DivideByZero,
       RejectSizes, ConstructionFails, Construct, Start, Finish, Throw, Terminate, Unwind, Terminated
  <2>. QED  BY <2>1 DEF vars, Outcome
<1>. QED  BY <1>1, <1>2, <1>5, <1>6 DEF IInv, TypeOK

LEMMA ChildStep ==
  ASSUME Sizes, ChildOK, Next, test' = test
  PROVE  ChildOK'
<1>1. IInv' /\ Outcome'
  BY NextIInv, OutcomeStep DEF ChildOK
<1>2. ChildArgs' = ChildArgs /\ ChildArgs # None
  BY ChildArgsAreArgs DEF ChildArgs
<1>3. CASE AcceptOptions
  <2>1. args = ChildArgs
    BY <1>3, CommandLinesAssumption DEF AcceptOptions, ChildOK, IInv, Accepted
  <2>2. args' = None /\ options'.blockSize = parseMemorySize(args.block)
    BY <1>3 DEF AcceptOptions
  <2>. QED  BY <1>1, <1>2, <2>1, <2>2 DEF ChildOK
<1>4. CASE ~AcceptOptions
  <2>1. args' = args /\ options' = options /\ (pc = "parse" /\ pc' # "parse" => args # None)
    BY <1>4, CommandLinesAssumption
       DEF IInv, Accepted, ChildOK, Next, ShowHelp, RejectOptions, DivideByZero, RejectSizes,
           ConstructionFails, Construct, Start, Finish, Throw, Terminate, Unwind, Terminated, vars
  <2>. QED  BY <1>1, <1>2, <2>1 DEF ChildOK
<1>. QED  BY <1>3, <1>4

-----------------------------------------------------------------------------
LEMMA InitTestInv == TestInit => TestInv
<1>. SUFFICES ASSUME TestInit PROVE TestInv
  OBVIOUS
<1>1. stage \in {"absent", "options"} /\ StagesOK
  BY InitIInv DEF TestInit, StagesOK, Stages
<1>. QED  BY <1>1 DEF TestInv, PassMeansSigned, NoFalseAlarm, TestCanBeRepeated, Passed

(* A user's run of the program, or the child's. *)
LEMMA ProgramStep ==
  ASSUME TestInv, stage \in {"absent", "child"}, Next, UNCHANGED testVars
  PROVE  TestInv'
<1>1. /\ stage' = stage /\ test' = test /\ files' = files /\ verdict' = verdict
      /\ Sizes' <=> Sizes
  BY DEF testVars, simple, Sizes
<1>2. stage = "absent" => IInv'
  BY NextIInv DEF TestInv, StagesOK
<1>3. stage = "child" => ChildOK'
  BY <1>1, ChildStep DEF TestInv, StagesOK
<1>4. StagesOK'
  BY <1>1, <1>2, <1>3 DEF TestInv, StagesOK
<1>. QED  BY <1>1, <1>4 DEF TestInv, PassMeansSigned, NoFalseAlarm, TestCanBeRepeated, Passed

(* The test ends without a verdict on the program, or has not begun.       *)
LEMMA StartOfTest ==
  ASSUME TestInv, \/ TestShowsHelp \/ TestOptionsRejected \/ TestOptionsAccepted
                  \/ FilesInTheWay \/ NoSuchProgram
  PROVE  TestInv'
<1>1. /\ UNCHANGED vars /\ files' = files
      /\ IInv' <=> IInv
      /\ NotRunYet' <=> NotRunYet
  <2>1. UNCHANGED vars /\ files' = files
    BY DEF TestShowsHelp, TestOptionsRejected, TestOptionsAccepted, FilesInTheWay, NoSuchProgram
  <2>. QED  BY <2>1 DEF vars, IInv, TypeOK, Untouched, Accepted, Runnable, Unwinding,
                ExitCodeTruthful, NotRunYet
<1>2. CASE TestOptionsAccepted
  <2>1. stage = "options" /\ stage' = "ensure" /\ test \in TestCommandLines
    BY <1>2 DEF TestOptionsAccepted, TestInv, StagesOK
  <2>2. /\ parseMemorySize(test.block) \in Numbers /\ parseMemorySize(test.ram) \in Numbers
        /\ parseMemorySize(test.block) \in 0 .. SizeModulus - 1
        /\ test.disk \in {"HDD", "SSD", "other"}
    BY <1>2, <2>1, ParsedSize DEF TestOptionsAccepted, TestCommandLines
  <2>3. Sizes'
    BY <1>2, <2>2 DEF TestOptionsAccepted, Sizes
  <2>4. StagesOK'
    BY <1>1, <2>1, <2>3 DEF TestInv, StagesOK, Stages
  <2>. QED  BY <2>1, <2>4 DEF TestInv, PassMeansSigned, NoFalseAlarm, TestCanBeRepeated, Passed
<1>3. CASE TestShowsHelp
  <2>1. stage' = "exited" /\ verdict' = 0 /\ test'.help /\ (NotRunYet \/ IInv)
    BY <1>3 DEF TestShowsHelp, Conclude, TestInv, StagesOK
  <2>. QED  BY <1>1, <2>1 DEF TestInv, StagesOK, Stages, PassMeansSigned, NoFalseAlarm, TestCanBeRepeated, Passed
<1>4. CASE FilesInTheWay
  <2>1. stage' = "exited" /\ verdict' = 1 /\ (NotRunYet \/ IInv)
    BY <1>4 DEF FilesInTheWay, Conclude, TestInv, StagesOK
  <2>. QED  BY <1>1, <2>1 DEF TestInv, StagesOK, Stages, PassMeansSigned, NoFalseAlarm, TestCanBeRepeated, Passed
<1>5. CASE TestOptionsRejected \/ NoSuchProgram
  <2>1. stage' = "aborted" /\ (NotRunYet \/ IInv)
    BY <1>5 DEF TestOptionsRejected, NoSuchProgram, Abort, TestInv, StagesOK, ChildOK
  <2>. QED  BY <1>1, <2>1 DEF TestInv, StagesOK, Stages, PassMeansSigned, NoFalseAlarm, TestCanBeRepeated, Passed
<1>. QED  BY <1>2, <1>3, <1>4, <1>5

LEMMA StartChildStep ==
  ASSUME TestInv, StartChild
  PROVE  TestInv'
<1>1. /\ stage = "ensure" /\ stage' = "child" /\ files' = {} /\ test' = test
      /\ args' = ChildArgs /\ Sizes /\ NotRunYet
      /\ UNCHANGED <<pc, options, processors, fileSize, success, output, warned, late, returnCode>>
  BY DEF StartChild, TestInv, StagesOK, machine, result
<1>2. ChildArgs \in CommandLines /\ ChildArgs' = ChildArgs /\ Sizes'
  BY <1>1, ChildArgsAreArgs DEF ChildArgs, Sizes
<1>3. Init'
  BY <1>1, <1>2 DEF Init, NotRunYet
<1>4. Init' => IInv'
  BY InitIInv, PTL
<1>5. ChildOK'
  BY <1>1, <1>2, <1>3, <1>4 DEF ChildOK, Outcome, NotRunYet
<1>6. StagesOK'
  BY <1>1, <1>2, <1>5 DEF StagesOK, Stages
<1>. QED  BY <1>1, <1>6 DEF TestInv, PassMeansSigned, NoFalseAlarm, TestCanBeRepeated, Passed

(* The test looks at the child's exit code. *)
LEMMA ChildExitsStep ==
  ASSUME TestInv, ChildExits
  PROVE  TestInv'
<1>1. /\ stage = "child" /\ pc \in {"exited", "crashed"} /\ Sizes /\ ChildOK /\ files = {}
      /\ UNCHANGED vars /\ test' = test
      /\ files' = FilesOfChild /\ files' \subseteq {"actual", "expected"}
  BY DEF ChildExits, TestInv, StagesOK, FilesOfChild
<1>2. IInv' /\ ChildOK' /\ Sizes'
  BY <1>1, ProgramSame, ChildSame DEF ChildOK
<1>3. CASE pc = "exited" /\ returnCode = 0
  <2>1. stage' = "simple" /\ pc' = "exited" /\ returnCode' = 0
    BY <1>1, <1>3 DEF ChildExits, vars
  <2>2. "actual" \in files'
    <3>1. args = None \/ ~args.help
      <4>1. ChildArgs.help = FALSE
        BY DEF ChildArgs
      <4>. QED  BY <1>1, <4>1 DEF ChildOK
    <3>2. output = "signed"
      BY <1>1, <1>3, <3>1 DEF ChildOK, IInv, ExitCodeTruthful
    <3>. QED  BY <1>1, <3>2 DEF FilesOfChild
  <2>. QED  BY <1>1, <1>2, <2>1, <2>2 DEF TestInv, StagesOK, Stages, PassMeansSigned,
                NoFalseAlarm, TestCanBeRepeated, Passed
<1>4. CASE ~(pc = "exited" /\ returnCode = 0)
  <2>1. stage' = "exited" /\ verdict' = 3
    BY <1>4 DEF ChildExits, Conclude
  <2>2. pc = "exited" => output = "original" \/ warned \/ late
    BY <1>1, <1>4 DEF ChildOK, IInv, ExitCodeTruthful
  <2>3. pc' = "exited" => files' = {} \/ warned' \/ late'
    BY <1>1, <2>2 DEF FilesOfChild, vars
  <2>. QED  BY <1>1, <1>2, <2>1, <2>3 DEF TestInv, StagesOK, Stages, ChildOK, PassMeansSigned,
                NoFalseAlarm, TestCanBeRepeated, Passed
<1>. QED  BY <1>3, <1>4

(* How many checksums the simple loop should write is a number. *)
LEMMA CountIsNumber == Sizes /\ IInv => SimpleCount \in Nat
<1>. SUFFICES ASSUME Sizes, IInv PROVE SimpleCount \in Nat
  OBVIOUS
<1>1. test.blockSize \in Nat /\ fileSize \in Nat
  BY Widths DEF Sizes, IInv, TypeOK
<1>. QED  BY <1>1, CeilBounds DEF SimpleCount

LEMMA CalculateSimplyStep ==
  ASSUME TestInv, CalculateSimply
  PROVE  TestInv'
<1>1. /\ stage = "simple" /\ stage' \in {"compare", "aborted"} /\ UNCHANGED vars /\ test' = test
      /\ files' \subseteq {"actual", "expected"} /\ "actual" \in files' /\ Sizes /\ ChildOK
      /\ pc = "exited" /\ returnCode = 0
  BY DEF CalculateSimply, Abort, TestInv, StagesOK
<1>2. IInv' /\ ChildOK' /\ Sizes' /\ pc' = pc /\ returnCode' = returnCode
  BY <1>1, ProgramSame, ChildSame DEF ChildOK, vars
<1>3. SimpleCount \in Nat /\ SimpleCount' = SimpleCount
  BY <1>1, CountIsNumber DEF ChildOK, vars, SimpleCount
<1>4. CASE stage' = "compare"
  <2>1. /\ written' \in 0 .. SimpleCount
        /\ unnoticed' = {} => written' = SimpleCount /\ "expected" \in files'
    BY <1>4 DEF CalculateSimply, Abort
  <2>2. written' \in Nat
    BY <1>3, <2>1
  <2>. QED  BY <1>1, <1>2, <1>3, <1>4, <2>1, <2>2 DEF TestInv, StagesOK, Stages, ChildOK,
                PassMeansSigned, NoFalseAlarm, TestCanBeRepeated, Passed
<1>5. CASE stage' = "aborted"
  BY <1>1, <1>2, <1>5 DEF TestInv, StagesOK, Stages, ChildOK, PassMeansSigned, NoFalseAlarm,
     TestCanBeRepeated, Passed
<1>. QED  BY <1>1, <1>4, <1>5

(* A block size within the range of int is the one the child works with. *)
LEMMA SameBlocks ==
  ASSUME Sizes, ChildOK, pc = "exited", args = None, test.blockSize < IntModulus \div 2
  PROVE  options.blockSize = test.blockSize
BY SmallSizesArrive DEF ChildOK

(* The two outputs are compared. *)
LEMMA CompareStep ==
  ASSUME TestInv, Compare
  PROVE  TestInv'
<1>1. /\ stage = "compare" /\ UNCHANGED vars /\ test' = test /\ written' = written
      /\ Sizes /\ ChildOK /\ pc = "exited" /\ returnCode = 0
      /\ files \subseteq {"actual", "expected"} /\ "actual" \in files
      /\ unnoticed = {} => written = SimpleCount /\ "expected" \in files
  BY DEF Compare, TestInv, StagesOK
<1>2. IInv'
  BY <1>1, ProgramSame DEF ChildOK
<1>3. output = "signed" /\ success /\ options.blockSize \in Nat \ {0} /\ args = None
  <2>1. args = None \/ ~args.help
    <3>1. ChildArgs.help = FALSE
      BY DEF ChildArgs
    <3>. QED  BY <1>1, <3>1 DEF ChildOK
  <2>. QED  BY <1>1, <2>1 DEF ChildOK, IInv, ExitCodeTruthful, Outcome
<1>4. /\ dataBlocksInFile(fileSize, options.blockSize)' = dataBlocksInFile(fileSize, options.blockSize)
      /\ SimpleCount' = SimpleCount /\ success' = success /\ output' = output
  BY <1>1 DEF vars, SimpleCount, dataBlocksInFile, ceilDevision
<1>5. test.blockSize < IntModulus \div 2 =>
        /\ options.blockSize = test.blockSize
        /\ dataBlocksInFile(fileSize, options.blockSize) = SimpleCount
  BY <1>1, <1>3, SameBlocks DEF SimpleCount, dataBlocksInFile
<1>6. \/ \E equal \in {e \in BOOLEAN : MayAgree(e)} :
           \/ equal /\ Conclude(0) /\ files' = RemoveFiles
           \/ equal /\ Abort /\ files' \in {files, files \ {"actual"}}
           \/ ~equal /\ Conclude(4) /\ files' = files /\ unnoticed' = unnoticed
      \/ Conclude(4) /\ unnoticed' = unnoticed \cup {"diff"} /\ files' = files
  BY DEF Compare
<1>7. CASE MayAgree(TRUE) /\ Conclude(0) /\ files' = RemoveFiles
  <2>1. stage' = "exited" /\ verdict' = 0 /\ files' = {}
    BY <1>1, <1>7 DEF Conclude, RemoveFiles
  <2>2. dataBlocksInFile(fileSize, options.blockSize) = written
    BY <1>3, <1>7 DEF MayAgree, MustDiffer
  <2>. QED  BY <1>1, <1>2, <1>3, <1>4, <1>5, <2>1, <2>2 DEF TestInv, StagesOK, Stages, ChildOK,
                PassMeansSigned, NoFalseAlarm, TestCanBeRepeated, Passed
<1>8. CASE Abort /\ files' \subseteq files
  <2>1. stage' = "aborted" /\ files' \subseteq {"actual", "expected"}
    BY <1>1, <1>8 DEF Abort
  <2>. QED  BY <1>2, <2>1 DEF TestInv, StagesOK, Stages,
                PassMeansSigned, NoFalseAlarm, TestCanBeRepeated, Passed
<1>9. CASE Conclude(4) /\ files' = files /\ (unnoticed' # {} \/ (unnoticed' = unnoticed /\ MayAgree(FALSE)))
  <2>1. stage' = "exited" /\ verdict' = 4
    BY <1>9 DEF Conclude
  <2>2. unnoticed' # {} \/ ~(test.blockSize < IntModulus \div 2)
    <3>. SUFFICES ASSUME unnoticed' = {}, test.blockSize < IntModulus \div 2
                  PROVE  FALSE
      OBVIOUS
    <3>1. unnoticed = {} /\ MayAgree(FALSE)
      BY <1>9
    <3>2. files = {"actual", "expected"} /\ written = SimpleCount
      BY <1>1, <3>1
    <3>3. options.blockSize = test.blockSize
          /\ dataBlocksInFile(fileSize, options.blockSize) = written
      BY <1>5, <3>2
    <3>. QED  BY <1>3, <3>1, <3>2, <3>3 DEF MayAgree, MustDiffer
  <2>3. unnoticed' # {} \/ test.blockSize >= IntModulus \div 2
    <3>1. test.blockSize \in Nat /\ IntModulus \div 2 \in Nat
      BY <1>1, Widths, DivMod DEF Sizes
    <3>. QED  BY <2>2, <3>1
  <2>. QED  BY <1>1, <1>2, <1>9, <2>1, <2>3 DEF TestInv, StagesOK, Stages, ChildOK,
                PassMeansSigned, NoFalseAlarm, TestCanBeRepeated, Passed
<1>. QED
  <2>1. CASE Conclude(4) /\ unnoticed' = unnoticed \cup {"diff"} /\ files' = files
    <3>1. unnoticed' # {}
      BY <2>1
    <3>2. /\ Conclude(4) /\ files' = files
          /\ (unnoticed' # {} \/ (unnoticed' = unnoticed /\ MayAgree(FALSE)))
      BY <2>1, <3>1
    <3>. QED  BY <3>2, <1>9
  <2>2. ASSUME NEW equal \in BOOLEAN, MayAgree(equal),
               \/ equal /\ Conclude(0) /\ files' = RemoveFiles
               \/ equal /\ Abort /\ files' \in {files, files \ {"actual"}}
               \/ ~equal /\ Conclude(4) /\ files' = files /\ unnoticed' = unnoticed
        PROVE  TestInv'
    <3>1. CASE equal = TRUE
      <4>1. MayAgree(TRUE)
        BY <2>2, <3>1
      <4>2. \/ Conclude(0) /\ files' = RemoveFiles
            \/ Abort /\ files' \in {files, files \ {"actual"}}
        BY <2>2, <3>1
      <4>. QED  BY <4>1, <4>2, <1>7, <1>8
    <3>2. CASE equal = FALSE
      <4>1. MayAgree(FALSE)
        BY <2>2, <3>2
      <4>2. Conclude(4) /\ files' = files /\ unnoticed' = unnoticed
        BY <2>2, <3>2
      <4>. QED  BY <4>1, <4>2, <1>9
    <3>. QED  BY <3>1, <3>2
  <2>. QED  BY <1>6, <2>1, <2>2

LEMMA NextTestInv == TestInv /\ [TestNext]_allVars => TestInv'
<1>. SUFFICES ASSUME TestInv, [TestNext]_allVars PROVE TestInv'
  OBVIOUS
<1>1. CASE UNCHANGED allVars
  <2>1. /\ UNCHANGED vars /\ UNCHANGED testVars /\ test' = test
        /\ written' = written /\ unnoticed' = unnoticed
    BY <1>1 DEF allVars, testVars, simple
  <2>2. dataBlocksInFile(fileSize, options.blockSize)' = dataBlocksInFile(fileSize, options.blockSize)
        /\ SimpleCount' = SimpleCount
    BY <2>1 DEF vars, SimpleCount
  <2>3. StagesOK'
    BY <2>1, <2>2, ProgramSame, ChildSame DEF testVars, vars, TestInv, StagesOK
  <2>. QED  BY <2>1, <2>2, <2>3 DEF testVars, vars, TestInv, PassMeansSigned, NoFalseAlarm,
                TestCanBeRepeated, Passed
<1>. QED  BY <1>1, ProgramStep, StartOfTest, StartChildStep, ChildExitsStep,
              CalculateSimplyStep, CompareStep DEF TestNext, TestTerminated

LEMMA TestInvariantHolds == TestSpec => []TestInv
<1>. QED  BY InitTestInv, NextTestInv, PTL DEF TestSpec

-----------------------------------------------------------------------------
(* A test that passes has tested a run that reported success and whose     *)
(* output is complete, whatever its own streams have swallowed             *)
(* (integrationtest.cpp 97-102, 114-125 and 157-160), for all numbers,     *)
(* widths and files.                                                       *)
THEOREM PassesMeanSigned == TestSpec => []PassMeansSigned
<1>1. TestInv => PassMeansSigned
  BY DEF TestInv
<1>. QED  BY <1>1, TestInvariantHolds, PTL

(* The test blames the program wrongly only with a block size beyond the   *)
(* range of int, or after a failure of its own streams, or of diff, that   *)
(* it does not look at (integrationtest.cpp 92, 114-124 and 134,           *)
(* programmoptions.cpp:27).                                                *)
THEOREM AlarmsAreTrue == TestSpec => []NoFalseAlarm
<1>1. TestInv => NoFalseAlarm
  BY DEF TestInv
<1>. QED  BY <1>1, TestInvariantHolds, PTL

(* Nothing is in the way of the next test after a program that has ended   *)
(* by itself, unless it has said so or its writer came late                *)
(* (integrationtest.cpp 25-38 and 162).  Nothing is claimed of a program   *)
(* that was killed (datafile.cpp 52-55).                                   *)
THEOREM TestsCanBeRepeated == TestSpec => []TestCanBeRepeated
<1>1. TestInv => TestCanBeRepeated
  BY DEF TestInv
<1>. QED  BY <1>1, TestInvariantHolds, PTL

(* What ProgramProofs shows of the program holds as well for the program   *)
(* that the test starts with sizes of its own making.                      *)
THEOREM ChildIsTheProgram ==
  TestSpec => [](/\ TypeOK /\ ExitCodeTruthful
                 /\ BlocksPartitioned /\ BytesCovered /\ ThreadBudget)
<1>1. TestInv => NotRunYet \/ IInv
  BY DEF TestInv, StagesOK, Stages, ChildOK
<1>2. NotRunYet => /\ TypeOK /\ ExitCodeTruthful
                   /\ BlocksPartitioned /\ BytesCovered /\ ThreadBudget
  <2>1. 0 \in 0 .. MaxConcurrency /\ 0 \in 0 .. MaxFileSize
    BY Widths
  <2>2. NotRunYet => TypeOK
    <3>1. NotRunYet => /\ processors \in 0 .. MaxConcurrency /\ fileSize \in 0 .. MaxFileSize
                       /\ returnCode \in 0 .. 3
      BY <2>1 DEF NotRunYet
    <3>2. NotRunYet => success \in BOOLEAN /\ warned \in BOOLEAN /\ late \in BOOLEAN
      BY DEF NotRunYet
    <3>. QED  BY <3>1, <3>2 DEF NotRunYet, TypeOK
  <2>3. NotRunYet => /\ ExitCodeTruthful
                     /\ BlocksPartitioned /\ BytesCovered /\ ThreadBudget
    BY DEF NotRunYet, ExitCodeTruthful, BlocksPartitioned, BytesCovered, ThreadBudget
  <2>. QED  BY <2>2, <2>3
<1>3. IInv => /\ TypeOK /\ ExitCodeTruthful
              /\ BlocksPartitioned /\ BytesCovered /\ ThreadBudget
  BY PartitionFromInvariant, CoverFromInvariant, BudgetFromInvariant DEF IInv
<1>. QED  BY <1>1, <1>2, <1>3, TestInvariantHolds, PTL
=============================================================================
