------------------------------ MODULE Program ------------------------------
(***************************************************************************)
(* main: the command line becomes Options, a CrcSignatureOfFile is made    *)
(* and run, exceptions become messages and exit codes.  The run itself is  *)
(* Pipeline's; here it is one step that signs the output, throws or ends   *)
(* the program.                                                            *)
(*                                                                         *)
(* A size on the command line is a record of the number it begins with and *)
(* the letters after it.  int and size_t have IntModulus and SizeModulus   *)
(* values.  Boost.Program_options, atoi of glibc and the file system are   *)
(* modelled as the code uses them.                                         *)
(***************************************************************************)
EXTENDS Sizing, FiniteSets

CONSTANTS KB, MB, GB, OptimalDataFrameSize,
          IntModulus, SizeModulus,
          None,            \* no number, command line or options
          Numbers,         \* numbers users write
          MaxFileSize,     \* bound on the size of the input file
          MaxConcurrency   \* bound on the number of processors

ASSUME WidthsAssumption ==
  /\ {KB, MB, GB, OptimalDataFrameSize, IntModulus, SizeModulus} \subseteq Nat \ {0}
  /\ Numbers \subseteq Nat /\ None \notin Numbers /\ MaxFileSize \in Nat /\ MaxConcurrency \in Nat
  /\ \A literal \in {KB, MB, GB} : literal < SizeModulus

(* "GG": two letters that are no literal; "B": fewer or more than two. *)
Suffixes == {"", "KB", "MB", "GB", "GG", "B"}
SizeStrings == [number : Numbers \cup {None}, suffix : Suffixes]

FromLiteralsToNumber(suffix) == CASE suffix = "KB" -> KB
                                  [] suffix = "MB" -> MB
                                  [] suffix = "GB" -> GB
                                  [] OTHER -> 1

(* parseMemorySize throws unless there is a number, alone or with one of   *)
(* the literals behind it.                                                 *)
IsMemorySize(str) == str.number # None /\ str.suffix \in {"", "KB", "MB", "GB"}

(* Out of the range of int the standard leaves atoi undefined; glibc       *)
(* converts to long and cuts off.                                          *)
atoi(number) == LET low == number % IntModulus
                IN  IF low < IntModulus \div 2 THEN low ELSE low - IntModulus

(* A slip: the product is an int. *)
parseMemorySizeSigned(str) == atoi(str.number) * FromLiteralsToNumber(str.suffix)

(* The int is converted to size_t and multiplied there. *)
parseMemorySize(str) == (atoi(str.number) * FromLiteralsToNumber(str.suffix)) % SizeModulus

CommandLines ==
  [wellFormed : BOOLEAN,    \* only known options, each with its value
   help : BOOLEAN, input : BOOLEAN, output : BOOLEAN,   \* is it given?
   disk : {"HDD", "SSD", "other"},
   block : SizeStrings, ram : SizeStrings]

ASSUME CommandLinesAssumption == None \notin CommandLines

VARIABLES
  pc,           \* where main is
  args,         \* the command line, None once it is accepted
  options,      \* the Options, None before
  processors,   \* hardware_concurrency()
  fileSize,     \* the size of the input file
  success,      \* success_
  output,       \* the output file: "original", "partial" or "signed"
  warned,       \* has the user been told that it cannot be restored?
  late,         \* does the writer still run when main cleans up?
  returnCode    \* the exit code decided on, or thrown towards

vars == <<pc, args, options, processors, fileSize, success, output, warned, late, returnCode>>
machine == <<processors, fileSize>>
result == <<success, output, warned, late>>

Init ==
  /\ pc = "parse" /\ args \in CommandLines /\ options = None
  /\ processors = 0 /\ fileSize = 0
  /\ success = FALSE /\ output = "original" /\ warned = FALSE
  /\ late = FALSE /\ returnCode = 0

Exit(code) == pc' = "exited" /\ returnCode' = code

-----------------------------------------------------------------------------
(* getOptionsOrHelpStr: store and notify come first. *)
Notified(a) == a.wellFormed /\ a.input /\ a.output

ShowHelp == /\ pc = "parse" /\ Notified(args) /\ args.help
            /\ Exit(0)
            /\ UNCHANGED <<args, options, machine, result>>

ValidOptions(a) == a.disk # "other" /\ IsMemorySize(a.block) /\ IsMemorySize(a.ram)

(* boost::program_options::error *)
RejectOptions == /\ pc = "parse"
                 /\ ~Notified(args) \/ (~args.help /\ ~ValidOptions(args))
                 /\ Exit(1)
                 /\ UNCHANGED <<args, options, machine, result>>

AcceptOptions ==
  /\ pc = "parse" /\ Notified(args) /\ ~args.help /\ ValidOptions(args)
  /\ options' = [blockSize |-> parseMemorySize(args.block),
                 isSSD |-> args.disk = "SSD",
                 maxRamSize |-> parseMemorySize(args.ram)]
  /\ args' = None /\ pc' = "construct"
  /\ UNCHANGED <<machine, result, returnCode>>

-----------------------------------------------------------------------------
(* The constructor of CrcSignatureOfFile.  getMaxQueueSize divides by the  *)
(* size of a block plus one, as a size_t.                                  *)
Divisor == (options.blockSize + Crc8ResultSize) % SizeModulus

DivideByZero == /\ pc = "construct" /\ Divisor = 0
                /\ pc' = "crashed"
                /\ UNCHANGED <<args, options, machine, result, returnCode>>

(* std::invalid_argument and std::logic_error are thrown otherwise. *)
Acceptable == /\ getMaxQueueSize(options.blockSize, options.maxRamSize) # 0
              /\ options.blockSize # 0

(* A constructor that throws leaves no object, so nothing is cleaned up. *)
RejectSizes == /\ pc = "construct" /\ Divisor # 0 /\ ~Acceptable
               /\ Exit(3)
               /\ UNCHANGED <<args, options, machine, result>>

(* A thread or memory is not to be had, or the output cannot be examined. *)
ConstructionFails == /\ pc = "construct"
                     /\ \E code \in {2, 3} : Exit(code)
                     /\ UNCHANGED <<args, options, machine, result>>

Construct == /\ pc = "construct" /\ Divisor # 0 /\ Acceptable
             /\ processors' \in 0 .. MaxConcurrency
             /\ pc' = "start"
             /\ UNCHANGED <<args, options, fileSize, result, returnCode>>

-----------------------------------------------------------------------------
(* readCalculateAndWrite asks for the size of the input, then runs. *)
Start == /\ pc = "start"
         /\ \/ fileSize' \in 0 .. MaxFileSize /\ pc' = "run" /\ UNCHANGED returnCode
            \/ pc' = "unwind" /\ returnCode' = 3 /\ UNCHANGED fileSize
         /\ UNCHANGED <<args, options, processors, result>>

Finish == /\ pc = "run"
          /\ success' = TRUE /\ output' = "signed"
          /\ pc' = "unwind"
          /\ UNCHANGED <<args, options, machine, warned, late, returnCode>>

(* A slip: success_ is set before the last stage is waited for. *)
ThrowAfterSuccess == /\ pc = "run"
                     /\ success' \in BOOLEAN /\ late' \in BOOLEAN
                     /\ output' \in {"original", "partial"}
                     /\ pc' = "unwind" /\ returnCode' \in {2, 3}
                     /\ UNCHANGED <<args, options, machine, warned>>

(* std::bad_alloc, or any other std::exception.  If it was not the writer  *)
(* that failed, the writer may still be at work.                           *)
Throw == /\ pc = "run"
         /\ late' \in BOOLEAN
         /\ output' \in {"original", "partial"}
         /\ pc' = "unwind" /\ returnCode' \in {2, 3}
         /\ UNCHANGED <<args, options, machine, success, warned>>

(* ~DataFile cannot write its buffer, which ends the program there and     *)
(* then: nothing is restored and nobody is told.  A writer that is still   *)
(* at work may do so while main cleans up.                                 *)
Terminate == /\ pc = "run" \/ (pc = "unwind" /\ late)
             /\ output' \in {"original", "partial"}
             /\ pc' = "crashed"
             /\ UNCHANGED <<args, options, machine, success, warned, late, returnCode>>

(* ~CrcSignatureOfFile, at the end of the block or before the handler of   *)
(* the exception: cleanup unless success_, whose own errors are reported,  *)
(* but which does not keep a running writer from writing once more.        *)
Unwind == /\ pc = "unwind"
          /\ \/ success /\ UNCHANGED <<output, warned>>
             \/ ~success /\ output' = "original" /\ UNCHANGED warned
             \/ ~success /\ warned' = TRUE /\ UNCHANGED output
             \/ ~success /\ late /\ output' = "partial" /\ UNCHANGED warned
          /\ Exit(returnCode)
          /\ UNCHANGED <<args, options, machine, success, late>>

Terminated == pc \in {"exited", "crashed"} /\ UNCHANGED vars

Next == \/ ShowHelp \/ RejectOptions \/ AcceptOptions
        \/ DivideByZero \/ RejectSizes \/ ConstructionFails \/ Construct
        \/ Start \/ Finish \/ Throw \/ Terminate \/ Unwind
        \/ Terminated

Spec == Init /\ [][Next]_vars

-----------------------------------------------------------------------------
TypeOK ==
  /\ pc \in {"parse", "construct", "start", "run", "unwind", "exited", "crashed"}
  /\ args \in CommandLines \cup {None}
  /\ options = None \/ /\ options.blockSize \in 0 .. SizeModulus - 1
                            /\ options.maxRamSize \in 0 .. SizeModulus - 1
                            /\ options.isSSD \in BOOLEAN
  /\ processors \in 0 .. MaxConcurrency /\ fileSize \in 0 .. MaxFileSize
  /\ success \in BOOLEAN /\ warned \in BOOLEAN /\ late \in BOOLEAN
  /\ output \in {"original", "partial", "signed"}
  /\ returnCode \in 0 .. 3

(* The exit code tells the truth: 0 exactly for a complete signature (or   *)
(* the help); otherwise, if the writer has ended before main cleans up,    *)
(* the output file is as it was or the user knows that it is not           *)
(* (main.cpp; crcsignatureoffile.cpp lines 116 and 130-148).               *)
ExitCodeTruthful ==
  pc = "exited" =>
    /\ returnCode = 0 <=> output = "signed" \/ (args # None /\ Notified(args) /\ args.help)
    /\ returnCode # 0 /\ ~late => output = "original" \/ warned

Frames == 0 .. dataFramesInFile(fileSize, options.blockSize, OptimalDataFrameSize) - 1

BlocksOf(f) == blocksOfFrame(f, fileSize, options.blockSize, OptimalDataFrameSize)

(* Every block of the file lies in exactly one frame, and no frame claims  *)
(* a block the file does not have (makeConfigs lines 29-42 together with   *)
(* the correction of a short read, datafile.cpp lines 39-41).              *)
BlocksPartitioned ==
  pc = "run" =>
    /\ \A b \in 0 .. dataBlocksInFile(fileSize, options.blockSize) - 1 :
         Cardinality({f \in Frames : b \in BlocksOf(f)}) = 1
    /\ \A f \in Frames :
         BlocksOf(f) \subseteq 0 .. dataBlocksInFile(fileSize, options.blockSize) - 1

(* The blocks cover every byte, and the last block is not empty (the       *)
(* README's rule for a file that is no multiple of the block size).        *)
BytesCovered ==
  pc = "run" /\ fileSize > 0 =>
    LET n == dataBlocksInFile(fileSize, options.blockSize)
    IN  (n - 1) * options.blockSize < fileSize /\ fileSize <= n * options.blockSize

(* The assertion of the constructor (line 65), which release builds do not *)
(* evaluate: beside the readers and the writer, which run from beginning   *)
(* to end, the pool has a thread for calculating.                          *)
ThreadBudget ==
  pc = "start" =>
    readTasksCnt(processors, options.isSSD) + 1 < getThreadCnt(processors)

(* Who asks for help gets it: main advises -h, alone, after every error in *)
(* the command line (main.cpp:32).                                         *)
HelpIsShown ==
  pc = "exited" /\ args # None /\ args.wellFormed /\ args.help => returnCode = 0
=============================================================================
