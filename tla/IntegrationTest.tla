-------------------------- MODULE IntegrationTest --------------------------
(***************************************************************************)
(* src/integrationtest/integrationtest.cpp beside the program it tests.    *)
(* The test runs the program as a child on a file, computes the signature  *)
(* once more by a simple loop, and compares the two output files.  The     *)
(* child is Program, whose steps are taken from there; a user may also run *)
(* it without the test.                                                    *)
(*                                                                         *)
(* The test hands sizes on as decimal numbers (std::to_string), which the  *)
(* child parses again through int.  Paths have no blanks.                  *)
(***************************************************************************)
EXTENDS Program

VARIABLES
  stage,     \* where the test's main is, "absent" if a user runs the program
  test,      \* the test's own command line and the sizes parsed from it
  files,     \* which of its two temporary files exist
  written,   \* how many checksums the simple algorithm's file holds
  unnoticed, \* which of the test's own failures it has not looked at
  verdict    \* its exit code

simple == <<written, unnoticed>>
testVars == <<stage, test, files, simple, verdict>>
allVars == <<vars, testVars>>

(* The test's command line.  Bound: sizes that the child's Numbers can     *)
(* show; those beyond long, for which atoi is not a cut, are left out.     *)
TestCommandLines ==
  {a \in [wellFormed : BOOLEAN, help : BOOLEAN,
          program : BOOLEAN, input : BOOLEAN,     \* is it given?
          disk : {"HDD", "SSD", "other"}, block : SizeStrings, ram : SizeStrings] :
     \A str \in {a.block, a.ram} : IsMemorySize(str) => parseMemorySize(str) \in Numbers}

NotRunYet == /\ pc = "parse" /\ args = None /\ options = None
             /\ processors = 0 /\ fileSize = 0
             /\ success = FALSE /\ output = "original" /\ warned = FALSE
             /\ late = FALSE /\ returnCode = 0

TestInit ==
  /\ verdict = 0 /\ written = 0 /\ unnoticed = {}
  /\ \/ /\ Init
        /\ stage = "absent" /\ test = None /\ files = {}
     \/ /\ NotRunYet
        /\ stage = "options" /\ test \in TestCommandLines
        /\ files \in SUBSET {"actual", "expected"}

Conclude(code) == stage' = "exited" /\ verdict' = code

(* An exception nobody catches. *)
Abort == stage' = "aborted" /\ UNCHANGED verdict

-----------------------------------------------------------------------------
TestNotified == test.wellFormed /\ test.program /\ test.input

TestShowsHelp ==
  /\ stage = "options" /\ TestNotified /\ test.help
  /\ Conclude(0)
  /\ UNCHANGED <<vars, test, files, simple>>

(* Nobody looks at the type of disk. *)
TestOptionsRejected ==
  /\ stage = "options"
  /\ \/ ~TestNotified
     \/ /\ ~test.help
        /\ ~IsMemorySize(test.block) \/ ~IsMemorySize(test.ram)
  /\ Abort
  /\ UNCHANGED <<vars, test, files, simple>>

TestOptionsAccepted ==
  /\ stage = "options" /\ TestNotified /\ ~test.help
  /\ IsMemorySize(test.block) /\ IsMemorySize(test.ram)
  /\ test' = [help |-> FALSE, disk |-> test.disk,
              blockSize |-> parseMemorySize(test.block),
              maxRamSize |-> parseMemorySize(test.ram)]
  /\ stage' = "ensure"
  /\ UNCHANGED <<vars, files, simple, verdict>>

(* ensureDoesntExists *)
FilesInTheWay ==
  /\ stage = "ensure" /\ files # {}
  /\ Conclude(1)
  /\ UNCHANGED <<vars, test, files, simple>>

(* A slip: the two sizes change places. *)
ChildArgsSwapped == [wellFormed |-> TRUE, help |-> FALSE, input |-> TRUE, output |-> TRUE,
                     disk |-> test.disk,
                     block |-> [number |-> test.maxRamSize, suffix |-> ""],
                     ram |-> [number |-> test.blockSize, suffix |-> ""]]

ChildArgs == [wellFormed |-> TRUE, help |-> FALSE, input |-> TRUE, output |-> TRUE,
              disk |-> test.disk,
              block |-> [number |-> test.blockSize, suffix |-> ""],
              ram |-> [number |-> test.maxRamSize, suffix |-> ""]]

StartChild ==
  /\ stage = "ensure" /\ files = {}
  /\ args' = ChildArgs /\ stage' = "child"
  /\ UNCHANGED <<pc, options, machine, result, returnCode, test, files, simple, verdict>>

(* The program to test, or diff, does not exist. *)
NoSuchProgram ==
  /\ \/ stage = "ensure" /\ files = {}
     \/ stage = "compare"
  /\ Abort
  /\ UNCHANGED <<vars, test, files, simple>>

(* What the child leaves behind; before it ran there was no output file.   *)
FilesOfChild == IF output = "original" THEN {} ELSE {"actual"}

(* A slip: the child's exit code is not looked at. *)
ChildExitsUnchecked ==
  /\ stage = "child" /\ pc \in {"exited", "crashed"}
  /\ files' = files \cup FilesOfChild
  /\ stage' = "simple"
  /\ UNCHANGED <<vars, test, simple, verdict>>

(* A child that a signal has killed has an exit code other than 0, too. *)
ChildExits ==
  /\ stage = "child" /\ pc \in {"exited", "crashed"}
  /\ files' = files \cup FilesOfChild
  /\ IF pc = "exited" /\ returnCode = 0
     THEN stage' = "simple" /\ UNCHANGED verdict
     ELSE Conclude(3)
  /\ UNCHANGED <<vars, test, simple>>

(* The loop of the simple algorithm: one byte for each block begun. *)
SimpleCount == IF test.blockSize = 0 THEN 0
               ELSE ceilDevision(fileSize, test.blockSize)

(* Nobody asks the streams whether they have failed: a file that cannot be *)
(* opened, or read or written to its end, ends the loop or the writing, so *)
(* the result is missing, empty or a beginning of what it should be.       *)
(* Memory for a block may be missing.                                      *)
CalculateSimply ==
  /\ stage = "simple"
  /\ \/ /\ written' \in 0 .. SimpleCount
        /\ \/ files' = files \cup {"expected"}
           \/ written' = 0 /\ UNCHANGED files
        /\ unnoticed' = IF written' = SimpleCount /\ "expected" \in files'
                        THEN unnoticed ELSE unnoticed \cup {"streams"}
        /\ stage' = "compare" /\ UNCHANGED verdict
     \/ /\ files' \in {files, files \cup {"expected"}}
        /\ Abort /\ UNCHANGED simple
  /\ UNCHANGED <<vars, test>>

(* What diff may find.  Checksums of different blocks may be equal.        *)
MustDiffer == \/ files # {"actual", "expected"}
              \/ output = "original"
              \/ output = "signed" /\ dataBlocksInFile(fileSize, options.blockSize) # written

MayAgree(equal) ==
  IF MustDiffer THEN ~equal
  ELSE output = "signed" /\ options.blockSize = test.blockSize => equal

(* A slip: only the program's output is removed. *)
RemoveFilesHalf == files \ {"actual"}

RemoveFiles == files \ {"actual", "expected"}

(* Whatever exit code diff has but 0 is taken for a difference, that of a  *)
(* diff that could not do its work included.  Files may refuse to go.      *)
Compare ==
  /\ stage = "compare"
  /\ \/ \E equal \in {e \in BOOLEAN : MayAgree(e)} :
          \/ equal /\ Conclude(0) /\ files' = RemoveFiles
          \/ equal /\ Abort /\ files' \in {files, files \ {"actual"}}
          \/ ~equal /\ Conclude(4) /\ UNCHANGED files
        /\ UNCHANGED unnoticed
     \/ /\ Conclude(4) /\ unnoticed' = unnoticed \cup {"diff"}
        /\ UNCHANGED files
  /\ UNCHANGED <<vars, test, written>>

TestTerminated == stage \in {"exited", "aborted"} /\ UNCHANGED allVars

TestNext == \/ stage \in {"absent", "child"} /\ Next /\ UNCHANGED testVars
            \/ TestShowsHelp \/ TestOptionsRejected \/ TestOptionsAccepted
            \/ FilesInTheWay \/ StartChild \/ NoSuchProgram \/ ChildExits
            \/ CalculateSimply \/ Compare \/ TestTerminated

TestSpec == TestInit /\ [][TestNext]_allVars

-----------------------------------------------------------------------------
Passed == stage = "exited" /\ verdict = 0 /\ ~test.help

(* A test that passes has tested something: the program has reported       *)
(* success, and its output is complete and as long as the simple one; what *)
(* the streams of the test have swallowed does not turn into a pass, and   *)
(* as long as the block size is within the range of int, it is the file    *)
(* the simple loop should write (lines 97-102, 114-125 and 157-160).       *)
PassMeansSigned ==
  Passed => /\ success /\ output = "signed"
            /\ dataBlocksInFile(fileSize, options.blockSize) = written
            /\ test.blockSize < IntModulus \div 2 => written = SimpleCount

(* The test blames the program wrongly only with a block size that the     *)
(* child reads differently because it is beyond the range of int (line 92, *)
(* programmoptions.cpp:27), or after a failure of its own that it does not *)
(* look at: of its streams (lines 114-124) or of diff (line 134).          *)
NoFalseAlarm ==
  stage = "exited" /\ verdict = 4 => test.blockSize >= IntModulus \div 2 \/ unnoticed # {}

(* After a run that passed, or in which the program has ended by itself    *)
(* with a failure, nothing is in the way of the next run: the program has  *)
(* removed its output, unless it said that it could not or its writer came *)
(* late (lines 25-38 and 162; crcsignatureoffile.cpp:127).  A program that *)
(* is killed may leave its output there, and says nothing.                 *)
TestCanBeRepeated ==
  stage = "exited" /\ verdict \in {0, 3} /\ ~test.help /\ pc = "exited" =>
    files = {} \/ warned \/ late
=============================================================================
