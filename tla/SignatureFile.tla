--------------------------- MODULE SignatureFile ---------------------------
(***************************************************************************)
(* What the program promises its user: it stores the CRC of each block of  *)
(* the input exactly once and reports success when all are stored, or it   *)
(* reports a failure and leaves no trace in the output file.               *)
(***************************************************************************)
EXTENDS Naturals

CONSTANT Blocks        \* the blocks of the input file

VARIABLES signed,      \* the blocks whose CRC the output file holds
          outcome      \* "running", "success" or "failure"

vars == <<signed, outcome>>

Init == signed = {} /\ outcome = "running"

(* The CRCs of some more blocks reach the file. *)
Sign(S) == /\ outcome = "running"
           /\ S # {} /\ S \cap signed = {}
           /\ signed' = signed \cup S
           /\ UNCHANGED outcome

Succeed == /\ outcome = "running" /\ signed = Blocks
           /\ outcome' = "success"
           /\ UNCHANGED signed

(* The output file is put back before the failure is reported. *)
Restore == /\ outcome = "running" /\ signed # {}
           /\ signed' = {}
           /\ UNCHANGED outcome

Fail == /\ outcome = "running" /\ signed = {}
        /\ outcome' = "failure"
        /\ UNCHANGED signed

Next == (\E S \in SUBSET Blocks : Sign(S)) \/ Succeed \/ Restore \/ Fail

SafetySpec == Init /\ [][Next]_vars

(* Sooner or later the user learns how it went. *)
Spec == SafetySpec /\ WF_vars(Next)
=============================================================================
