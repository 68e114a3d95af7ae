---------------------------- MODULE FileContent ----------------------------
(***************************************************************************)
(* Files of the file system, as the code uses them: a size, and bytes      *)
(* counted from 0.                                                         *)
(***************************************************************************)
EXTENDS Sizing

EmptyFile == [size |-> 0, bytes |-> [b \in {} |-> 0]]

(* What there is where there is no file. *)
NoFile == [size |-> -1, bytes |-> [b \in {} |-> 0]]

IsFile(f) == /\ f = [size |-> f.size, bytes |-> f.bytes]
             /\ f.size \in Nat /\ f.bytes \in [0 .. f.size - 1 -> 0 .. 255]

(* A file with the bytes of a sequence. *)
FileOf(seq, length) == [size |-> length, bytes |-> [b \in 0 .. length - 1 |-> seq[b + 1]]]

(* What a file holds after bytes have been written over it, or behind it:  *)
(* a gap is filled with zeroes.                                            *)
Overlay(file, write) ==
  IF write.size = 0 THEN file
  ELSE LET size == Greatest(file.size, write.at + write.size)
           written == write.at .. write.at + write.size - 1
       IN  [size |-> size,
            bytes |-> [b \in 0 .. size - 1 |->
                         CASE b \in written -> write.bytes[b - write.at]
                           [] b \notin written /\ b < file.size -> file.bytes[b]
                           [] OTHER -> 0]]

(* std::filesystem::resize_file *)
Resized(file, size) ==
  [size |-> size,
   bytes |-> [b \in 0 .. size - 1 |-> IF b < file.size THEN file.bytes[b] ELSE 0]]
=============================================================================
