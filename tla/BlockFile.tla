----------------------------- MODULE BlockFile -----------------------------
(***************************************************************************)
(* What the writer relies on in its output file: while it is open, each    *)
(* request stores its bytes at its place, nothing else changes them, and   *)
(* closing the file keeps them, unless the program is told otherwise or    *)
(* somebody takes them back.                                               *)
(***************************************************************************)
EXTENDS FileContent

VARIABLES content,    \* the file as it will be once everything is written
          request,    \* the bytes in the writer's hands, and their place
          open,       \* is the file open?
          intact,     \* has nothing been lost?
          recalled    \* has somebody taken the bytes back?

vars == <<content, request, open, intact, recalled>>

Init == open = FALSE /\ intact = TRUE /\ recalled = FALSE

(* The writer turns to another frame. *)
Prepare == UNCHANGED <<content, open, intact, recalled>>

(* A file that is not there is created, one that is there kept, or cut. *)
Open == /\ ~open /\ open'
        /\ content' \in {content, EmptyFile}
        /\ UNCHANGED <<request, intact, recalled>>

Store == /\ open
         /\ content' = IF content = NoFile THEN NoFile ELSE Overlay(content, request)
         /\ UNCHANGED <<open, intact, recalled>>

(* Once, the file may be removed, or brought to another size, while it is  *)
(* open; no byte is changed but to zero.                                   *)
TakeBack ==
  /\ open /\ ~recalled /\ recalled'
  /\ \/ content' \in {content, NoFile}
     \/ /\ content # NoFile /\ IsFile(content')
        /\ \A b \in 0 .. content'.size - 1 :
             \/ content'.bytes[b] = 0
             \/ b < content.size /\ content'.bytes[b] = content.bytes[b]
  /\ UNCHANGED <<request, open, intact>>

Close == /\ open /\ ~open'
         /\ UNCHANGED <<content, request, intact, recalled>>

(* The last bytes cannot be written, and the program ends. *)
Lose == /\ open /\ ~open' /\ intact /\ ~intact'
        /\ UNCHANGED request

(* While the file is closed anybody may do anything to it. *)
Others == ~open /\ UNCHANGED <<request, open, intact>>

Next == Prepare \/ Open \/ Store \/ TakeBack \/ Close \/ Lose \/ Others

Spec == Init /\ [][Next]_vars
=============================================================================
