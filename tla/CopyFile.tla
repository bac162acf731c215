------------------------------ MODULE CopyFile ------------------------------
(***************************************************************************)
(* What a transfer is for: the bytes of a file are copied piece by piece   *)
(* to an output file of the same size.  Every byte is written once and to  *)
(* its own place, and the end is announced when all are there.             *)
(*                                                                         *)
(* The program keeps this for some inputs only: promised says whether this *)
(* transfer is one of them.                                                *)
(***************************************************************************)
EXTENDS Naturals

CONSTANT Hole       \* what a byte of the output file is before it is written

VARIABLES size,     \* of the file; its byte at offset b is b + 1
          promised,
          copy,     \* the output file, the empty function before it exists
          done      \* the end has been announced

Offsets == 0 .. size - 1

Init == DOMAIN copy = {} /\ done = FALSE

Create == /\ DOMAIN copy = {}
          /\ copy' = [b \in Offsets |-> Hole]
          /\ done' = done

CopyPiece == /\ DOMAIN copy = Offsets
             /\ ~done
             /\ \E first, last \in Offsets :
                  /\ first <= last
                  /\ \A b \in first .. last : copy[b] = Hole
                  /\ copy' = [b \in Offsets |-> IF b \in first .. last THEN b + 1 ELSE copy[b]]
             /\ done' = done

Announce == /\ copy = [b \in Offsets |-> b + 1]
            /\ done' = TRUE
            /\ copy' = copy

Spec == Init /\ [][promised => Create \/ CopyPiece \/ Announce]_<<copy, done>>
=============================================================================
