---------------------------- MODULE MCValidation ----------------------------
(***************************************************************************)
(* Validation for TLC: what the freed memory of the header may hold.       *)
(***************************************************************************)
EXTENDS Validation

(* Nothing like a header, no "#", no size, no number, no slices, and a     *)
(* header with other numbers.                                              *)
Texts == {<<Other, 1, Hash, 1>>, <<S, 1, 1, 1>>, <<S, Hash, 1, 1>>, <<S, 2, Hash, Other>>,
          <<S, 3, Hash, 0>>, <<S, 4, Hash, 2>>}
=============================================================================
