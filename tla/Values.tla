-------------------------------- MODULE Values --------------------------------
(* What the components have in common: Python's None, which is no session, *)
(* no row, no key and no result of anything.                               *)
CONSTANT None
=============================================================================
