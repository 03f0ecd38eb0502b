----------------------------- MODULE MCClauseBag -----------------------------
(***************************************************************************)
(* Model checking of ClauseBag: three workers that push up to four clauses *)
(* in batches of up to two.  The broadcast log distinguishes the workers,  *)
(* so that no symmetry is used.                                            *)
(***************************************************************************)
EXTENDS ClauseBag
=============================================================================
