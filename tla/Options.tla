------------------------------- MODULE Options -------------------------------
(***************************************************************************)
(* Rust's Option: None is a value of its own, Some(x) is x.                *)
(***************************************************************************)
CONSTANT None

(* unwrap_or.                                                              *)
Or(value, default) == IF value = None THEN default ELSE value
=============================================================================
