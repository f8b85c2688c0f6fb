------------------------------- MODULE Optional -------------------------------
(* Python's None: what a variable holds that holds nothing. *)
CONSTANT None
=============================================================================
