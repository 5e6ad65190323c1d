------------------------------- MODULE Optional -------------------------------
(* The value every component uses for "nothing there".                       *)
CONSTANT None
===============================================================================
