---------------------------- MODULE MCTokenPage -----------------------------
(* Two tokens, one to a page; a filter that hides one of them. *)
EXTENDS TokenPage, TLC

CONSTANTS A, B, all, some

MCPages == (all :> <<{A}, {B}>>) @@ (some :> <<{B}>>)
=============================================================================
