------------------------------ MODULE MCWgLinks ------------------------------
(***************************************************************************)
(* Four links, with names short and long enough to make the buffer grow    *)
(* both by doubling and to the size needed.                                *)
(***************************************************************************)
EXTENDS WgLinks

MCLength == <<9, 3, 7, 1>>
=============================================================================
