------------------------------ MODULE MCHttpPool ------------------------------
(* Two origins and three connections: one is pooled while a second one is  *)
(* in use, and a redirect leads from the one to the other and back.        *)
EXTENDS HttpPool
=============================================================================
