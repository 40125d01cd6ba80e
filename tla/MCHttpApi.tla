------------------------------ MODULE MCHttpApi ------------------------------
(* HttpApi for TLC: every operation, one request at a time.                *)
EXTENDS HttpApi

=============================================================================
