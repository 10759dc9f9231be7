----------------------------- MODULE MCWebserver -----------------------------
(* The addresses of the set-up, as model values.                           *)
EXTENDS Webserver, TLC

=============================================================================
