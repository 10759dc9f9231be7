------------------------------- MODULE MCIobDump -------------------------------
(* Lines of 4 bytes, packets of up to 10 bytes: several full lines, a     *)
(* partial last line, and offsets before, at and past the end.            *)
EXTENDS IobDump, TLC

=============================================================================
