------------------------------- MODULE IobDump -------------------------------
(***************************************************************************)
(* iob_dump (net/iob/iob_dump.c:85-178): print len bytes of an I/O buffer  *)
(* chain from offset, one line per LineBytes bytes, each line copied into  *)
(* the local array data[] with iob_copyout.  The bytes are kept as their   *)
(* positions in the packet: a line shows the positions it prints in hex,   *)
(* and the ASCII column repeats the same test, so it shows the same ones.  *)
(* The chain's buffer headers and the wording of the output are left out. *)
(***************************************************************************)
EXTENDS Naturals

CONSTANTS
    LineBytes,  \* bytes per line, the 32 of data[32]
    MaxPkt,     \* largest io_pktlen of a chain passed in
    MaxLen      \* largest len passed in

ASSUME DumpAssumption ==
    LineBytes \in Nat \ {0} /\ MaxPkt \in Nat /\ MaxLen \in Nat

MinOf(a, b) == IF a <= b THEN a ELSE b

VARIABLES
    pktlen,     \* head->io_pktlen
    off0,       \* the offset argument
    len0,       \* the len argument
    len,        \* len after the clamp of 118-119
    offset,     \* the offset the loop has reached
    lndx,       \* the loop index
    pc,         \* "start", "loop" or "done"
    shown,      \* the packet positions printed so far
    uninit      \* a byte of data[] that iob_copyout did not write was printed

vars == <<pktlen, off0, len0, len, offset, lndx, pc, shown, uninit>>

TypeOK ==
    /\ pktlen \in 0..MaxPkt /\ off0 \in 0..(MaxPkt + 1) /\ len0 \in 0..MaxLen
    /\ len \in 0..MaxLen /\ offset \in Nat /\ lndx \in Nat
    /\ pc \in {"start", "loop", "done"}
    /\ shown \subseteq Nat /\ uninit \in BOOLEAN

(* Helpers.                                                                *)

\* iob_copyout(data, head, n, off) (not under src/): the bytes it copies,
\* as many of the n asked for as the packet has beyond off.
CopyOut(n, off) == IF off >= pktlen THEN 0 ELSE MinOf(n, pktlen - off)

\* The columns of the line at lndx that are printed (144, 162).
Printed(l, ln) == {c \in 0..(LineBytes - 1) : l + c < ln}

(* Actions.                                                                *)

Init ==
    /\ pktlen \in 0..MaxPkt /\ off0 \in 0..(MaxPkt + 1) /\ len0 \in 0..MaxLen
    /\ len = len0 /\ offset = off0 /\ lndx = 0
    /\ pc = "start"
    /\ shown = {} /\ uninit = FALSE

\* Mutant: len is not limited to what lies beyond the offset.
StartNoClamp ==
    /\ pc = "start"
    /\ IF off0 > pktlen THEN pc' = "done" ELSE pc' = "loop"
    /\ UNCHANGED <<pktlen, off0, len0, len, offset, lndx, shown, uninit>>

\* 95-119: an offset past the data returns at once; otherwise len is
\* limited to the bytes beyond the offset.
Start ==
    /\ pc = "start"
    /\ \/ /\ off0 > pktlen
          /\ pc' = "done"
          /\ UNCHANGED len
       \/ /\ off0 <= pktlen
          /\ len' = MinOf(len0, pktlen - off0)
          /\ pc' = "loop"
    /\ UNCHANGED <<pktlen, off0, len0, offset, lndx, shown, uninit>>

\* One turn of the loop of 125-177: copy a line's worth from offset, and
\* when something was copied print the columns lndx + cndx < len.
Line ==
    LET nbytes == CopyOut(LineBytes, offset)
        cols   == Printed(lndx, len)
    IN
    /\ pc = "loop" /\ lndx < len
    /\ shown' = shown \cup (IF nbytes > 0 THEN {offset + c : c \in cols} ELSE {})
    /\ uninit' = (uninit \/ (nbytes > 0 /\ \E c \in cols : c >= nbytes))
    /\ lndx' = lndx + LineBytes
    /\ offset' = offset + LineBytes
    /\ UNCHANGED <<pktlen, off0, len0, len, pc>>

\* Mutant: the loop runs only while a whole line remains.
ReturnEarly ==
    /\ pc = "loop" /\ lndx + LineBytes > len
    /\ pc' = "done"
    /\ UNCHANGED <<pktlen, off0, len0, len, offset, lndx, shown, uninit>>

\* The loop test fails and iob_dump returns.
Return ==
    /\ pc = "loop" /\ lndx >= len
    /\ pc' = "done"
    /\ UNCHANGED <<pktlen, off0, len0, len, offset, lndx, shown, uninit>>

Next == Start \/ Line \/ Return

Spec == Init /\ [][Next]_vars

(* Properties.                                                             *)

(* The dump shows what was asked of it and nothing else: when iob_dump     *)
(* returns it has printed exactly the packet bytes from the offset on, as  *)
(* many as len asks and the packet has, and nothing for an offset past the *)
(* end, whatever lines the last partial line and the clamp produce.        *)
DumpShowsRange ==
    pc = "done" =>
        shown = IF off0 > pktlen THEN {}
                ELSE off0..(off0 + MinOf(len0, pktlen - off0) - 1)

(* No byte of the uninitialised stack array data[] is printed: every      *)
(* column a line prints was filled by that line's iob_copyout.            *)
NoUninitRead == ~uninit

=============================================================================
