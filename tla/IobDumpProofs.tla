---------------------------- MODULE IobDumpProofs ----------------------------
(***************************************************************************)
(* Proofs about iob_dump (IobDump) for every line width, packet length,    *)
(* offset and len.                                                         *)
(***************************************************************************)
EXTENDS IobDump, TLAPS

(* The inductive invariant.  The two properties speak only of the end of   *)
(* the dump; in the loop the printed bytes are a prefix of the range: the  *)
(* offset has moved by as much as the line index, len has been clamped to  *)
(* what lies beyond the offset, and the lines so far have printed the      *)
(* first MinOf(lndx, len) bytes from off0.  That clamp is what keeps every *)
(* printed column inside what iob_copyout wrote.                           *)
LoopInv ==
    /\ pc = "start" => len = len0 /\ offset = off0 /\ lndx = 0 /\ shown = {}
    /\ pc = "loop" =>
          /\ off0 <= pktlen
          /\ len = MinOf(len0, pktlen - off0)
          /\ offset = off0 + lndx
          /\ shown = off0..(off0 + MinOf(lndx, len) - 1)

IInv == TypeOK /\ LoopInv /\ NoUninitRead /\ DumpShowsRange


LEMMA InitIInv == Init => IInv
<1> SUFFICES ASSUME Init PROVE IInv
    OBVIOUS
<1>1. TypeOK
    <2>1. /\ pktlen \in 0..MaxPkt /\ off0 \in 0..(MaxPkt + 1) /\ len0 \in 0..MaxLen
          /\ len \in 0..MaxLen /\ offset \in Nat /\ lndx \in Nat
          /\ pc \in {"start", "loop", "done"} /\ shown \subseteq Nat
        BY DumpAssumption DEF Init
    <2>2. uninit \in BOOLEAN
        BY Zenon DEF Init
    <2>3. QED
        BY <2>1, <2>2 DEF TypeOK
<1>2. QED
    BY <1>1 DEF Init, IInv, LoopInv, NoUninitRead, DumpShowsRange

\* One line of the loop: with lndx < len every printed column lies inside
\* the bytes iob_copyout copied, and the printed prefix grows by the line.
LEMMA LineStep ==
    ASSUME IInv, Line
    PROVE  IInv'
<1> DEFINE nbytes == CopyOut(LineBytes, offset)
           cols   == Printed(lndx, len)
<1>1. /\ pc = "loop" /\ lndx < len
      /\ shown' = shown \cup (IF nbytes > 0 THEN {offset + c : c \in cols} ELSE {})
      /\ uninit' = (uninit \/ (nbytes > 0 /\ \E c \in cols : c >= nbytes))
      /\ lndx' = lndx + LineBytes /\ offset' = offset + LineBytes
      /\ UNCHANGED <<pktlen, off0, len0, len, pc>>
    BY DEF Line
<1>2. /\ LineBytes \in Nat \ {0}
      /\ pktlen \in Nat /\ off0 \in Nat /\ len0 \in Nat /\ len \in Nat
      /\ lndx \in Nat /\ offset \in Nat /\ ~uninit
      /\ off0 <= pktlen /\ len = MinOf(len0, pktlen - off0)
      /\ offset = off0 + lndx
      /\ shown = off0..(off0 + MinOf(lndx, len) - 1)
    BY <1>1, DumpAssumption DEF IInv, TypeOK, LoopInv, NoUninitRead
<1>3. len <= pktlen - off0 /\ offset < pktlen
    BY <1>1, <1>2 DEF MinOf
<1>4. nbytes = MinOf(LineBytes, pktlen - offset) /\ nbytes > 0
    BY <1>2, <1>3 DEF CopyOut, MinOf
<1>5. cols = 0..(MinOf(LineBytes, len - lndx) - 1)
    BY <1>1, <1>2 DEF Printed, MinOf
<1>6. \A c \in cols : c < nbytes
    BY <1>2, <1>3, <1>4, <1>5 DEF MinOf
<1>7. ~uninit'
    <2>1. ~\E c \in cols : c >= nbytes
        BY <1>2, <1>3, <1>4, <1>5, <1>6 DEF MinOf
    <2>2. QED
        BY <1>1, <1>2, <2>1, Zenon
<1>8. {offset + c : c \in cols}
        = (off0 + lndx)..(off0 + MinOf(lndx + LineBytes, len) - 1)
    <2> DEFINE M == MinOf(LineBytes, len - lndx)
    <2>1. M \in Nat /\ lndx + M = MinOf(lndx + LineBytes, len)
        BY <1>1, <1>2 DEF MinOf
    <2>2. \A x \in {offset + c : c \in 0..(M - 1)} : x \in offset..(offset + M - 1)
        BY <1>2, <2>1
    <2>3. \A x \in offset..(offset + M - 1) : \E c \in 0..(M - 1) : x = offset + c
        <3> TAKE x \in offset..(offset + M - 1)
        <3>1. x - offset \in 0..(M - 1) /\ x = offset + (x - offset)
            BY <1>2, <2>1
        <3>2. QED
            BY <3>1
    <2>4. {offset + c : c \in 0..(M - 1)} = offset..(offset + M - 1)
        BY <2>2, <2>3
    <2>5. cols = 0..(M - 1)
        BY <1>5
    <2>6. offset..(offset + M - 1) = (off0 + lndx)..(off0 + MinOf(lndx + LineBytes, len) - 1)
        BY <1>2, <2>1
    <2>7. QED
        BY <2>4, <2>5, <2>6, Zenon
<1>9. shown' = off0..(off0 + MinOf(lndx', len') - 1)
    BY <1>1, <1>2, <1>4, <1>8 DEF MinOf
<1>10. TypeOK'
    BY <1>1, <1>2, <1>7, <1>9 DEF IInv, TypeOK
<1>11. QED
    BY <1>1, <1>2, <1>7, <1>9, <1>10
       DEF IInv, LoopInv, NoUninitRead, DumpShowsRange

LEMMA NextIInv == IInv /\ [Next]_vars => IInv'
<1> SUFFICES ASSUME IInv, [Next]_vars PROVE IInv'
    OBVIOUS
<1>1. CASE Start
    <2>1. CASE off0 > pktlen
        BY <1>1, <2>1 DEF Start, IInv, TypeOK, LoopInv, NoUninitRead, DumpShowsRange
    <2>2. CASE off0 <= pktlen
        <3>1. /\ pc' = "loop" /\ len' = MinOf(len0, pktlen - off0)
              /\ UNCHANGED <<pktlen, off0, len0, offset, lndx, shown, uninit>>
            BY <1>1, <2>2 DEF Start, IInv, TypeOK
        <3>2. /\ pc = "start" /\ offset = off0 /\ lndx = 0 /\ shown = {} /\ ~uninit
              /\ pktlen \in 0..MaxPkt /\ off0 \in 0..(MaxPkt + 1) /\ len0 \in 0..MaxLen
            BY <1>1 DEF Start, IInv, TypeOK, LoopInv, NoUninitRead
        <3>3. len' \in 0..MaxLen /\ MinOf(lndx', len') = 0
            BY <2>2, <3>1, <3>2, DumpAssumption DEF MinOf
        <3>4. shown' = off0'..(off0' + MinOf(lndx', len') - 1)
            BY <3>1, <3>2, <3>3
        <3>5. TypeOK'
            BY <3>1, <3>2, <3>3 DEF IInv, TypeOK
        <3>6. QED
            BY <2>2, <3>1, <3>2, <3>4, <3>5 DEF IInv, LoopInv, NoUninitRead, DumpShowsRange
    <2>3. QED
        BY <2>1, <2>2 DEF IInv, TypeOK
<1>2. CASE Line
    BY <1>2, LineStep
<1>3. CASE Return
    <2>1. /\ pc = "loop" /\ lndx >= len /\ lndx \in Nat /\ len \in Nat
          /\ off0 \in Nat /\ pktlen \in Nat /\ pc' = "done"
          /\ len = MinOf(len0, pktlen - off0) /\ off0 <= pktlen
          /\ shown = off0..(off0 + MinOf(lndx, len) - 1)
        BY <1>3 DEF Return, IInv, TypeOK, LoopInv
    <2>2. MinOf(lndx, len) = len
        BY <2>1 DEF MinOf
    <2>3. UNCHANGED <<pktlen, off0, len0, len, shown>>
        BY <1>3 DEF Return
    <2>4. shown' = off0'..(off0' + MinOf(len0', pktlen' - off0') - 1)
        BY <2>1, <2>2, <2>3
    <2>5. DumpShowsRange'
        BY <2>1, <2>3, <2>4 DEF DumpShowsRange
    <2>6. QED
        BY <1>3, <2>5 DEF Return, IInv, TypeOK, LoopInv, NoUninitRead
<1>4. CASE UNCHANGED vars
    BY <1>4 DEF vars, IInv, TypeOK, LoopInv, NoUninitRead, DumpShowsRange
<1>5. QED
    BY <1>1, <1>2, <1>3, <1>4 DEF Next

(* iob_dump, for every line width, packet length, offset and len: no       *)
(* byte of the uninitialised array data[] is ever printed, and when it     *)
(* returns it has printed exactly the bytes from the offset that len asks  *)
(* for and the packet has, and nothing for an offset past the end.         *)
THEOREM DumpCorrect == Spec => [](NoUninitRead /\ DumpShowsRange)
<1>1. IInv => NoUninitRead /\ DumpShowsRange
    BY DEF IInv
<1>2. QED
    BY InitIInv, NextIInv, <1>1, PTL DEF Spec


(* The out-of-bounds read of iob_dump on its own: however the line width, *)
(* packet length, offset and len are chosen, no hexdump line reads a byte *)
(* of data[] that iob_copyout did not fill.                               *)
THEOREM NoUninitReadKept == Spec => []NoUninitRead
BY DumpCorrect, PTL

=============================================================================
