---------------------------- MODULE ReplayBitmap ----------------------------
(***************************************************************************)
(* The anti-replay window of an inbound SA of the KLIPS stack              *)
(* (linux/net/ipsec/ipsec_rcv.c): the highest sequence number taken and a  *)
(* bitmap of the ones just below it.  The __u64 ips_replaywin_bitmap is    *)
(* the set of its one bits.                                                *)
(***************************************************************************)
EXTENDS Integers

CONSTANTS Win,        \* ips_replaywin, 0 when the check is shut off
          IntBits,    \* width of the int that "1 << diff" shifts (32)
          WordBits    \* width of the bitmap (64)

\* For diff >= IntBits the shift is undefined in C: the windows modelled are
\* the ones that never get there.
ASSUME WinAssumption == /\ IntBits \in Nat \ {0}
                        /\ WordBits \in Nat
                        /\ IntBits <= WordBits
                        /\ Win \in 0..IntBits

\* (1 << diff): an int, whose sign bit is extended over the upper half of the
\* 64-bit bitmap it is combined with.
Bit(diff) == IF diff = IntBits - 1 THEN diff..(WordBits - 1) ELSE {diff}

\* ips_replaywin_bitmap << diff, in 64 bits.
ShiftLeft(bitmap, diff) == {b \in 0..(WordBits - 1) : b - diff \in bitmap}

\* ipsec_checkreplaywindow: 1 is TRUE.
Checks(lastseq, bitmap, seq) ==
  \/ Win = 0
  \/ /\ seq # 0
     /\ \/ seq > lastseq
        \/ /\ lastseq - seq < Win
           /\ bitmap \cap Bit(lastseq - seq) = {}

\* Mutant of the bitmap after a good packet: it is not moved up.
BitmapAfterKept(lastseq, bitmap, seq) ==
  IF seq > lastseq
    THEN bitmap \cup {0}
    ELSE bitmap \cup Bit(lastseq - seq)

\* ipsec_updatereplaywindow, when it returns 1: the new bitmap and the new
\* ips_replaywin_lastseq.  When it returns 0 both are left alone, and it
\* returns 1 in the cases ipsec_checkreplaywindow does.
BitmapAfter(lastseq, bitmap, seq) ==
  CASE Win = 0 -> bitmap
    [] Win # 0 /\ seq > lastseq ->
         IF seq - lastseq < Win
           THEN ShiftLeft(bitmap, seq - lastseq) \cup {0}
           ELSE {0}
    [] OTHER -> bitmap \cup Bit(lastseq - seq)
LastAfter(lastseq, seq) == IF Win # 0 /\ seq > lastseq THEN seq ELSE lastseq
=============================================================================
