---------------------------- MODULE ReplayWindow ----------------------------
(***************************************************************************)
(* One inbound SA and the packets on their way through the receive path.   *)
(* The window is looked at before the authenticator is computed and again, *)
(* under the lock, when it has been verified; between the two the packet   *)
(* may wait for a crypto driver, and any number of others, copies of it    *)
(* included, may pass.                                                     *)
(***************************************************************************)
EXTENDS ReplayBitmap

CONSTANTS MaxSeq,     \* the largest sequence number (2^32 - 1)
          Slots       \* packets that may wait at once

ASSUME MaxSeqAssumption == MaxSeq \in Nat

Seqs == 1..MaxSeq
Idle == -1

VARIABLES lastseq,    \* ips_replaywin_lastseq
          bitmap,     \* ips_replaywin_bitmap
          waiting,    \* the sequence number of each packet that waits
          took        \* how often each number got past the second check

rwVars == <<lastseq, bitmap, waiting, took>>

\* pfkey_sa_process zeroes the window of a new SA.
RwInit ==
  /\ lastseq = 0
  /\ bitmap = {}
  /\ waiting = [p \in Slots |-> Idle]
  /\ took = [n \in Seqs |-> 0]

\* ipsec_rcv_auth_calc: a packet that fails the first check is dropped at once.
RwCalc(p, seq) ==
  /\ waiting[p] = Idle
  /\ Checks(lastseq, bitmap, seq)
  /\ waiting' = [waiting EXCEPT ![p] = seq]
  /\ UNCHANGED <<lastseq, bitmap, took>>

\* Mutant of the second half: the window is not looked at again.
RwChkUnchecked(p) ==
  /\ waiting[p] # Idle /\ waiting[p] # 0
  /\ took' = [took EXCEPT ![waiting[p]] = @ + 1]
  /\ bitmap' = BitmapAfter(lastseq, bitmap, waiting[p])
  /\ lastseq' = LastAfter(lastseq, waiting[p])
  /\ waiting' = [waiting EXCEPT ![p] = Idle]

\* ipsec_rcv_auth_chk with a good authenticator.  A zero sequence number gets
\* here only with the check shut off, and is not counted.
RwChk(p) ==
  /\ waiting[p] # Idle
  /\ IF Checks(lastseq, bitmap, waiting[p])
       THEN /\ took' = IF waiting[p] = 0 THEN took
                       ELSE [took EXCEPT ![waiting[p]] = @ + 1]
            /\ bitmap' = BitmapAfter(lastseq, bitmap, waiting[p])
            /\ lastseq' = LastAfter(lastseq, waiting[p])
       ELSE UNCHANGED <<took, bitmap, lastseq>>
  /\ waiting' = [waiting EXCEPT ![p] = Idle]

\* The authenticator does not match, or the driver reports an error.
RwDrop(p) ==
  /\ waiting[p] # Idle
  /\ waiting' = [waiting EXCEPT ![p] = Idle]
  /\ UNCHANGED <<lastseq, bitmap, took>>

RwNext ==
  \E p \in Slots : \/ \E seq \in 0..MaxSeq : RwCalc(p, seq)
                   \/ RwChk(p)
                   \/ RwDrop(p)

RwSpec == RwInit /\ [][RwNext]_rwVars

-----------------------------------------------------------------------------
\* The bitmap and the highest number are exactly the memory the check needs:
\* inside the window a bit is set for the numbers taken and for no other, and
\* nothing above ips_replaywin_lastseq was taken (ipsec_updatereplaywindow).
WindowExact ==
  Win > 0 =>
    \A n \in Seqs :
      /\ took[n] > 0 => n <= lastseq
      /\ (n <= lastseq /\ lastseq - n < Win)
           => (lastseq - n \in bitmap <=> took[n] > 0)

\* The single-SA promise: two copies of a packet that both passed the first
\* check of ipsec_rcv_auth_calc while they waited are not both delivered.
AntiReplaySa == INSTANCE AntiReplay
                  WITH Sas <- {0}, taken <- [s \in {0} |-> took]
TakesOnce == AntiReplaySa!Spec

\* A packet dropped as "already seen" was seen (the comment on that drop in
\* ipsec_checkreplaywindow), but for the place where 1 << diff is negative: the
\* mask then has all the bits above it, among them those of numbers that have
\* left the window.
SeenWasTaken ==
  \A n \in Seqs :
    (/\ n <= lastseq
     /\ lastseq - n < Win
     /\ lastseq - n # IntBits - 1
     /\ ~ Checks(lastseq, bitmap, n)) => took[n] > 0
=============================================================================
