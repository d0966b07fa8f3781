------------------------ MODULE ReplayWindow_proofs ------------------------
(***************************************************************************)
(* The anti-replay window proved for every window up to the width of an    *)
(* int, every width of the bitmap, every number of waiting packets.        *)
(***************************************************************************)
EXTENDS ReplayWindow, TLAPS

RwTypeOK ==
  /\ lastseq \in 0..MaxSeq
  /\ bitmap \in SUBSET (0..(WordBits - 1))
  /\ waiting \in [Slots -> -1..MaxSeq]
  /\ took \in [Seqs -> Nat]

\* The inductive invariant: types, the exact window, no number taken twice.
RwInv == RwTypeOK /\ WindowExact /\ \A n \in Seqs : Win > 0 => took[n] <= 1

\* Inside the window (1 << diff) stands for the bit diff alone: the extended
\* sign of the last one falls outside.
LEMMA BitInWindow ==
  ASSUME NEW diff \in 0..(Win - 1), NEW d \in 0..(Win - 1)
  PROVE  d \in Bit(diff) <=> d = diff
  BY WinAssumption DEF Bit

\* A number inside the window that passes was not taken.  (The converse fails
\* for the oldest number of a window of IntBits: its mask has the bits of
\* older numbers in it.)
LEMMA ChecksSound ==
  ASSUME RwInv, Win > 0, NEW n \in Seqs, Checks(lastseq, bitmap, n)
  PROVE  took[n] = 0 /\ (n <= lastseq => lastseq - n < Win)
<1>1. lastseq \in Nat /\ n \in Nat /\ n # 0 /\ Win \in Nat /\ took[n] \in Nat
  BY WinAssumption, MaxSeqAssumption DEF Seqs, RwInv, RwTypeOK
<1>2. CASE n > lastseq
  BY <1>1, <1>2 DEF RwInv, WindowExact
<1>3. CASE n <= lastseq
  <2>1. lastseq - n < Win /\ bitmap \cap Bit(lastseq - n) = {}
    BY <1>1, <1>3 DEF Checks
  <2>2. lastseq - n \in Bit(lastseq - n)
    BY <2>1, <1>1, <1>3, BitInWindow
  <2>3. lastseq - n \notin bitmap
    BY <2>1, <2>2
  <2>4. ~ (took[n] > 0)
    BY <2>1, <2>3, <1>3 DEF RwInv, WindowExact
  <2> QED
    BY <2>1, <2>4, <1>1
<1> QED
  BY <1>1, <1>2, <1>3

\* A packet that passes the second check leaves the window exact
\* (ipsec_updatereplaywindow returning 1).
LEMMA TakeExact ==
  ASSUME RwInv, Win > 0, NEW n \in Seqs, Checks(lastseq, bitmap, n),
         bitmap' = BitmapAfter(lastseq, bitmap, n),
         lastseq' = LastAfter(lastseq, n),
         took' = [took EXCEPT ![n] = @ + 1]
  PROVE  /\ lastseq' \in 0..MaxSeq
         /\ bitmap' \in SUBSET (0..(WordBits - 1))
         /\ took' \in [Seqs -> Nat]
         /\ WindowExact'
         /\ \A m \in Seqs : took'[m] <= 1
<1> DEFINE M == LastAfter(lastseq, n)
<1>1. /\ lastseq \in Nat /\ lastseq <= MaxSeq /\ n \in Nat /\ n # 0 /\ n <= MaxSeq
      /\ Win \in Nat /\ IntBits \in Nat /\ WordBits \in Nat
      /\ Win <= IntBits /\ IntBits <= WordBits
      /\ bitmap \in SUBSET (0..(WordBits - 1))
      /\ took \in [Seqs -> Nat]
  BY WinAssumption, MaxSeqAssumption DEF Seqs, RwInv, RwTypeOK
<1>2. took[n] = 0 /\ (n <= lastseq => lastseq - n < Win)
  BY ChecksSound
<1>3. \A m \in Seqs : took'[m] = IF m = n THEN 1 ELSE took[m]
  BY <1>1, <1>2
<1>4. took' \in [Seqs -> Nat] /\ \A m \in Seqs : took'[m] <= 1
  BY <1>1, <1>2, <1>3 DEF RwInv
<1>5. \A m \in Seqs : /\ took[m] > 0 => m <= lastseq
                      /\ (m <= lastseq /\ lastseq - m < Win)
                           => (lastseq - m \in bitmap <=> took[m] > 0)
  BY DEF RwInv, WindowExact
<1>6. CASE n > lastseq /\ n - lastseq < Win
  <2>1. lastseq' = n /\ bitmap' = ShiftLeft(bitmap, n - lastseq) \cup {0}
    BY <1>6, <1>1 DEF BitmapAfter, LastAfter
  <2>2. bitmap' \in SUBSET (0..(WordBits - 1))
    BY <2>1, <1>1 DEF ShiftLeft
  <2>3. ASSUME NEW m \in Seqs, m <= n, n - m < Win
        PROVE  n - m \in bitmap' <=> took'[m] > 0
    <3>1. m \in Nat /\ n - m \in 0..(WordBits - 1)
      BY <2>3, <1>1 DEF Seqs
    <3>2. CASE m = n
      BY <3>2, <2>1, <1>1, <1>3
    <3>3. CASE m # n
      <4>1. n - m \in bitmap' <=> (n - m) - (n - lastseq) \in bitmap
        BY <3>1, <3>3, <2>1, <1>1 DEF ShiftLeft
      <4>2. (n - m) - (n - lastseq) = lastseq - m
        BY <3>1, <1>1
      <4>3. CASE m <= lastseq
        <5>1. lastseq - m < Win
          BY <4>3, <1>6, <1>1, <2>3, <3>1
        <5> QED
          BY <4>1, <4>2, <4>3, <5>1, <1>5, <1>3, <3>3
      <4>4. CASE m > lastseq
        <5>1. lastseq - m \notin bitmap
          BY <4>4, <1>1, <3>1
        <5> QED
          BY <4>1, <4>2, <4>4, <5>1, <1>5, <1>3, <3>3, <1>1, <3>1
      <4> QED
        BY <4>3, <4>4, <1>1, <3>1
    <3> QED
      BY <3>2, <3>3
  <2>4. \A m \in Seqs : took'[m] > 0 => m <= n
    BY <1>1, <1>3, <1>5, <1>6 DEF Seqs
  <2> QED
    BY <2>1, <2>2, <2>3, <2>4, <1>1, <1>4 DEF WindowExact, Seqs
<1>7. CASE n > lastseq /\ ~ (n - lastseq < Win)
  <2>1. lastseq' = n /\ bitmap' = {0}
    BY <1>7, <1>1 DEF BitmapAfter, LastAfter
  <2>2. \A m \in Seqs : took'[m] > 0 => m <= n
    BY <1>1, <1>3, <1>5, <1>7 DEF Seqs
  <2>3. ASSUME NEW m \in Seqs, m <= n, n - m < Win
        PROVE  n - m \in bitmap' <=> took'[m] > 0
    BY <2>1, <2>3, <1>1, <1>3, <1>5, <1>7 DEF Seqs
  <2> QED
    BY <2>1, <2>2, <2>3, <1>1, <1>4 DEF WindowExact, Seqs
<1>8. CASE ~ (n > lastseq)
  <2>1. lastseq' = lastseq /\ bitmap' = bitmap \cup Bit(lastseq - n)
    BY <1>8, <1>1 DEF BitmapAfter, LastAfter
  <2>2. lastseq - n \in 0..(Win - 1)
    BY <1>1, <1>2, <1>8
  <2>3. bitmap' \in SUBSET (0..(WordBits - 1))
    BY <2>1, <2>2, <1>1 DEF Bit
  <2>4. \A m \in Seqs : took'[m] > 0 => m <= lastseq
    BY <1>1, <1>3, <1>5, <1>8
  <2>5. ASSUME NEW m \in Seqs, m <= lastseq, lastseq - m < Win
        PROVE  lastseq - m \in bitmap' <=> took'[m] > 0
    <3>1. lastseq - m \in 0..(Win - 1) /\ m \in Nat
      BY <2>5, <1>1 DEF Seqs
    <3>2. lastseq - m \in Bit(lastseq - n) <=> m = n
      BY <3>1, <2>2, <1>1, BitInWindow
    <3>3. lastseq - m \in bitmap <=> took[m] > 0
      BY <2>5, <1>5
    <3> QED
      BY <3>2, <3>3, <2>1, <1>3
  <2> QED
    BY <2>1, <2>3, <2>4, <2>5, <1>1, <1>4 DEF WindowExact
<1> QED
  BY <1>1, <1>6, <1>7, <1>8

\* The second check of a waiting packet keeps the invariant: it drops the
\* packet or takes it.
LEMMA ChkKeeps ==
  ASSUME RwInv, NEW p \in Slots, RwChk(p)
  PROVE  RwInv'
<1>1. waiting[p] \in 0..MaxSeq
  BY MaxSeqAssumption DEF RwInv, RwTypeOK, RwChk, Idle
<1>2. waiting' \in [Slots -> -1..MaxSeq]
  BY MaxSeqAssumption DEF RwInv, RwTypeOK, RwChk, Idle
<1>3. CASE ~ Checks(lastseq, bitmap, waiting[p])
  BY <1>2, <1>3 DEF RwInv, RwTypeOK, RwChk, WindowExact
<1>4. CASE Checks(lastseq, bitmap, waiting[p]) /\ Win > 0
  <2>1. waiting[p] \in Seqs
    BY <1>1, <1>4, MaxSeqAssumption, WinAssumption DEF Checks, Seqs
  <2>2. /\ bitmap' = BitmapAfter(lastseq, bitmap, waiting[p])
        /\ lastseq' = LastAfter(lastseq, waiting[p])
        /\ took' = [took EXCEPT ![waiting[p]] = @ + 1]
    BY <2>1, <1>4 DEF RwChk, Seqs
  <2>3. /\ lastseq' \in 0..MaxSeq
        /\ bitmap' \in SUBSET (0..(WordBits - 1))
        /\ took' \in [Seqs -> Nat]
        /\ WindowExact'
        /\ \A m \in Seqs : took'[m] <= 1
    BY <2>1, <2>2, <1>4, TakeExact
  <2> QED
    BY <2>3, <1>2 DEF RwInv, RwTypeOK
<1>5. CASE Checks(lastseq, bitmap, waiting[p]) /\ ~ (Win > 0)
  <2>1. Win = 0
    BY <1>5, WinAssumption
  <2>2. bitmap' = bitmap /\ lastseq' = lastseq
    BY <2>1, <1>5 DEF RwChk, BitmapAfter, LastAfter
  <2>3. took' \in [Seqs -> Nat]
    BY <1>1, <1>5 DEF RwInv, RwTypeOK, RwChk, Seqs
  <2> QED
    BY <2>1, <2>2, <2>3, <1>2 DEF RwInv, RwTypeOK, WindowExact
<1> QED
  BY <1>3, <1>4, <1>5

\* The invariant holds throughout.
THEOREM RwInvariant == RwSpec => []RwInv
<1>1. RwInit => RwInv
  BY MaxSeqAssumption, WinAssumption
  DEF RwInit, RwInv, RwTypeOK, WindowExact, Seqs, Idle
<1>2. RwInv /\ [RwNext]_rwVars => RwInv'
  <2> SUFFICES ASSUME RwInv, [RwNext]_rwVars PROVE RwInv'
    OBVIOUS
  <2>1. ASSUME NEW p \in Slots, NEW seq \in 0..MaxSeq, RwCalc(p, seq)
        PROVE  RwInv'
    BY <2>1, MaxSeqAssumption DEF RwInv, RwTypeOK, WindowExact, RwCalc
  <2>2. ASSUME NEW p \in Slots, RwChk(p)
        PROVE  RwInv'
    BY <2>2, ChkKeeps
  <2>3. ASSUME NEW p \in Slots, RwDrop(p)
        PROVE  RwInv'
    BY <2>3, MaxSeqAssumption DEF RwInv, RwTypeOK, WindowExact, RwDrop, Idle
  <2>4. CASE UNCHANGED rwVars
    BY <2>4 DEF RwInv, RwTypeOK, WindowExact, rwVars
  <2> QED
    BY <2>1, <2>2, <2>3, <2>4 DEF RwNext
<1> QED
  BY <1>1, <1>2, PTL DEF RwSpec

\* The window is the memory the check needs, at every moment
\* (ipsec_updatereplaywindow), for windows up to the width of an int.
THEOREM WindowStaysExact == RwSpec => []WindowExact
<1>1. RwInv => WindowExact
  BY DEF RwInv
<1> QED
  BY <1>1, RwInvariant, PTL

\* Below the sign bit of the mask a packet is called a duplicate only if it is
\* one (the drop in ipsec_checkreplaywindow).
THEOREM SeenIsTaken == RwSpec => []SeenWasTaken
<1>1. RwInv => SeenWasTaken
  <2> SUFFICES ASSUME RwInv, NEW n \in Seqs, n <= lastseq, lastseq - n < Win,
                      lastseq - n # IntBits - 1, ~ Checks(lastseq, bitmap, n)
               PROVE  took[n] > 0
    BY DEF SeenWasTaken
  <2>1. n > 0 /\ n \in Nat /\ lastseq \in Nat /\ Win > 0
    BY MaxSeqAssumption, WinAssumption DEF Seqs, RwInv, RwTypeOK
  <2>2. bitmap \cap {lastseq - n} # {}
    BY <2>1 DEF Checks, Bit
  <2> QED
    BY <2>1, <2>2 DEF RwInv, WindowExact
<1> QED
  BY <1>1, RwInvariant, PTL

\* The receive path implements the anti-replay promise: whatever waits between
\* ipsec_rcv_auth_calc and ipsec_rcv_auth_chk, no sequence number is delivered
\* twice and none from below the window.
THEOREM WindowImplementsAntiReplay == RwSpec => TakesOnce
<1>1. RwInit => AntiReplaySa!Init
  BY DEF RwInit, AntiReplaySa!Init, AntiReplaySa!Nothing
<1>2. RwInv /\ [RwNext]_rwVars
        => [AntiReplaySa!Next]_([s \in {0} |-> took])
  <2> SUFFICES ASSUME RwInv, [RwNext]_rwVars, took' # took
               PROVE  AntiReplaySa!Next
    OBVIOUS
  <2>1. PICK p \in Slots : RwChk(p)
    BY DEF RwNext, RwCalc, RwDrop, rwVars
  <2> DEFINE n == waiting[p]
  <2>2. n \in Seqs /\ Checks(lastseq, bitmap, n)
    BY <2>1, MaxSeqAssumption DEF RwInv, RwTypeOK, RwChk, Idle, Seqs
  <2>3. took' = [took EXCEPT ![n] = @ + 1]
    BY <2>1, <2>2 DEF RwChk, Seqs
  <2>4. ASSUME Win > 0 PROVE took[n] = 0 /\ (n <= lastseq => lastseq - n < Win)
    BY <2>2, <2>4, ChecksSound
  <2>5. ASSUME Win > 0 PROVE \A m \in Seqs : took[m] > 0 => m - n < Win
    BY <2>2, <2>4, <2>5, WinAssumption, MaxSeqAssumption
    DEF RwInv, RwTypeOK, WindowExact, Seqs
  <2>6. AntiReplaySa!Take(0, n)
    BY <2>3, <2>4, <2>5 DEF AntiReplaySa!Take
  <2> QED
    BY <2>2, <2>6 DEF AntiReplaySa!Next
<1> QED
  BY <1>1, <1>2, RwInvariant, PTL DEF RwSpec, AntiReplaySa!Spec, TakesOnce
=============================================================================
