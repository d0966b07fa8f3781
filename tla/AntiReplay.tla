----------------------------- MODULE AntiReplay -----------------------------
(***************************************************************************)
(* What an anti-replay service promises: no sequence number is taken       *)
(* twice from one SA, and none that lies a window or more below one that   *)
(* was taken before.  An SA whose window is zero has asked for no such     *)
(* service.  An SA is forgotten only as a whole.                           *)
(***************************************************************************)
EXTENDS Integers

CONSTANTS Sas, Seqs, Win

VARIABLE taken        \* how often each sequence number was taken, by SA

Nothing == [n \in Seqs |-> 0]

Init == taken = [s \in Sas |-> Nothing]

Take(s, n) ==
  /\ Win > 0 => /\ taken[s][n] = 0
                /\ \A m \in Seqs : taken[s][m] > 0 => m - n < Win
  /\ taken' = [taken EXCEPT ![s][n] = @ + 1]

Forget(s) == taken' = [taken EXCEPT ![s] = Nothing]

Next == \E s \in Sas : Forget(s) \/ \E n \in Seqs : Take(s, n)

Spec == Init /\ [][Next]_taken
=============================================================================
