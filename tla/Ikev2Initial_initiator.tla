------------------------ MODULE Ikev2Initial_initiator ------------------------
(***************************************************************************)
(* The inductive invariant of the initial exchanges, and the proofs that   *)
(* the steps of the initiator keep it.                                     *)
(***************************************************************************)
EXTENDS Ikev2Initial, FiniteSetTheorems, TLAPS

Types == {"I1", "COOKIE", "INVALID_KE", "NO_PROPOSAL", "R1", "I2", "R2"}
Packets == [type : Types \cup {"none"}, spii : 0 .. KeyingTries, spir : 0 .. MaxR,
            ni : Nat, gr : Nat, group : Groups, cookie : Nat]
IStates == {"none", "I1", "I2", "I3", "gone"}
IRec == [state : IStates, oe : BOOLEAN, rcookie : 0 .. MaxR, group : Groups,
         ni : Nat, dcookie : Nat, gr : Nat, work : {"none", "ke", "dh"},
         timer : {"none", "discard", "crypto_failed", "retransmit", "replace"},
         retransmit : Nat, tpacket : Packets]
RStates == {"none", "R1", "R2", "gone"}
RRec == [state : RStates, oe : BOOLEAN, spii : 0 .. KeyingTries, ni : Nat,
         work : {"none", "ke", "dh"}, i2 : Packets,
         timer : {"none", "discard", "crypto_failed", "responder_timeout", "replace"},
         tpacket : Packets]

\* What the state of an attempt a says about its timer, its work and the packet
\* its timer sends again.
IStateOK(a, st) ==
  /\ st \in IRec
  /\ st.state \in {"none", "gone"} => st.timer = "none"
  /\ st.state = "I1" => st.timer \in {"discard", "crypto_failed", "retransmit"}
  /\ st.state = "I1" /\ st.timer = "retransmit" =>
       st.tpacket.type = "I1" /\ st.tpacket.spii = a
  /\ st.state = "I2" =>
       st.timer = "retransmit" /\ st.tpacket = Auth("I2", a, st.rcookie, st.ni, st.gr)
  /\ st.state = "I3" => st.timer = "replace"
  /\ st.work # "none" => st.state = "I1" /\ st.timer = "crypto_failed"

\* The same of a state r of R.
RStateOK(r, st) ==
  /\ st \in RRec
  /\ st.state # "none" => st.spii \in Attempts
  /\ st.state \in {"none", "gone"} => st.timer = "none"
  /\ st.state = "R1" => st.timer \in {"discard", "crypto_failed", "responder_timeout"}
  /\ st.state = "R2" => st.timer \in {"responder_timeout", "replace"}
  /\ st.work # "none" => st.state = "R1" /\ st.timer = "crypto_failed"
  /\ \/ st.tpacket = NoPacket
     \/ st.tpacket = R1(st.spii, r) /\ st.state # "none"
     \/ /\ st.tpacket = Auth("R2", st.spii, r, st.ni, r)
        /\ st.state = "R2" /\ st.timer = "replace"

\* Attempt a of i has sent its I2, with these keys.
Knows(i, a, r, ni, gr) ==
  /\ a \in Attempts /\ i[a].state \in {"I2", "I3", "gone"}
  /\ i[a].rcookie = r /\ i[a].ni = ni /\ i[a].gr = gr

\* State r of rs has sent its R2 to attempt a, with these keys, and stays.
Stays(rs, a, r, ni, gr) ==
  /\ r \in Replies /\ rs[r].state = "R2" /\ rs[r].timer = "replace"
  /\ rs[r].spii = a /\ rs[r].ni = ni /\ gr = r

IKnows(a, st, rs) == st.state = "I3" => Stays(rs, a, st.rcookie, st.ni, st.gr)

RKnows(r, st, i) ==
  /\ st.state # "none" => i[st.spii].state # "none"
  /\ st.work = "dh" => Knows(i, st.spii, r, st.i2.ni, st.i2.gr)
  /\ st.state = "R2" => Knows(i, st.spii, r, st.ni, r)

PacketOK(m, i, rs) ==
  /\ m \in Packets /\ m.type \in Types
  /\ m.spii \in Attempts /\ i[m.spii].state # "none"
  /\ m.type = "I2" => Knows(i, m.spii, m.spir, m.ni, m.gr)
  /\ m.type = "R2" => Stays(rs, m.spii, m.spir, m.ni, m.gr)

\* The attempts are used one after the other, and only the last may be alive.
UsedI(i) == {a \in Attempts : i[a].state # "none"}
InTurnI(i) ==
  \A a \in Attempts : /\ i[a].state = "none" <=> a > Cardinality(UsedI(i))
                      /\ a < Cardinality(UsedI(i)) => i[a].state = "gone"
UsedR(rs) == {r \in Replies : rs[r].state # "none"}
InTurnR(rs) == \A r \in Replies : rs[r].state = "none" <=> r > Cardinality(UsedR(rs))

HalfI(i) == {a \in Attempts : i[a].state = "I1"}
HalfR(rs) == {r \in Replies : rs[r].state = "R1"}

\* Attempts i, states rs, packets n in the network and counts hi and hr go
\* together.
Sound(i, rs, n, hi, hr) ==
  /\ i \in [Attempts -> IRec] /\ rs \in [Replies -> RRec]
  /\ \A a \in Attempts : IStateOK(a, i[a]) /\ IKnows(a, i[a], rs)
  /\ \A r \in Replies : RStateOK(r, rs[r]) /\ RKnows(r, rs[r], i)
  /\ \A m \in n : PacketOK(m, i, rs)
  /\ InTurnI(i) /\ InTurnR(rs)
  /\ hi = Cardinality(HalfI(i)) /\ hr = Cardinality(HalfR(rs))
  /\ \A r, s \in HalfR(rs) : rs[r].spii = rs[s].spii => r = s
  /\ hr <= MaxHalfopen

\* The inductive invariant.
InitialInv == half \in [I : Int, R : Int] /\ Sound(ist, rst, net, half.I, half.R)

-----------------------------------------------------------------------------
(* Operators.                                                                *)

\* The bounds are numbers.
LEMMA Bounds ==
  /\ KeyingTries \in Nat \ {0} /\ MaxR \in Nat \ {0} /\ MaxHalfopen \in Nat
  /\ FirstGroup \in Groups /\ RGroup \in Groups /\ Oppo \subseteq BOOLEAN
BY InitialAssumption

\* What the constructors make are packets.
LEMMA PacketType ==
  /\ NoPacket \in Packets
  /\ \A a \in Attempts, ni, c \in Nat, g \in Groups : I1(a, ni, g, c) \in Packets
  /\ \A a \in Attempts, c \in Nat, t \in Types : Notify(t, a, c) \in Packets
  /\ \A a \in Attempts, r \in Replies : R1(a, r) \in Packets
  /\ \A a \in Attempts, r \in 0 .. MaxR, ni, gr \in Nat, t \in Types :
       Auth(t, a, r, ni, gr) \in Packets
BY Bounds DEF NoPacket, I1, Notify, R1, Auth, Packet, Packets, Types, Attempts, Replies

\* The records that stand for no state.
LEMMA NoneType == NoI \in IRec /\ NoR \in RRec
BY Bounds, PacketType DEF NoI, NoR, IRec, RRec, IStates, RStates

\* A finite set with one more element.
LEMMA OneMore ==
  ASSUME NEW S, IsFiniteSet(S), NEW x, x \notin S
  PROVE  IsFiniteSet(S \cup {x}) /\ Cardinality(S \cup {x}) = Cardinality(S) + 1
BY FS_AddElement

\* And with one less.
LEMMA OneLess ==
  ASSUME NEW S, IsFiniteSet(S), NEW x \in S
  PROVE  IsFiniteSet(S \ {x}) /\ Cardinality(S \ {x}) = Cardinality(S) - 1
BY FS_RemoveElement

\* The sets that are counted are finite.
LEMMA Countable ==
  ASSUME NEW i, NEW rs
  PROVE  /\ IsFiniteSet(HalfI(i)) /\ Cardinality(HalfI(i)) \in Nat
         /\ IsFiniteSet(UsedI(i)) /\ Cardinality(UsedI(i)) \in Nat
         /\ IsFiniteSet(HalfR(rs)) /\ Cardinality(HalfR(rs)) \in Nat
         /\ IsFiniteSet(UsedR(rs)) /\ Cardinality(UsedR(rs)) \in Nat
<1>1. IsFiniteSet(Attempts) /\ IsFiniteSet(Replies)
  BY Bounds, FS_Interval DEF Attempts, Replies
<1>2. /\ HalfI(i) \subseteq Attempts /\ UsedI(i) \subseteq Attempts
      /\ HalfR(rs) \subseteq Replies /\ UsedR(rs) \subseteq Replies
  BY DEF HalfI, UsedI, HalfR, UsedR
<1>. QED
  BY <1>1, <1>2, FS_Subset, FS_CardinalityType

\* change_state counts the attempts in I1.
LEMMA CountI ==
  ASSUME NEW i \in [Attempts -> IRec], NEW a \in Attempts, NEW new \in IRec
  PROVE  Cardinality(HalfI([i EXCEPT ![a] = new]))
           = change_state(Cardinality(HalfI(i)), i[a].state, new.state)
<1>. DEFINE j == [i EXCEPT ![a] = new]
<1>1. /\ IsFiniteSet(HalfI(i)) /\ Cardinality(HalfI(i)) \in Nat
  BY Countable
<1>2. \A b \in Attempts : j[b] = IF b = a THEN new ELSE i[b]
  OBVIOUS
<1>3. i[a].state \in IStates /\ new.state \in IStates
  BY DEF IRec
<1>. HIDE DEF j
<1>4. CASE i[a].state = "I1" /\ new.state = "I1"
  <2>1. HalfI(j) = HalfI(i)
    BY <1>2, <1>4 DEF HalfI
  <2>. QED
    BY <1>1, <1>4, <2>1 DEF j, change_state, HalfOpen
<1>5. CASE i[a].state = "I1" /\ new.state # "I1"
  <2>1. HalfI(j) = HalfI(i) \ {a} /\ a \in HalfI(i)
    BY <1>2, <1>5 DEF HalfI
  <2>2. Cardinality(HalfI(j)) = Cardinality(HalfI(i)) - 1
    BY <1>1, <2>1, OneLess
  <2>. QED
    BY <1>1, <1>3, <1>5, <2>2 DEF j, change_state, HalfOpen, IStates
<1>6. CASE i[a].state # "I1" /\ new.state = "I1"
  <2>1. HalfI(j) = HalfI(i) \cup {a} /\ a \notin HalfI(i)
    BY <1>2, <1>6 DEF HalfI
  <2>2. Cardinality(HalfI(j)) = Cardinality(HalfI(i)) + 1
    BY <1>1, <2>1, OneMore
  <2>. QED
    BY <1>1, <1>3, <1>6, <2>2 DEF j, change_state, HalfOpen, IStates
<1>7. CASE i[a].state # "I1" /\ new.state # "I1"
  <2>1. HalfI(j) = HalfI(i)
    BY <1>2, <1>7 DEF HalfI
  <2>. QED
    BY <1>1, <1>3, <1>7, <2>1 DEF j, change_state, HalfOpen, IStates
<1>. QED
  BY <1>4, <1>5, <1>6, <1>7

\* change_state counts the states in R1.
LEMMA CountR ==
  ASSUME NEW rs \in [Replies -> RRec], NEW r \in Replies, NEW new \in RRec
  PROVE  Cardinality(HalfR([rs EXCEPT ![r] = new]))
           = change_state(Cardinality(HalfR(rs)), rs[r].state, new.state)
<1>. DEFINE j == [rs EXCEPT ![r] = new]
<1>1. /\ IsFiniteSet(HalfR(rs)) /\ Cardinality(HalfR(rs)) \in Nat
  BY Countable
<1>2. \A b \in Replies : j[b] = IF b = r THEN new ELSE rs[b]
  OBVIOUS
<1>3. rs[r].state \in RStates /\ new.state \in RStates
  BY DEF RRec
<1>. HIDE DEF j
<1>4. CASE rs[r].state = "R1" /\ new.state = "R1"
  <2>1. HalfR(j) = HalfR(rs)
    BY <1>2, <1>4 DEF HalfR
  <2>. QED
    BY <1>1, <1>4, <2>1 DEF j, change_state, HalfOpen
<1>5. CASE rs[r].state = "R1" /\ new.state # "R1"
  <2>1. HalfR(j) = HalfR(rs) \ {r} /\ r \in HalfR(rs)
    BY <1>2, <1>5 DEF HalfR
  <2>2. Cardinality(HalfR(j)) = Cardinality(HalfR(rs)) - 1
    BY <1>1, <2>1, OneLess
  <2>. QED
    BY <1>1, <1>3, <1>5, <2>2 DEF j, change_state, HalfOpen, RStates
<1>6. CASE rs[r].state # "R1" /\ new.state = "R1"
  <2>1. HalfR(j) = HalfR(rs) \cup {r} /\ r \notin HalfR(rs)
    BY <1>2, <1>6 DEF HalfR
  <2>2. Cardinality(HalfR(j)) = Cardinality(HalfR(rs)) + 1
    BY <1>1, <2>1, OneMore
  <2>. QED
    BY <1>1, <1>3, <1>6, <2>2 DEF j, change_state, HalfOpen, RStates
<1>7. CASE rs[r].state # "R1" /\ new.state # "R1"
  <2>1. HalfR(j) = HalfR(rs)
    BY <1>2, <1>7 DEF HalfR
  <2>. QED
    BY <1>1, <1>3, <1>7, <2>1 DEF j, change_state, HalfOpen, RStates
<1>. QED
  BY <1>4, <1>5, <1>6, <1>7

-----------------------------------------------------------------------------
(* One attempt, or one state of R, changes.                                  *)

\* An attempt that has sent its I2 keeps its keys.
Later(st, new) ==
  /\ st.state # "none" => new.state # "none"
  /\ st.state \in {"I2", "I3", "gone"} =>
       /\ new.state \in {"I2", "I3", "gone"}
       /\ new.rcookie = st.rcookie /\ new.ni = st.ni /\ new.gr = st.gr

\* A state that has sent its R2 keeps its keys and is not deleted.
LaterR(st, new) ==
  st.state = "R2" /\ st.timer = "replace" =>
    /\ new.state = "R2" /\ new.timer = "replace"
    /\ new.spii = st.spii /\ new.ni = st.ni

\* What is known about the attempts stays known.
LEMMA StillKnown ==
  ASSUME NEW i \in [Attempts -> IRec], NEW a \in Attempts, NEW new \in IRec,
         Later(i[a], new)
  PROVE  LET j == [i EXCEPT ![a] = new] IN
         /\ \A b \in Attempts : i[b].state # "none" => j[b].state # "none"
         /\ \A b, r, ni, gr : Knows(i, b, r, ni, gr) => Knows(j, b, r, ni, gr)
<1>. DEFINE j == [i EXCEPT ![a] = new]
<1>1. \A b \in Attempts : j[b] = IF b = a THEN new ELSE i[b]
  OBVIOUS
<1>. HIDE DEF j
<1>2. \A b \in Attempts : i[b].state # "none" => j[b].state # "none"
  BY <1>1 DEF Later
<1>3. ASSUME NEW b, NEW r, NEW ni, NEW gr, Knows(i, b, r, ni, gr)
      PROVE  Knows(j, b, r, ni, gr)
  BY <1>1, <1>3 DEF Later, Knows
<1>. QED
  BY <1>2, <1>3, Zenon DEF j

\* What is known about the states of R stays known.
LEMMA StillStays ==
  ASSUME NEW rs \in [Replies -> RRec], NEW r \in Replies, NEW new \in RRec,
         LaterR(rs[r], new)
  PROVE  \A a, s, ni, gr : Stays(rs, a, s, ni, gr)
                             => Stays([rs EXCEPT ![r] = new], a, s, ni, gr)
<1>. DEFINE j == [rs EXCEPT ![r] = new]
<1>1. \A s \in Replies : j[s] = IF s = r THEN new ELSE rs[s]
  OBVIOUS
<1>. HIDE DEF j
<1>2. ASSUME NEW a, NEW s, NEW ni, NEW gr, Stays(rs, a, s, ni, gr)
      PROVE  Stays(j, a, s, ni, gr)
  BY <1>1, <1>2 DEF LaterR, Stays
<1>. QED
  BY <1>2, Zenon DEF j

\* One attempt changes, in turn.
LEMMA ChangeI ==
  ASSUME NEW i, NEW rs, NEW n, NEW hi, NEW hr, Sound(i, rs, n, hi, hr),
         NEW a \in Attempts, NEW new, IStateOK(a, new), IKnows(a, new, rs),
         Later(i[a], new), InTurnI([i EXCEPT ![a] = new])
  PROVE  Sound([i EXCEPT ![a] = new], rs, n,
               change_state(hi, i[a].state, new.state), hr)
<1>. DEFINE j == [i EXCEPT ![a] = new]
<1>1. i \in [Attempts -> IRec] /\ rs \in [Replies -> RRec] /\ new \in IRec
  BY DEF Sound, IStateOK
<1>2. j \in [Attempts -> IRec] /\ \A b \in Attempts : j[b] = IF b = a THEN new ELSE i[b]
  BY <1>1
<1>3. /\ \A b \in Attempts : i[b].state # "none" => j[b].state # "none"
      /\ \A b, r, ni, gr : Knows(i, b, r, ni, gr) => Knows(j, b, r, ni, gr)
  BY <1>1, StillKnown, Zenon
<1>4. Cardinality(HalfI(j)) = change_state(hi, i[a].state, new.state)
  BY <1>1, CountI, Zenon DEF Sound
<1>5. InTurnI(j)
  OBVIOUS
<1>. HIDE DEF j
<1>6. \A b \in Attempts : IStateOK(b, j[b]) /\ IKnows(b, j[b], rs)
  BY <1>2 DEF Sound
<1>7. ASSUME NEW r \in Replies
      PROVE  RStateOK(r, rs[r]) /\ RKnows(r, rs[r], j)
  <2>1. RStateOK(r, rs[r]) /\ RKnows(r, rs[r], i)
    BY DEF Sound
  <2>2. rs[r].state # "none" => rs[r].spii \in Attempts
    BY <2>1 DEF RStateOK
  <2>. QED
    BY <1>3, <2>1, <2>2 DEF RKnows
<1>8. ASSUME NEW m \in n
      PROVE  PacketOK(m, j, rs)
  <2>1. PacketOK(m, i, rs)
    BY DEF Sound
  <2>. QED
    BY <1>3, <2>1 DEF PacketOK
<1>9. /\ InTurnR(rs) /\ hr = Cardinality(HalfR(rs)) /\ hr <= MaxHalfopen
      /\ \A r, s \in HalfR(rs) : rs[r].spii = rs[s].spii => r = s
  BY DEF Sound
<1>10. Sound(j, rs, n, change_state(hi, i[a].state, new.state), hr)
  BY <1>1, <1>2, <1>4, <1>5, <1>6, <1>7, <1>8, <1>9 DEF Sound
<1>. QED
  BY <1>10 DEF j

\* One state of R changes, in turn.
LEMMA ChangeR ==
  ASSUME NEW i, NEW rs, NEW n, NEW hi, NEW hr, Sound(i, rs, n, hi, hr),
         NEW r \in Replies, NEW new, RStateOK(r, new), RKnows(r, new, i),
         LaterR(rs[r], new), InTurnR([rs EXCEPT ![r] = new]),
         \A s \in HalfR(rs) : new.state = "R1" /\ rs[s].spii = new.spii => s = r,
         change_state(hr, rs[r].state, new.state) <= MaxHalfopen
  PROVE  Sound(i, [rs EXCEPT ![r] = new], n, hi,
               change_state(hr, rs[r].state, new.state))
<1>. DEFINE j == [rs EXCEPT ![r] = new]
<1>1. i \in [Attempts -> IRec] /\ rs \in [Replies -> RRec] /\ new \in RRec
  BY DEF Sound, RStateOK
<1>2. j \in [Replies -> RRec] /\ \A s \in Replies : j[s] = IF s = r THEN new ELSE rs[s]
  BY <1>1
<1>3. \A a, s, ni, gr : Stays(rs, a, s, ni, gr) => Stays(j, a, s, ni, gr)
  BY <1>1, StillStays, Zenon
<1>4. Cardinality(HalfR(j)) = change_state(hr, rs[r].state, new.state)
  BY <1>1, CountR, Zenon DEF Sound
<1>5. InTurnR(j)
  OBVIOUS
<1>. HIDE DEF j
<1>6. \A s \in Replies : RStateOK(s, j[s]) /\ RKnows(s, j[s], i)
  BY <1>2 DEF Sound
<1>7. ASSUME NEW a \in Attempts
      PROVE  IStateOK(a, i[a]) /\ IKnows(a, i[a], j)
  <2>1. IStateOK(a, i[a]) /\ IKnows(a, i[a], rs)
    BY DEF Sound
  <2>. QED
    BY <1>3, <2>1 DEF IKnows
<1>8. ASSUME NEW m \in n
      PROVE  PacketOK(m, i, j)
  <2>1. PacketOK(m, i, rs)
    BY DEF Sound
  <2>. QED
    BY <1>3, <2>1 DEF PacketOK
<1>9. InTurnI(i) /\ hi = Cardinality(HalfI(i))
  BY DEF Sound
<1>10. ASSUME NEW s \in HalfR(j), NEW t \in HalfR(j), j[s].spii = j[t].spii
       PROVE  s = t
  <2>1. \A u, v \in HalfR(rs) : rs[u].spii = rs[v].spii => u = v
    BY DEF Sound
  <2>. QED
    BY <1>2, <1>10, <2>1 DEF HalfR
<1>11. Sound(i, j, n, hi, change_state(hr, rs[r].state, new.state))
  BY <1>1, <1>2, <1>4, <1>5, <1>6, <1>7, <1>8, <1>9, <1>10 DEF Sound
<1>. QED
  BY <1>11 DEF j

\* An attempt that is alive is the last: it may change.
LEMMA InTurnKept ==
  ASSUME NEW i \in [Attempts -> IRec], InTurnI(i), NEW a \in Attempts,
         i[a].state \notin {"none", "gone"}, NEW new \in IRec, new.state # "none"
  PROVE  InTurnI([i EXCEPT ![a] = new])
<1>. DEFINE j == [i EXCEPT ![a] = new]
<1>1. \A b \in Attempts : j[b] = IF b = a THEN new ELSE i[b]
  OBVIOUS
<1>. HIDE DEF j
<1>2. UsedI(j) = UsedI(i)
  BY <1>1 DEF UsedI
<1>3. InTurnI(j)
  BY <1>1, <1>2 DEF InTurnI
<1>. QED
  BY <1>3 DEF j

\* The next attempt starts when all before it are gone.
LEMMA InTurnNext ==
  ASSUME NEW i \in [Attempts -> IRec], InTurnI(i), NEW a \in Attempts,
         a = Cardinality(UsedI(i)) + 1,
         \A b \in Attempts : i[b].state \in {"none", "gone"},
         NEW new \in IRec, new.state # "none"
  PROVE  InTurnI([i EXCEPT ![a] = new])
<1>. DEFINE j == [i EXCEPT ![a] = new]
            c == Cardinality(UsedI(i))
<1>1. \A b \in Attempts : j[b] = IF b = a THEN new ELSE i[b]
  OBVIOUS
<1>2. IsFiniteSet(UsedI(i)) /\ c \in Nat
  BY Countable
<1>3. \A b \in Attempts : i[b].state = "none" <=> b > c
  BY DEF InTurnI
<1>4. a = c + 1 /\ Attempts \subseteq Int
  BY Bounds DEF Attempts
<1>. HIDE DEF j, c
<1>5. UsedI(j) = UsedI(i) \cup {a} /\ a \notin UsedI(i)
  <2>1. i[a].state = "none"
    BY <1>2, <1>3, <1>4
  <2>. QED
    BY <1>1, <2>1 DEF UsedI
<1>6. Cardinality(UsedI(j)) = c + 1
  BY <1>2, <1>5, OneMore DEF c
<1>7. InTurnI(j)
  BY <1>1, <1>2, <1>3, <1>4, <1>6 DEF InTurnI
<1>. QED
  BY <1>7 DEF j

\* The same two facts of the states of R, of which several may be alive.
LEMMA InTurnKeptR ==
  ASSUME NEW rs \in [Replies -> RRec], InTurnR(rs), NEW r \in Replies,
         rs[r].state # "none", NEW new \in RRec, new.state # "none"
  PROVE  InTurnR([rs EXCEPT ![r] = new])
<1>. DEFINE j == [rs EXCEPT ![r] = new]
<1>1. \A s \in Replies : j[s] = IF s = r THEN new ELSE rs[s]
  OBVIOUS
<1>. HIDE DEF j
<1>2. UsedR(j) = UsedR(rs)
  BY <1>1 DEF UsedR
<1>3. InTurnR(j)
  BY <1>1, <1>2 DEF InTurnR
<1>. QED
  BY <1>3 DEF j

\* A new state of R is the next.
LEMMA InTurnNextR ==
  ASSUME NEW rs \in [Replies -> RRec], InTurnR(rs), NEW r \in Replies,
         r = Cardinality(UsedR(rs)) + 1, NEW new \in RRec, new.state # "none"
  PROVE  InTurnR([rs EXCEPT ![r] = new])
<1>. DEFINE j == [rs EXCEPT ![r] = new]
            c == Cardinality(UsedR(rs))
<1>1. \A s \in Replies : j[s] = IF s = r THEN new ELSE rs[s]
  OBVIOUS
<1>2. IsFiniteSet(UsedR(rs)) /\ c \in Nat
  BY Countable
<1>3. \A s \in Replies : rs[s].state = "none" <=> s > c
  BY DEF InTurnR
<1>4. r = c + 1 /\ Replies \subseteq Int
  BY Bounds DEF Replies
<1>. HIDE DEF j, c
<1>5. UsedR(j) = UsedR(rs) \cup {r} /\ r \notin UsedR(rs)
  <2>1. rs[r].state = "none"
    BY <1>2, <1>3, <1>4
  <2>. QED
    BY <1>1, <2>1, Zenon DEF UsedR
<1>6. Cardinality(UsedR(j)) = c + 1
  BY <1>2, <1>5, OneMore DEF c
<1>7. InTurnR(j)
  BY <1>1, <1>2, <1>3, <1>4, <1>6 DEF InTurnR
<1>. QED
  BY <1>7 DEF j

\* Packets are lost, or sent.
LEMMA ChangeNet ==
  ASSUME NEW i, NEW rs, NEW n, NEW hi, NEW hr, Sound(i, rs, n, hi, hr),
         NEW k, \A m \in k : m \in n \/ PacketOK(m, i, rs)
  PROVE  Sound(i, rs, k, hi, hr)
BY DEF Sound

\* An attempt that is alive changes.
LEMMA LiveI ==
  ASSUME NEW i, NEW rs, NEW n, NEW hi, NEW hr, Sound(i, rs, n, hi, hr),
         NEW a \in Attempts, i[a].state \notin {"none", "gone"},
         NEW new, IStateOK(a, new), IKnows(a, new, rs), Later(i[a], new)
  PROVE  Sound([i EXCEPT ![a] = new], rs, n,
               change_state(hi, i[a].state, new.state), hr)
<1>1. i \in [Attempts -> IRec] /\ new \in IRec /\ InTurnI(i)
  BY DEF Sound, IStateOK
<1>2. new.state # "none"
  BY DEF Later
<1>3. InTurnI([i EXCEPT ![a] = new])
  BY <1>1, <1>2, InTurnKept, Zenon
<1>. QED
  BY <1>3, ChangeI

\* The next attempt starts.
LEMMA StartI ==
  ASSUME NEW i, NEW rs, NEW n, NEW hi, NEW hr, Sound(i, rs, n, hi, hr),
         \A b \in Attempts : i[b].state \in {"none", "gone"},
         NEW a \in Attempts, a = Cardinality(UsedI(i)) + 1,
         NEW new, IStateOK(a, new), new.state = "I1"
  PROVE  Sound([i EXCEPT ![a] = new], rs, n, change_state(hi, "none", "I1"), hr)
<1>1. i \in [Attempts -> IRec] /\ new \in IRec /\ InTurnI(i)
  BY DEF Sound, IStateOK
<1>2. InTurnI([i EXCEPT ![a] = new])
  BY <1>1, InTurnNext, Zenon
<1>3. Attempts \subseteq Int /\ Cardinality(UsedI(i)) \in Nat
  BY Bounds, Countable DEF Attempts
<1>4. i[a].state = "none"
  BY <1>1, <1>3 DEF InTurnI
<1>5. Later(i[a], new) /\ IKnows(a, new, rs)
  BY <1>4 DEF Later, IKnows
<1>. QED
  BY <1>2, <1>4, <1>5, ChangeI

\* A state of R changes, and does not become half-open.
LEMMA LiveR ==
  ASSUME NEW i, NEW rs, NEW n, NEW hi, NEW hr, Sound(i, rs, n, hi, hr),
         NEW r \in Replies, rs[r].state = "R1",
         NEW new, RStateOK(r, new), RKnows(r, new, i),
         new.state # "none", new.spii = rs[r].spii
  PROVE  Sound(i, [rs EXCEPT ![r] = new], n, hi,
               change_state(hr, rs[r].state, new.state))
<1>1. rs \in [Replies -> RRec] /\ new \in RRec /\ InTurnR(rs)
  BY DEF Sound, RStateOK
<1>2. InTurnR([rs EXCEPT ![r] = new])
  BY <1>1, InTurnKeptR, Zenon
<1>3. \A s \in HalfR(rs) : new.state = "R1" /\ rs[s].spii = new.spii => s = r
  BY DEF Sound, HalfR
<1>4. hr = Cardinality(HalfR(rs)) /\ hr <= MaxHalfopen
  BY DEF Sound
<1>5. hr \in Nat /\ MaxHalfopen \in Nat
  BY <1>4, Countable, Bounds
<1>6. change_state(hr, rs[r].state, new.state) <= MaxHalfopen
  BY <1>4, <1>5 DEF change_state, HalfOpen
<1>7. LaterR(rs[r], new)
  BY DEF LaterR
<1>. QED
  BY <1>2, <1>3, <1>6, <1>7, ChangeR

\* A state of R whose timer may delete it is deleted.
LEMMA DeleteR ==
  ASSUME NEW i, NEW rs, NEW n, NEW hi, NEW hr, Sound(i, rs, n, hi, hr),
         NEW r \in Replies, rs[r].state \notin {"none", "gone"},
         rs[r].timer # "replace"
  PROVE  Sound(i, [rs EXCEPT ![r] = Gone(rs[r])], n, hi,
               change_state(hr, rs[r].state, "gone"))
<1>. DEFINE new == Gone(rs[r])
<1>1. rs \in [Replies -> RRec] /\ rs[r] \in RRec /\ InTurnR(rs)
  BY DEF Sound
<1>2. RStateOK(r, rs[r]) /\ RKnows(r, rs[r], i)
  BY DEF Sound
<1>3. /\ new \in RRec /\ new.state = "gone" /\ new.work = "none" /\ new.timer = "none"
      /\ new.spii = rs[r].spii /\ new.tpacket = rs[r].tpacket /\ new.ni = rs[r].ni
  BY <1>1, Zenon DEF Gone, RRec, RStates
<1>. HIDE DEF new
<1>4. RStateOK(r, new)
  BY <1>2, <1>3 DEF RStateOK
<1>5. RKnows(r, new, i)
  BY <1>2, <1>3 DEF RKnows
<1>6. InTurnR([rs EXCEPT ![r] = new])
  BY <1>1, <1>3, InTurnKeptR, Zenon
<1>7. hr = Cardinality(HalfR(rs)) /\ hr <= MaxHalfopen
  BY DEF Sound
<1>8. hr \in Nat /\ MaxHalfopen \in Nat
  BY <1>7, Countable, Bounds
<1>9. change_state(hr, rs[r].state, new.state) <= MaxHalfopen
  BY <1>3, <1>7, <1>8 DEF change_state, HalfOpen
<1>10. LaterR(rs[r], new)
  BY DEF LaterR
<1>11. \A s \in HalfR(rs) : new.state = "R1" /\ rs[s].spii = new.spii => s = r
  BY <1>3
<1>12. Sound(i, [rs EXCEPT ![r] = new], n, hi, change_state(hr, rs[r].state, new.state))
  BY <1>4, <1>5, <1>6, <1>9, <1>10, <1>11, ChangeR
<1>. QED
  BY <1>3, <1>12 DEF new

\* R makes a state for an attempt that has none half-open.
LEMMA StartR ==
  ASSUME NEW i, NEW rs, NEW n, NEW hi, NEW hr, Sound(i, rs, n, hi, hr),
         hr < MaxHalfopen, NEW r \in Replies, r = Cardinality(UsedR(rs)) + 1,
         NEW new, RStateOK(r, new), RKnows(r, new, i), new.state = "R1",
         \A s \in HalfR(rs) : rs[s].spii # new.spii
  PROVE  Sound(i, [rs EXCEPT ![r] = new], n, hi, change_state(hr, "none", "R1"))
<1>1. rs \in [Replies -> RRec] /\ new \in RRec /\ InTurnR(rs)
  BY DEF Sound, RStateOK
<1>2. InTurnR([rs EXCEPT ![r] = new])
  BY <1>1, InTurnNextR, Zenon
<1>3. Replies \subseteq Int /\ Cardinality(UsedR(rs)) \in Nat
  BY Bounds, Countable DEF Replies
<1>4. rs[r].state = "none"
  BY <1>1, <1>3 DEF InTurnR
<1>5. hr = Cardinality(HalfR(rs))
  BY DEF Sound
<1>6. hr \in Nat /\ MaxHalfopen \in Nat
  BY <1>5, Countable, Bounds
<1>7. change_state(hr, "none", "R1") <= MaxHalfopen
  BY <1>6 DEF change_state, HalfOpen
<1>8. LaterR(rs[r], new)
  BY <1>4 DEF LaterR
<1>. QED
  BY <1>2, <1>4, <1>7, <1>8, ChangeR

-----------------------------------------------------------------------------
(* What the steps of the initiator do.                                       *)

\* What the invariant says of one attempt.
LEMMA FactsI ==
  ASSUME InitialInv, NEW a \in Attempts
  PROVE  /\ ist \in [Attempts -> IRec] /\ ist[a] \in IRec
         /\ half \in [I : Int, R : Int]
         /\ IStateOK(a, ist[a]) /\ IKnows(a, ist[a], rst)
BY DEF InitialInv, Sound

\* What the invariant says of one state of R.
LEMMA FactsR ==
  ASSUME InitialInv, NEW r \in Replies
  PROVE  /\ rst \in [Replies -> RRec] /\ rst[r] \in RRec
         /\ half \in [I : Int, R : Int]
         /\ RStateOK(r, rst[r]) /\ RKnows(r, rst[r], ist)
BY DEF InitialInv, Sound

\* What is delivered was sent, and all that is on its way was sent before or now.
LEMMA Delivered ==
  ASSUME InitialInv, NEW m, NEW sent, Deliver(m, sent)
  PROVE  /\ m \in net /\ PacketOK(m, ist, rst)
         /\ \A p \in net' : p \in net \/ p \in sent
BY DEF InitialInv, Sound, Deliver

\* A live attempt changes, and packets about its new state are sent.
LEMMA StepI ==
  ASSUME InitialInv, NEW a \in Attempts, ist[a].state \notin {"none", "gone"},
         NEW new, IStateOK(a, new), IKnows(a, new, rst), Later(ist[a], new),
         ist' = [ist EXCEPT ![a] = new], rst' = rst,
         half' = [half EXCEPT !.I = change_state(half.I, ist[a].state, new.state)],
         \A p \in net' : p \in net \/ PacketOK(p, ist', rst)
  PROVE  InitialInv'
<1>1. Sound(ist, rst, net, half.I, half.R) /\ half \in [I : Int, R : Int]
  BY DEF InitialInv
<1>2. Sound(ist', rst, net, change_state(half.I, ist[a].state, new.state), half.R)
  BY <1>1, LiveI, Zenon
<1>3. Sound(ist', rst', net', change_state(half.I, ist[a].state, new.state), half.R)
  BY <1>2, ChangeNet, Zenon
<1>4. change_state(half.I, ist[a].state, new.state) \in Int
  BY <1>1 DEF change_state
<1>5. /\ half' \in [I : Int, R : Int] /\ half'.R = half.R
      /\ half'.I = change_state(half.I, ist[a].state, new.state)
  BY <1>1, <1>4
<1>. QED
  BY <1>3, <1>5 DEF InitialInv

\* The same when its state stays what it is.
LEMMA StayI ==
  ASSUME InitialInv, NEW a \in Attempts, ist[a].state \notin {"none", "gone"},
         NEW new, IStateOK(a, new), IKnows(a, new, rst), Later(ist[a], new),
         new.state = ist[a].state,
         ist' = [ist EXCEPT ![a] = new], rst' = rst, half' = half,
         \A p \in net' : p \in net \/ PacketOK(p, ist', rst)
  PROVE  InitialInv'
<1>1. half \in [I : Int, R : Int]
  BY DEF InitialInv
<1>2. change_state(half.I, ist[a].state, new.state) = half.I
  BY <1>1 DEF change_state
<1>3. half' = [half EXCEPT !.I = change_state(half.I, ist[a].state, new.state)]
  BY <1>1, <1>2
<1>. QED
  BY <1>3, StepI, Zenon

\* No state changes, and packets about the states are sent.
LEMMA QuietStep ==
  ASSUME InitialInv, UNCHANGED <<ist, rst, half>>,
         \A p \in net' : p \in net \/ PacketOK(p, ist, rst)
  PROVE  InitialInv'
<1>1. Sound(ist, rst, net', half.I, half.R)
  BY ChangeNet DEF InitialInv
<1>. QED
  BY <1>1 DEF InitialInv

\* An attempt is deleted.
LEMMA DeleteI ==
  ASSUME InitialInv, NEW a \in Attempts, ist[a].state \notin {"none", "gone"},
         delete_istate(a), rst' = rst, \A p \in net' : p \in net
  PROVE  InitialInv'
<1>. DEFINE new == Gone(ist[a])
<1>1. ist[a] \in IRec /\ IStateOK(a, ist[a])
  BY FactsI
<1>2. /\ new \in IRec /\ new.state = "gone" /\ new.timer = "none" /\ new.work = "none"
      /\ new.rcookie = ist[a].rcookie /\ new.ni = ist[a].ni /\ new.gr = ist[a].gr
  BY <1>1, Zenon DEF Gone, IRec, IStates
<1>3. /\ ist' = [ist EXCEPT ![a] = new]
      /\ half' = [half EXCEPT !.I = change_state(half.I, ist[a].state, new.state)]
  BY <1>2 DEF delete_istate
<1>. HIDE DEF new
<1>4. IStateOK(a, new) /\ IKnows(a, new, rst) /\ Later(ist[a], new)
  BY <1>2 DEF IStateOK, IKnows, Later
<1>. QED
  BY <1>3, <1>4, StepI, Zenon

\* A crypto request is started for an attempt in I1, or not.
LEMMA StartedI ==
  ASSUME NEW a \in Attempts, NEW st, IStateOK(a, st), st.state = "I1",
         NEW w \in {"ke", "dh"}, NEW x \in Started(st, w)
  PROVE  IStateOK(a, x) /\ x.state = "I1"
<1>1. st \in IRec
  BY DEF IStateOK
<1>2. CASE x = st
  BY <1>2
<1>3. CASE x = [st EXCEPT !.work = w, !.timer = "crypto_failed"]
  <2>1. x \in IRec /\ x.state = "I1" /\ x.timer = "crypto_failed"
    BY <1>1, <1>3, Zenon DEF IRec
  <2>. QED
    BY <2>1 DEF IStateOK
<1>. QED
  BY <1>2, <1>3 DEF Started

\* Outcome o of ikev2parent_outI1 is that attempt a is begun.
Begun(o, i, n, a) ==
  \E st : /\ IStateOK(a, st) /\ st.state = "I1"
          /\ o.sts = [i EXCEPT ![a] = st]
          /\ o.n = change_state(n, "none", "I1")

\* A new attempt is the next one, unless there are too many.
LEMMA OutI1 ==
  ASSUME NEW i \in [Attempts -> IRec], NEW n, NEW oe \in BOOLEAN,
         NEW o \in ikev2parent_outI1(i, n, oe), NEW a \in Attempts, a = Cardinality(UsedI(i)) + 1
  PROVE  (o.sts = i /\ o.n = n) \/ Begun(o, i, n, a)
<1>. DEFINE new == [NoI EXCEPT !.state = "I1", !.oe = oe, !.timer = "discard"]
<1>1. new \in IRec /\ new.state = "I1" /\ new.timer = "discard" /\ new.work = "none"
  BY NoneType, Zenon DEF IRec, NoI, IStates
<1>2. IStateOK(a, new)
  BY <1>1 DEF IStateOK
<1>3. a = Cardinality({b \in Attempts : i[b].state # "none"}) + 1
  BY DEF UsedI
<1>4. \/ o = [sts |-> i, n |-> n]
      \/ \E st \in Started(new, "ke") :
           o = [sts |-> [i EXCEPT ![a] = st], n |-> change_state(n, "none", "I1")]
  BY <1>3, Zenon DEF ikev2parent_outI1
<1>. HIDE DEF new
<1>5. ASSUME o = [sts |-> i, n |-> n]
      PROVE  o.sts = i /\ o.n = n
  BY <1>5
<1>6. ASSUME NEW st \in Started(new, "ke"),
             o = [sts |-> [i EXCEPT ![a] = st], n |-> change_state(n, "none", "I1")]
      PROVE  /\ IStateOK(a, st) /\ st.state = "I1"
             /\ o.sts = [i EXCEPT ![a] = st]
             /\ o.n = change_state(n, "none", "I1")
  <2>1. IStateOK(a, st) /\ st.state = "I1"
    BY <1>1, <1>2, StartedI
  <2>. QED
    BY <1>6, <2>1, Zenon
<1>. QED
  BY <1>4, <1>5, <1>6, Zenon DEF Begun

\* ipsec auto --up
LEMMA InitiateStep ==
  ASSUME InitialInv, NEW oe \in Oppo, Initiate(oe)
  PROVE  InitialInv'
<1>1. Sound(ist, rst, net, half.I, half.R) /\ half \in [I : Int, R : Int]
  BY DEF InitialInv
<1>2. UsedI(ist) = {} /\ \A b \in Attempts : ist[b].state = "none"
  BY DEF Initiate, UsedI
<1>3. Cardinality(UsedI(ist)) = 0
  BY <1>2, FS_EmptySet
<1>4. 1 \in Attempts /\ 1 = Cardinality(UsedI(ist)) + 1
  BY <1>3, Bounds DEF Attempts
<1>5. oe \in BOOLEAN
  BY Bounds
<1>6. PICK o \in ikev2parent_outI1(ist, half.I, oe) :
        ist' = o.sts /\ half' = [half EXCEPT !.I = o.n]
  BY DEF Initiate
<1>7. rst' = rst /\ net' = net
  BY DEF Initiate
<1>8. CASE o.sts = ist /\ o.n = half.I
  <2>1. ist' = ist /\ half' = half
    BY <1>1, <1>6, <1>8
  <2>. QED
    BY <1>7, <2>1, QuietStep
<1>9. CASE Begun(o, ist, half.I, 1)
  <2>1. PICK st : /\ IStateOK(1, st) /\ st.state = "I1"
                  /\ o.sts = [ist EXCEPT ![1] = st]
                  /\ o.n = change_state(half.I, "none", "I1")
    BY <1>9, Zenon DEF Begun
  <2>2. Sound([ist EXCEPT ![1] = st], rst, net, change_state(half.I, "none", "I1"), half.R)
    BY <1>1, <1>2, <1>4, <2>1, StartI, Zenon
  <2>3. o.n \in Int
    BY <1>1, <2>1 DEF change_state
  <2>4. half' \in [I : Int, R : Int] /\ half'.I = o.n /\ half'.R = half.R
    BY <1>1, <1>6, <2>3
  <2>5. Sound(ist', rst', net', half'.I, half'.R)
    BY <1>6, <1>7, <2>1, <2>2, <2>4
  <2>. QED
    BY <2>4, <2>5 DEF InitialInv
<1>10. ist \in [Attempts -> IRec]
  BY <1>1 DEF Sound
<1>. QED
  BY <1>4, <1>5, <1>6, <1>8, <1>9, <1>10, OutI1

\* An I1 is sent, again or for the first time, and the timer waits for an answer.
LEMMA SentI1 ==
  ASSUME NEW a \in Attempts, NEW st \in IRec, st.state = "I1", st.work = "none"
  PROVE  LET x == SendI1(a, st) IN
         /\ IStateOK(a, x) /\ x.state = "I1"
         /\ \A i, rs : i[a] = x => PacketOK(x.tpacket, i, rs)
<1>. DEFINE p == I1(a, st.ni, st.group, st.dcookie)
            x == [st EXCEPT !.tpacket = p, !.timer = "retransmit"]
<1>1. p \in Packets
  BY PacketType DEF IRec
<1>2. p.type = "I1" /\ p.spii = a
  BY DEF I1, Packet
<1>. HIDE DEF p
<1>3. /\ x \in IRec /\ x.state = "I1" /\ x.work = "none" /\ x.timer = "retransmit"
      /\ x.tpacket = p
  BY <1>1, Zenon DEF IRec
<1>. HIDE DEF x
<1>4. IStateOK(a, x)
  BY <1>2, <1>3 DEF IStateOK
<1>5. ASSUME NEW i, NEW rs, i[a] = x
      PROVE  PacketOK(x.tpacket, i, rs)
  BY <1>1, <1>2, <1>3, <1>5 DEF PacketOK, Types
<1>6. SendI1(a, st) = x
  BY DEF SendI1, x, p
<1>. QED
  BY <1>3, <1>4, <1>5, <1>6

\* The attempt in I1 that a reply finds.
LEMMA FoundOK ==
  ASSUME InitialInv, NEW m, PacketOK(m, ist, rst), ist[m.spii].state = "I1"
  PROVE  /\ m \in Packets /\ m.spii \in Attempts
         /\ IStateOK(m.spii, Found(m)) /\ Found(m) \in IRec
         /\ Found(m).state = "I1" /\ Found(m).work = ist[m.spii].work
<1>1. m \in Packets /\ m.spii \in Attempts
  BY DEF PacketOK
<1>2. ist[m.spii] \in IRec /\ IStateOK(m.spii, ist[m.spii])
  BY <1>1, FactsI
<1>3. m.spir \in 0 .. MaxR
  BY <1>1 DEF Packets
<1>. DEFINE st == ist[m.spii]
            x == [st EXCEPT !.rcookie = m.spir]
<1>4. st.timer # "none"
  BY <1>2 DEF IStateOK
<1>5. Found(m) = x
  BY <1>2, <1>4, Zenon DEF Found, rehash_state, IRec
<1>6. /\ x \in IRec /\ x.state = "I1" /\ x.work = st.work /\ x.timer = st.timer
      /\ x.tpacket = st.tpacket
  BY <1>2, <1>3 DEF IRec
<1>. HIDE DEF x
<1>7. IStateOK(m.spii, x)
  BY <1>2, <1>6 DEF IStateOK
<1>. QED
  BY <1>1, <1>5, <1>6, <1>7

\* An attempt stays in I1: nothing was known of its keys.
LEMMA StayI1 ==
  ASSUME InitialInv, NEW a \in Attempts, ist[a].state = "I1",
         NEW new, IStateOK(a, new), new.state = "I1",
         ist' = [ist EXCEPT ![a] = new], rst' = rst, half' = half,
         \A p \in net' : p \in net \/ PacketOK(p, ist', rst)
  PROVE  InitialInv'
<1>1. IKnows(a, new, rst) /\ Later(ist[a], new)
  BY DEF IKnows, Later
<1>. QED
  BY <1>1, StayI, Zenon

\* ikev2_parent_outI1_continue
LEMMA OutI1ContinueStep ==
  ASSUME InitialInv, NEW a \in Attempts, outI1_continue(a)
  PROVE  InitialInv'
<1>. DEFINE st == [ist[a] EXCEPT !.work = "none", !.ni = @ + 1]
            x == SendI1(a, st)
<1>1. ist[a].work = "ke"
  BY DEF outI1_continue
<1>2. ist \in [Attempts -> IRec] /\ ist[a] \in IRec /\ IStateOK(a, ist[a])
  BY FactsI
<1>3. ist[a].state = "I1"
  BY <1>1, <1>2 DEF IStateOK
<1>4. st \in IRec /\ st.state = "I1" /\ st.work = "none"
  <2>1. ist[a].ni + 1 \in Nat
    BY <1>2 DEF IRec
  <2>2. st = [ist[a] EXCEPT !.work = "none", !.ni = ist[a].ni + 1]
    OBVIOUS
  <2>. QED
    BY <1>2, <1>3, <2>1, <2>2, Zenon DEF IRec
<1>5. /\ ist' = [ist EXCEPT ![a] = x] /\ net' = net \cup {x.tpacket}
      /\ rst' = rst /\ half' = half
  BY DEF outI1_continue, Send
<1>. HIDE DEF st
<1>6. /\ IStateOK(a, x) /\ x.state = "I1"
      /\ \A i, rs : i[a] = x => PacketOK(x.tpacket, i, rs)
  BY <1>4, SentI1
<1>. HIDE DEF x
<1>7. ist'[a] = x
  BY <1>2, <1>5
<1>8. PacketOK(x.tpacket, ist', rst)
  BY <1>6, <1>7
<1>. QED
  BY <1>3, <1>5, <1>6, <1>8, StayI1, Zenon

\* A reply to an I1 finds no attempt in I1, or one that is busy.
LEMMA DiscardedStep ==
  ASSUME InitialInv, NEW m, InitReplyDiscarded(m)
  PROVE  InitialInv'
<1>1. /\ PacketOK(m, ist, rst) /\ \A p \in net' : p \in net
      /\ rst' = rst /\ half' = half
  BY Delivered DEF InitReplyDiscarded
<1>2. CASE ist' = ist
  BY <1>1, <1>2, QuietStep
<1>3. CASE ist[m.spii].state = "I1" /\ ist' = [ist EXCEPT ![m.spii] = Found(m)]
  BY <1>1, <1>3, FoundOK, StayI1, Zenon
<1>. QED
  BY <1>2, <1>3 DEF InitReplyDiscarded

\* ikev2parent_inR1BoutI1B, N(COOKIE)
LEMMA CookieStep ==
  ASSUME InitialInv, NEW m, inR1BoutI1B_cookie(m)
  PROVE  InitialInv'
<1>. DEFINE a == m.spii
            st == [Found(m) EXCEPT !.dcookie = m.cookie]
            x == SendI1(a, st)
<1>1. /\ ist' = [ist EXCEPT ![a] = x] /\ Deliver(m, {x.tpacket})
      /\ rst' = rst /\ half' = half /\ ist[a].state = "I1" /\ ist[a].work = "none"
  BY DEF inR1BoutI1B_cookie, Ready
<1>2. PacketOK(m, ist, rst) /\ \A p \in net' : p \in net \/ p = x.tpacket
  BY <1>1, Delivered
<1>3. /\ m \in Packets /\ a \in Attempts /\ Found(m) \in IRec
      /\ Found(m).state = "I1" /\ Found(m).work = "none"
  BY <1>1, <1>2, FoundOK
<1>4. m.cookie \in Nat
  BY <1>3 DEF Packets
<1>5. st \in IRec /\ st.state = "I1" /\ st.work = "none"
  BY <1>3, <1>4 DEF IRec
<1>6. ist \in [Attempts -> IRec]
  BY <1>3, FactsI
<1>. HIDE DEF st
<1>7. /\ IStateOK(a, x) /\ x.state = "I1"
      /\ \A i, rs : i[a] = x => PacketOK(x.tpacket, i, rs)
  BY <1>3, <1>5, SentI1
<1>. HIDE DEF x, a
<1>8. ist'[a] = x
  BY <1>1, <1>3, <1>6
<1>9. PacketOK(x.tpacket, ist', rst)
  BY <1>7, <1>8
<1>. QED
  BY <1>1, <1>2, <1>3, <1>7, <1>9, StayI1, Zenon

\* ikev2parent_inR1BoutI1B, N(INVALID_KE)
LEMMA InvalidKeStep ==
  ASSUME InitialInv, NEW m, inR1BoutI1B_invalid_ke(m)
  PROVE  InitialInv'
<1>. DEFINE a == m.spii
            st == Found(m)
            counted == [st EXCEPT !.retransmit = @ + 1]
            again == [counted EXCEPT !.group = m.group]
            restart == rehash_state(again, 0)
<1>1. /\ Deliver(m, {}) /\ rst' = rst /\ half' = half
      /\ ist[a].state = "I1" /\ ist[a].work = "none"
  BY DEF inR1BoutI1B_invalid_ke, Ready
<1>2. PacketOK(m, ist, rst) /\ \A p \in net' : p \in net
  BY <1>1, Delivered
<1>3. /\ m \in Packets /\ a \in Attempts /\ IStateOK(a, st) /\ st \in IRec
      /\ st.state = "I1" /\ st.work = "none"
  BY <1>1, <1>2, FoundOK
<1>4. PICK new \in (IF st.retransmit >= MaxInvalidKe THEN {st}
                     ELSE Started(restart, "ke")) :
        ist' = [ist EXCEPT ![a] = new]
  BY Zenon DEF inR1BoutI1B_invalid_ke
<1>. HIDE DEF st
<1>5. /\ counted \in IRec /\ counted.state = "I1" /\ counted.work = "none"
      /\ counted.timer = st.timer /\ counted.tpacket = st.tpacket
  <2>1. st.retransmit + 1 \in Nat
    BY <1>3 DEF IRec
  <2>2. counted = [st EXCEPT !.retransmit = st.retransmit + 1]
    OBVIOUS
  <2>. QED
    BY <1>3, <2>1, <2>2 DEF IRec
<1>6. m.group \in Groups
  BY <1>3 DEF Packets
<1>. HIDE DEF counted
<1>7. /\ again \in IRec /\ again.state = "I1" /\ again.work = "none"
      /\ again.timer = st.timer /\ again.tpacket = st.tpacket
  BY <1>5, <1>6 DEF IRec
<1>. HIDE DEF again
<1>8. /\ restart \in IRec /\ restart.state = "I1" /\ restart.work = "none"
      /\ restart.timer = st.timer /\ restart.tpacket = st.tpacket
  <2>1. st.timer # "none"
    BY <1>3 DEF IStateOK
  <2>2. restart = [again EXCEPT !.rcookie = 0]
    BY <1>7, <2>1, Zenon DEF rehash_state, IRec
  <2>3. 0 \in 0 .. MaxR
    BY Bounds
  <2>. QED
    BY <1>7, <2>2, <2>3 DEF IRec
<1>. HIDE DEF restart
<1>9. IStateOK(a, restart)
  BY <1>3, <1>8 DEF IStateOK
<1>10. IStateOK(a, new) /\ new.state = "I1"
  BY <1>3, <1>4, <1>8, <1>9, StartedI
<1>. HIDE DEF a
<1>. QED
  BY <1>1, <1>2, <1>3, <1>4, <1>10, StayI1, Zenon

\* ikev2parent_inR1outI2
LEMMA InR1Step ==
  ASSUME InitialInv, NEW m, inR1outI2(m)
  PROVE  InitialInv'
<1>. DEFINE a == m.spii
            st == [Found(m) EXCEPT !.gr = m.gr]
<1>1. /\ Deliver(m, {}) /\ rst' = rst /\ ist[a].state = "I1"
  BY DEF inR1outI2, Ready
<1>2. PacketOK(m, ist, rst) /\ \A p \in net' : p \in net
  BY <1>1, Delivered
<1>3. /\ m \in Packets /\ a \in Attempts /\ IStateOK(a, Found(m))
      /\ Found(m) \in IRec /\ Found(m).state = "I1"
  BY <1>1, <1>2, FoundOK
<1>4. m.gr \in Nat
  BY <1>3 DEF Packets
<1>5. /\ st \in IRec /\ st.state = "I1" /\ st.work = Found(m).work
      /\ st.timer = Found(m).timer /\ st.tpacket = Found(m).tpacket
  BY <1>3, <1>4 DEF IRec
<1>6. CASE delete_istate(a)
  BY <1>1, <1>2, <1>3, <1>6, DeleteI
<1>7. ASSUME NEW x \in Started(st, "dh"), ist' = [ist EXCEPT ![a] = x], half' = half
      PROVE  InitialInv'
  <2>. HIDE DEF st
  <2>1. IStateOK(a, st)
    BY <1>3, <1>5 DEF IStateOK
  <2>2. IStateOK(a, x) /\ x.state = "I1"
    BY <1>3, <1>5, <2>1, StartedI
  <2>. HIDE DEF a
  <2>. QED
    BY <1>1, <1>2, <1>3, <1>7, <2>2, StayI1, Zenon
<1>. QED
  BY <1>6, <1>7 DEF inR1outI2

\* ikev2_parent_inR1outI2_continue: I2 is sent
LEMMA InR1ContinueStep ==
  ASSUME InitialInv, NEW a \in Attempts, inR1outI2_continue(a)
  PROVE  InitialInv'
<1>. DEFINE st == ist[a]
            m == Auth("I2", a, st.rcookie, st.ni, st.gr)
            new == [st EXCEPT !.state = "I2", !.work = "none",
                              !.timer = "retransmit", !.tpacket = m]
<1>1. /\ st.work = "dh" /\ ist' = [ist EXCEPT ![a] = new]
      /\ half' = [half EXCEPT !.I = change_state(half.I, st.state, "I2")]
      /\ net' = net \cup {m} /\ rst' = rst
  BY DEF inR1outI2_continue, Send
<1>2. ist \in [Attempts -> IRec] /\ st \in IRec /\ IStateOK(a, st)
  BY FactsI
<1>3. st.state = "I1"
  BY <1>1, <1>2 DEF IStateOK
<1>4. m \in Packets
  BY <1>2, PacketType DEF IRec, Types
<1>5. /\ m.type = "I2" /\ m.spii = a /\ m.spir = st.rcookie /\ m.ni = st.ni /\ m.gr = st.gr
  BY DEF Auth, Packet
<1>6. /\ new \in IRec /\ new.state = "I2" /\ new.work = "none"
      /\ new.timer = "retransmit" /\ new.tpacket = m
      /\ new.rcookie = st.rcookie /\ new.ni = st.ni /\ new.gr = st.gr
  BY <1>2, <1>4, Zenon DEF IRec, IStates
<1>. HIDE DEF new
<1>7. IStateOK(a, new)
  BY <1>6 DEF IStateOK
<1>. HIDE DEF m
<1>8. ist'[a] = new
  BY <1>1, <1>2
<1>9. PacketOK(m, ist', rst)
  BY <1>4, <1>5, <1>6, <1>8 DEF PacketOK, Types, Knows
<1>10. IKnows(a, new, rst) /\ Later(ist[a], new)
  BY <1>3, <1>6 DEF IKnows, Later
<1>11. half' = [half EXCEPT !.I = change_state(half.I, st.state, new.state)]
  BY <1>1, <1>6
<1>12. \A p \in net' : p \in net \/ PacketOK(p, ist', rst)
  BY <1>1, <1>9
<1>. QED
  BY <1>1, <1>3, <1>7, <1>10, <1>11, <1>12, StepI, Zenon

\* ikev2parent_inR2
LEMMA InR2Step ==
  ASSUME InitialInv, NEW m, inR2(m)
  PROVE  InitialInv'
<1>. DEFINE a == m.spii
            new == [ist[a] EXCEPT !.state = "I3", !.timer = "replace"]
<1>1. m.type = "R2" /\ Deliver(m, {}) /\ rst' = rst /\ half' = half
  BY DEF inR2
<1>2. PacketOK(m, ist, rst) /\ \A p \in net' : p \in net
  BY <1>1, Delivered
<1>3. CASE ist' = ist
  BY <1>1, <1>2, <1>3, QuietStep
<1>4. CASE Expected(m) /\ Established(a)
  <2>1. a \in Attempts /\ Stays(rst, a, m.spir, m.ni, m.gr)
    BY <1>1, <1>2 DEF PacketOK
  <2>2. /\ ist[a].state = "I2" /\ m.spir = ist[a].rcookie
        /\ m.ni = ist[a].ni /\ m.gr = ist[a].gr
    BY <1>4 DEF Expected
  <2>3. ist \in [Attempts -> IRec] /\ ist[a] \in IRec /\ IStateOK(a, ist[a])
        /\ half \in [I : Int, R : Int]
    BY <2>1, FactsI
  <2>4. /\ new \in IRec /\ new.state = "I3" /\ new.timer = "replace"
        /\ new.work = ist[a].work /\ new.rcookie = ist[a].rcookie
        /\ new.ni = ist[a].ni /\ new.gr = ist[a].gr
    BY <2>3, Zenon DEF IRec, IStates
  <2>5. ist' = [ist EXCEPT ![a] = new]
    BY <1>4, <2>1, <2>3, Zenon DEF Established
  <2>. HIDE DEF a, new
  <2>6. IStateOK(a, new)
    BY <2>2, <2>3, <2>4 DEF IStateOK
  <2>7. IKnows(a, new, rst) /\ Later(ist[a], new)
    BY <2>1, <2>2, <2>4 DEF IKnows, Later
  <2>8. change_state(half.I, ist[a].state, new.state) = half.I
    BY <2>2, <2>3, <2>4 DEF change_state, HalfOpen
  <2>9. half' = [half EXCEPT !.I = change_state(half.I, ist[a].state, new.state)]
    BY <1>1, <2>3, <2>8
  <2>. QED
    BY <1>1, <1>2, <2>1, <2>2, <2>5, <2>6, <2>7, <2>9, StepI, ZenonT(40)
<1>. QED
  BY <1>3, <1>4 DEF inR2

\* The packet that a retransmission sends is about the attempt.
LEMMA SentAgain ==
  ASSUME InitialInv, NEW a \in Attempts, ist[a].timer = "retransmit"
  PROVE  /\ ist[a].state \in {"I1", "I2"}
         /\ \A i, rs : (/\ i[a].state = ist[a].state /\ i[a].rcookie = ist[a].rcookie
                        /\ i[a].ni = ist[a].ni /\ i[a].gr = ist[a].gr)
                       => PacketOK(ist[a].tpacket, i, rs)
<1>. DEFINE st == ist[a]
            m == st.tpacket
<1>1. st \in IRec /\ IStateOK(a, st)
  BY FactsI
<1>2. m \in Packets
  BY <1>1 DEF IRec
<1>3. st.state \in {"I1", "I2"}
  BY <1>1 DEF IStateOK, IRec, IStates
<1>4. st.state = "I1" => m.type = "I1" /\ m.spii = a
  BY <1>1 DEF IStateOK
<1>5. st.state = "I2" => /\ m.type = "I2" /\ m.spii = a
                         /\ m.spir = st.rcookie /\ m.ni = st.ni /\ m.gr = st.gr
  BY <1>1 DEF IStateOK, Auth, Packet
<1>. HIDE DEF m
<1>6. ASSUME NEW i, NEW rs, i[a].state = st.state, i[a].rcookie = st.rcookie,
             i[a].ni = st.ni, i[a].gr = st.gr
      PROVE  PacketOK(m, i, rs)
  BY <1>2, <1>3, <1>4, <1>5, <1>6 DEF PacketOK, Types, Knows
<1>. QED
  BY <1>3, <1>6 DEF m

\* When the only live attempt is deleted, none is alive.
LEMMA NoneAlive ==
  ASSUME NEW i, NEW rs, NEW n, NEW hi, NEW hr, Sound(i, rs, n, hi, hr),
         NEW a \in Attempts, i[a].state \notin {"none", "gone"}
  PROVE  a = Cardinality(UsedI(i))
         /\ \A b \in Attempts : b # a => i[b].state \in {"none", "gone"}
<1>1. Attempts \subseteq Int /\ Cardinality(UsedI(i)) \in Nat
  BY Bounds, Countable DEF Attempts
<1>2. InTurnI(i)
  BY DEF Sound
<1>3. a = Cardinality(UsedI(i))
  BY <1>1, <1>2 DEF InTurnI
<1>. QED
  BY <1>1, <1>2, <1>3 DEF InTurnI

\* Retransmissions are used up: the attempt is deleted and the next one begun.
LEMMA ReplaceStep ==
  ASSUME InitialInv, NEW a \in Attempts, ist[a].timer = "retransmit",
         a < KeyingTries, NEW o, Begun(o, ist, half.I, a + 1),
         ist' = [o.sts EXCEPT ![a] = Gone(o.sts[a])],
         half' = [half EXCEPT !.I = change_state(o.n, ist[a].state, "gone")],
         rst' = rst, net' = net
  PROVE  InitialInv'
<1>. DEFINE g == Gone(ist[a])
            i == [ist EXCEPT ![a] = g]
            hi == change_state(half.I, ist[a].state, "gone")
<1>1. /\ ist \in [Attempts -> IRec] /\ ist[a] \in IRec /\ IStateOK(a, ist[a])
      /\ half \in [I : Int, R : Int] /\ Sound(ist, rst, net, half.I, half.R)
  BY FactsI DEF InitialInv
<1>2. ist[a].state \in {"I1", "I2"}
  BY SentAgain
<1>3. /\ g \in IRec /\ g.state = "gone" /\ g.timer = "none" /\ g.work = "none"
      /\ g.rcookie = ist[a].rcookie /\ g.ni = ist[a].ni /\ g.gr = ist[a].gr
  BY <1>1, Zenon DEF Gone, IRec, IStates
<1>. HIDE DEF g
<1>4. IStateOK(a, g) /\ IKnows(a, g, rst) /\ Later(ist[a], g)
  BY <1>3 DEF IStateOK, IKnows, Later
<1>5. Sound(i, rst, net, hi, half.R)
  BY <1>1, <1>2, <1>3, <1>4, LiveI, Zenon
<1>6. /\ a = Cardinality(UsedI(ist))
      /\ \A b \in Attempts : b # a => ist[b].state \in {"none", "gone"}
  BY <1>1, <1>2, NoneAlive
<1>7. /\ i \in [Attempts -> IRec] /\ i[a] = g
      /\ \A b \in Attempts : b # a => i[b] = ist[b]
  BY <1>1, <1>3
<1>8. \A b \in Attempts : i[b].state \in {"none", "gone"}
  BY <1>3, <1>6, <1>7
<1>9. UsedI(i) = UsedI(ist)
  BY <1>2, <1>3, <1>7 DEF UsedI
<1>10. a + 1 \in Attempts /\ a + 1 # a
  BY Bounds DEF Attempts
<1>11. a + 1 = Cardinality(UsedI(i)) + 1
  BY <1>6, <1>9
<1>12. PICK st : /\ IStateOK(a + 1, st) /\ st.state = "I1"
                 /\ o.sts = [ist EXCEPT ![a + 1] = st]
                 /\ o.n = change_state(half.I, "none", "I1")
  BY Zenon DEF Begun
<1>13. st \in IRec
  BY <1>12 DEF IStateOK
<1>. HIDE DEF i, hi
<1>14. Sound([i EXCEPT ![a + 1] = st], rst, net, change_state(hi, "none", "I1"), half.R)
  BY <1>5, <1>8, <1>10, <1>11, <1>12, StartI
<1>15. o.sts \in [Attempts -> IRec] /\ o.sts[a] = ist[a]
  BY <1>1, <1>10, <1>12, <1>13
<1>16. ist' = [i EXCEPT ![a + 1] = st]
  <2>. DEFINE x == [i EXCEPT ![a + 1] = st]
  <2>1. ist' = [o.sts EXCEPT ![a] = g]
    BY <1>15 DEF g
  <2>2. ist' \in [Attempts -> IRec] /\ x \in [Attempts -> IRec]
    BY <1>3, <1>7, <1>13, <1>15, <2>1, Zenon
  <2>3. \A b \in Attempts : o.sts[b] = IF b = a + 1 THEN st ELSE ist[b]
    BY <1>1, <1>10, <1>12, <1>13
  <2>4. \A b \in Attempts : ist'[b] = IF b = a THEN g ELSE o.sts[b]
    BY <1>15, <2>1
  <2>5. \A b \in Attempts : x[b] = IF b = a + 1 THEN st ELSE i[b]
    BY <1>7
  <2>. HIDE DEF x
  <2>6. \A b \in Attempts : ist'[b] = x[b]
    BY <1>7, <1>10, <2>3, <2>4, <2>5
  <2>7. ist' = x
    BY <2>2, <2>6
  <2>. QED
    BY <2>7, Zenon DEF x
<1>17. /\ change_state(o.n, ist[a].state, "gone") = change_state(hi, "none", "I1")
       /\ change_state(hi, "none", "I1") \in Int
  BY <1>1, <1>12 DEF hi, change_state
<1>18. /\ half' \in [I : Int, R : Int] /\ half'.R = half.R
       /\ half'.I = change_state(hi, "none", "I1")
  BY <1>1, <1>17
<1>. QED
  BY <1>14, <1>16, <1>18, Zenon DEF InitialInv

\* retransmit_v2_msg
LEMMA RetransmitStep ==
  ASSUME InitialInv, NEW a \in Attempts, retransmit_v2_msg(a)
  PROVE  InitialInv'
<1>1. ist[a].timer = "retransmit" /\ rst' = rst
  BY DEF retransmit_v2_msg
<1>2. /\ ist \in [Attempts -> IRec] /\ ist[a] \in IRec /\ IStateOK(a, ist[a])
      /\ half \in [I : Int, R : Int] /\ IKnows(a, ist[a], rst)
      /\ Sound(ist, rst, net, half.I, half.R)
  BY FactsI DEF InitialInv
<1>3. /\ ist[a].state \in {"I1", "I2"}
      /\ \A i, rs : (/\ i[a].state = ist[a].state /\ i[a].rcookie = ist[a].rcookie
                     /\ i[a].ni = ist[a].ni /\ i[a].gr = ist[a].gr)
                    => PacketOK(ist[a].tpacket, i, rs)
  BY <1>1, SentAgain
<1>4. CASE delete_istate(a) /\ net' = net
  BY <1>1, <1>3, <1>4, DeleteI
<1>5. CASE /\ ist' = [ist EXCEPT ![a].retransmit = @ + 1]
           /\ net' = net \cup {ist[a].tpacket} /\ half' = half
  <2>. DEFINE new == [ist[a] EXCEPT !.retransmit = ist[a].retransmit + 1]
  <2>1. ist[a].retransmit + 1 \in Nat
    BY <1>2 DEF IRec
  <2>2. /\ new \in IRec /\ new.state = ist[a].state /\ new.timer = ist[a].timer
        /\ new.work = ist[a].work /\ new.rcookie = ist[a].rcookie
        /\ new.ni = ist[a].ni /\ new.gr = ist[a].gr /\ new.tpacket = ist[a].tpacket
    BY <1>2, <2>1 DEF IRec
  <2>3. ist' = [ist EXCEPT ![a] = new]
    BY <1>2, <1>5
  <2>. HIDE DEF new
  <2>4. ist'[a] = new
    BY <1>2, <2>3
  <2>5. IStateOK(a, new) /\ IKnows(a, new, rst) /\ Later(ist[a], new)
    BY <1>2, <1>3, <2>2, ZenonT(40) DEF IStateOK, IKnows, Later
  <2>6. PacketOK(ist[a].tpacket, ist', rst)
    BY <1>3, <2>2, <2>4
  <2>7. \A p \in net' : p \in net \/ PacketOK(p, ist', rst)
    BY <1>5, <2>6
  <2>. QED
    BY <1>1, <1>3, <1>5, <2>2, <2>3, <2>5, <2>7, StayI, ZenonT(40)
<1>6. ASSUME NEW o \in ipsecdoi_replace(a), net' = net,
             ist' = [o.sts EXCEPT ![a] = Gone(o.sts[a])],
             half' = [half EXCEPT !.I = change_state(o.n, ist[a].state, "gone")]
      PROVE  InitialInv'
  <2>1. CASE o.sts = ist /\ o.n = half.I
    <3>1. delete_istate(a)
      BY <1>6, <2>1, Zenon DEF delete_istate
    <3>. QED
      BY <1>1, <1>3, <1>6, <3>1, DeleteI
  <2>2. CASE a < KeyingTries
    <3>1. o \in ikev2parent_outI1(ist, half.I, ist[a].oe)
      BY <1>6, <2>2 DEF ipsecdoi_replace
    <3>2. ist[a].oe \in BOOLEAN
      BY <1>2, Zenon DEF IRec
    <3>3. a = Cardinality(UsedI(ist))
      BY <1>2, <1>3, NoneAlive, Zenon
    <3>4. a + 1 \in Attempts /\ a + 1 = Cardinality(UsedI(ist)) + 1
      BY <2>2, <3>3, Bounds DEF Attempts
    <3>5. (o.sts = ist /\ o.n = half.I) \/ Begun(o, ist, half.I, a + 1)
      BY <1>2, <3>1, <3>2, <3>4, OutI1
    <3>6. CASE Begun(o, ist, half.I, a + 1)
      BY <1>1, <1>6, <2>2, <3>6, ReplaceStep, Zenon
    <3>. QED
      BY <2>1, <3>5, <3>6
  <2>3. CASE ~(a < KeyingTries)
    <3>1. o = [sts |-> ist, n |-> half.I]
      BY <1>6, <2>3 DEF ipsecdoi_replace
    <3>. QED
      BY <2>1, <3>1
  <2>. QED
    BY <2>2, <2>3
<1>. QED
  BY <1>4, <1>5, <1>6, Zenon DEF retransmit_v2_msg, Send

\* EVENT_SO_DISCARD, EVENT_CRYPTO_FAILED, and the life of a half-open parent
LEMMA IExpiresStep ==
  ASSUME InitialInv, NEW a \in Attempts, IExpires(a)
  PROVE  InitialInv'
<1>1. /\ ist[a].timer \in {"discard", "crypto_failed"} \/ ist[a].state = "I2"
      /\ delete_istate(a) /\ rst' = rst /\ net' = net
  BY DEF IExpires
<1>2. IStateOK(a, ist[a])
  BY FactsI
<1>3. ist[a].state \notin {"none", "gone"}
  BY <1>1, <1>2 DEF IStateOK
<1>. QED
  BY <1>1, <1>3, DeleteI

=============================================================================
