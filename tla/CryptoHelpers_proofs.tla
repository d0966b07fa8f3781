------------------------ MODULE CryptoHelpers_proofs ------------------------
(***************************************************************************)
(* The crypto helpers proved for any number of states, helpers and         *)
(* requests, any work limits and any number of failures.                   *)
(***************************************************************************)
EXTENDS CryptoHelpers, FiniteSetTheorems, WellFoundedInduction, TLAPS

TypeOK ==
  /\ phase \in [Sts -> {"none", "idle", "calculating", "deleted"}]
  /\ pcw_id \in Nat \ {0}
  /\ place \in [ReqIds -> Workers \cup {Free, OnBacklog}]
  /\ owner \in [ReqIds -> Sts \cup {Nobody}]
  /\ backlog_queue_len \in Nat
  /\ pcw_dead \in [Workers -> BOOLEAN]
  /\ pcw_work \in [Workers -> Int]
  /\ requests \in [Workers -> Seq(ReqIds)]
  /\ thread \in [Workers -> ReqIds \cup {Waiting, Exited, NoThread}]
  /\ answers \in [Workers -> Seq(ReqIds)]
  /\ faults \in Nat
  /\ failed \in BOOLEAN

Distinct(seq) == \A k, l \in 1 .. Len(seq) : seq[k] = seq[l] => k = l

\* An ID that has not been given out is nowhere.
FreshIds == \A i \in ReqIds : i >= pcw_id => place[i] = Free /\ owner[i] = Nobody

\* A request is in one place of its helper: its queue, its thread or among its
\* answers, so that the continuation goes with the answer that is read.
OnceInFlight ==
  \A w \in Workers :
    /\ Distinct(requests[w]) /\ Distinct(answers[w])
    /\ \A i \in ReqIds :
         /\ ~ (IsIn(i, requests[w]) /\ IsIn(i, answers[w]))
         /\ thread[w] = i => ~ IsIn(i, requests[w]) /\ ~ IsIn(i, answers[w])

\* Until a helper fails, a dead one never had a thread and never got a request.
DeadFromStart ==
  faults = 0 => \A w \in Workers :
    /\ thread[w] # Exited
    /\ pcw_dead[w] => thread[w] = NoThread /\ requests[w] = << >> /\ answers[w] = << >>

\* A request is on the backlog only while every helper has all it may have.
BacklogMeansBusy ==
  NothingFailed /\ backlog # {} =>
    \A w \in Workers : pcw_dead[w] \/ pcw_work[w] >= MaxCrit

\* The inductive invariant.
HelperInv ==
  /\ TypeOK
  /\ FreshIds
  /\ OnceInFlight
  /\ DeadFromStart
  /\ BacklogMeansBusy
  /\ HelpersInStep
  /\ ContinuationsMatchStates

-----------------------------------------------------------------------------
(* Sequences, minima and the constants. *)

\* What the constants are.
LEMMA ConstantFacts ==
  /\ ReqIds \subseteq Nat \ {0} /\ IsFiniteSet(ReqIds)
  /\ \A w \in Workers : w \in Nat /\ w # Free /\ w # OnBacklog
  /\ MaxCrit \in Nat /\ MaxCrit >= 2
<1>1. IsFiniteSet(ReqIds)
  BY FS_Interval, BoundAssumption DEF ReqIds
<1> QED
  BY <1>1, WorkersAssumption, WorkAssumption, BoundAssumption DEF ReqIds, Free, OnBacklog

\* What a queue holds after a write.
LEMMA AppendFacts ==
  ASSUME NEW S, NEW q \in Seq(S), NEW x \in S
  PROVE  /\ Append(q, x) \in Seq(S)
         /\ \A i : IsIn(i, Append(q, x)) <=> IsIn(i, q) \/ i = x
         /\ Distinct(q) /\ ~ IsIn(x, q) => Distinct(Append(q, x))
<1>1. /\ Append(q, x) \in Seq(S) /\ Len(q) \in Nat /\ Len(Append(q, x)) = Len(q) + 1
      /\ \A k \in 1 .. Len(q) : Append(q, x)[k] = q[k]
      /\ Append(q, x)[Len(q) + 1] = x
  OBVIOUS
<1>2. \A k \in 1 .. (Len(q) + 1) : k \in 1 .. Len(q) \/ k = Len(q) + 1
  BY <1>1
<1>3. ASSUME NEW i PROVE IsIn(i, Append(q, x)) <=> IsIn(i, q) \/ i = x
  BY <1>1, <1>2 DEF IsIn
<1>4. ASSUME Distinct(q), ~ IsIn(x, q) PROVE Distinct(Append(q, x))
  BY <1>1, <1>2, <1>4 DEF Distinct, IsIn
<1> QED
  BY <1>1, <1>3, <1>4

\* What a queue holds before and after a read.
LEMMA TailFacts ==
  ASSUME NEW S, NEW q \in Seq(S), q # << >>
  PROVE  /\ Head(q) \in S /\ Tail(q) \in Seq(S)
         /\ \A i : IsIn(i, q) <=> IsIn(i, Tail(q)) \/ i = Head(q)
         /\ Distinct(q) => Distinct(Tail(q)) /\ ~ IsIn(Head(q), Tail(q))
<1>1. /\ Head(q) \in S /\ Tail(q) \in Seq(S) /\ Head(q) = q[1]
      /\ Len(q) \in Nat \ {0} /\ Len(Tail(q)) = Len(q) - 1
      /\ \A k \in 1 .. (Len(q) - 1) : Tail(q)[k] = q[k + 1]
  OBVIOUS
<1>2. \A k \in 1 .. Len(q) : k = 1 \/ (k - 1 \in 1 .. (Len(q) - 1) /\ q[k] = Tail(q)[k - 1])
  <2> SUFFICES ASSUME NEW k \in 1 .. Len(q), k # 1
               PROVE  k - 1 \in 1 .. (Len(q) - 1) /\ q[k] = Tail(q)[k - 1]
    OBVIOUS
  <2>1. k - 1 \in 1 .. (Len(q) - 1) /\ (k - 1) + 1 = k
    BY <1>1
  <2> QED
    BY <2>1, <1>1
<1>3. ASSUME NEW i PROVE IsIn(i, q) <=> IsIn(i, Tail(q)) \/ i = Head(q)
  <2>1. IsIn(i, q) => IsIn(i, Tail(q)) \/ i = Head(q)
    BY <1>1, <1>2, Zenon DEF IsIn
  <2>2. ASSUME IsIn(i, Tail(q)) PROVE IsIn(i, q)
    <3>1. PICK k \in 1 .. (Len(q) - 1) : Tail(q)[k] = i
      BY <1>1, <2>2 DEF IsIn
    <3>2. k + 1 \in 1 .. Len(q) /\ q[k + 1] = i
      BY <1>1, <3>1
    <3> QED
      BY <3>2 DEF IsIn
  <2>3. 1 \in 1 .. Len(q)
    BY <1>1
  <2> QED
    BY <2>1, <2>2, <2>3, <1>1 DEF IsIn
<1>4. ASSUME Distinct(q) PROVE Distinct(Tail(q)) /\ ~ IsIn(Head(q), Tail(q))
  <2>1. \A k \in 1 .. (Len(q) - 1) : k + 1 \in 1 .. Len(q) /\ 1 \in 1 .. Len(q) /\ k + 1 # 1
    BY <1>1
  <2>2. \A k, l \in 1 .. (Len(q) - 1) : Tail(q)[k] = Tail(q)[l] => k + 1 = l + 1
    BY <2>1, <1>1, <1>4 DEF Distinct
  <2>3. Distinct(Tail(q))
    BY <2>2, <1>1 DEF Distinct
  <2>4. ~ IsIn(Head(q), Tail(q))
    BY <2>1, <1>1, <1>4 DEF Distinct, IsIn
  <2> QED
    BY <2>3, <2>4
<1> QED
  BY <1>1, <1>3, <1>4

\* A non-empty set of numbers has a least one.
LEMMA LeastExists ==
  ASSUME NEW T \in SUBSET Nat, T # {}
  PROVE  \E x \in T : \A y \in T : x <= y
<1>1. \E x \in T : \A y \in T : ~ (<<y, x>> \in OpToRel(<, Nat))
  BY NatLessThanWellFounded, WFMin, Zenon
<1>2. \A x, y \in T : <<y, x>> \in OpToRel(<, Nat) <=> y < x
  BY DEF OpToRel
<1>3. \A x, y \in T : x <= y <=> ~ (y < x)
  OBVIOUS
<1> QED
  BY <1>1, <1>2, <1>3, Zenon

\* crypto_send_backlog takes exactly one continuation when there are any.
LEMMA ToSendOne ==
  ASSUME HelperInv
  PROVE  /\ backlog = {} => ToSend = {}
         /\ backlog # {} => /\ backlog_queue_len > 0
                            /\ \E m \in backlog : ToSend = {m}
<1>1. backlog \in SUBSET ReqIds /\ backlog \in SUBSET Nat /\ IsFiniteSet(backlog)
  BY ConstantFacts, FS_Subset, Zenon DEF backlog
<1>2. backlog_queue_len = Cardinality(backlog) /\ backlog_queue_len \in Nat
  BY DEF HelperInv, HelpersInStep, WorkCounts, TypeOK
<1>3. backlog # {} => backlog_queue_len > 0
  BY <1>1, <1>2, FS_EmptySet
<1>4. ASSUME backlog # {} PROVE \E m \in backlog : ToSend = {m}
  <2>1. PICK m \in backlog : \A j \in backlog : m <= j
    BY <1>1, <1>4, LeastExists
  <2>2. ASSUME NEW i \in backlog, \A j \in backlog : i <= j PROVE i = m
    <3>1. i <= m /\ m <= i /\ i \in Nat /\ m \in Nat
      BY <1>1, <2>1, <2>2
    <3> QED
      BY <3>1
  <2>3. ToSend = {m}
    BY <1>3, <1>4, <2>1, <2>2 DEF ToSend
  <2> QED
    BY <2>3
<1> QED
  BY <1>3, <1>4 DEF ToSend

-----------------------------------------------------------------------------
(* The steps. *)

\* The invariant holds when the helpers have been started.
LEMMA InitInv == Init => HelperInv
<1> SUFFICES ASSUME Init PROVE HelperInv
  OBVIOUS
<1>1. TypeOK
  <2>1. pcw_dead \in [Workers -> BOOLEAN] /\ failed \in BOOLEAN
    BY Zenon DEF Init
  <2>2. thread \in [Workers -> ReqIds \cup {Waiting, Exited, NoThread}]
    BY DEF Init
  <2>3. << >> \in Seq(ReqIds)
    OBVIOUS
  <2>4. requests \in [Workers -> Seq(ReqIds)] /\ answers \in [Workers -> Seq(ReqIds)]
    BY <2>3, Zenon DEF Init
  <2> QED
    BY <2>1, <2>2, <2>4 DEF Init, TypeOK
<1>2. /\ \A w \in Workers : requests[w] = << >> /\ answers[w] = << >>
      /\ \A i : ~ IsIn(i, << >>)
  BY DEF Init, IsIn
<1>3. \A w \in Workers : thread[w] \in {Waiting, NoThread} /\ thread[w] \notin ReqIds
  BY ConstantFacts DEF Init, Waiting, NoThread
<1>4. \A w \in Workers, i \in ReqIds : ~ InFlight(i, w)
  BY <1>2, <1>3 DEF InFlight
<1>5. FreshIds
  BY DEF Init, FreshIds
<1>6. OnceInFlight
  BY <1>2, <1>3 DEF OnceInFlight, Distinct
<1>7. DeadFromStart
  <2>1. \A w \in Workers : pcw_dead[w] <=> start[w] = "nothread"
    BY Zenon DEF Init
  <2>2. \A w \in Workers : start[w] = "nothread" => thread[w] = NoThread
    BY DEF Init
  <2> QED
    BY <1>2, <1>3, <2>1, <2>2 DEF DeadFromStart, Exited, Waiting, NoThread
<1>8. backlog = {} /\ \A w \in Workers : pcw_active(w) = {}
  BY ConstantFacts DEF Init, backlog, pcw_active, Free, OnBacklog
<1>9. BacklogMeansBusy
  BY <1>8 DEF BacklogMeansBusy
<1>10. HelpersInStep
  <2>1. WorkCounts
    BY <1>8, FS_EmptySet DEF Init, WorkCounts
  <2> QED
    BY <2>1, <1>4 DEF HelpersInStep, AnswersHaveContinuations, Init
<1>11. ContinuationsMatchStates
  BY <1>4 DEF ContinuationsMatchStates, LiveContinuation, Init
<1> QED
  BY <1>1, <1>5, <1>6, <1>7, <1>9, <1>10, <1>11 DEF HelperInv

\* What a helper does alone, and what is done to one that failed, changes
\* nothing of the continuations: requests only move on or get lost.
LEMMA FlightShrinks ==
  ASSUME HelperInv,
         UNCHANGED <<phase, place, owner, backlog_queue_len, start, pcw_work, failed>>,
         faults' = 0 => faults = 0,
         \A w \in Workers : thread'[w] # Exited => thread[w] # Exited,
         \A w \in Workers : pcw_dead[w] => pcw_dead'[w],
         \A w \in Workers, i \in ReqIds : InFlight(i, w)' => InFlight(i, w)
  PROVE  BacklogMeansBusy' /\ HelpersInStep' /\ ContinuationsMatchStates'
<1>1. backlog' = backlog /\ \A w \in Workers : pcw_active(w)' = pcw_active(w)
  BY DEF backlog, pcw_active
<1>2. NothingFailed' => NothingFailed
  BY DEF NothingFailed
<1>3. BacklogMeansBusy'
  BY <1>1, <1>2 DEF HelperInv, BacklogMeansBusy
<1>4. WorkCounts'
  BY <1>1 DEF HelperInv, HelpersInStep, WorkCounts
<1>5. AnswersHaveContinuations'
  BY DEF HelperInv, HelpersInStep, AnswersHaveContinuations
<1>6. HelpersInStep'
  BY <1>2, <1>4, <1>5 DEF HelperInv, HelpersInStep
<1>7. \A i \in ReqIds : LiveContinuation(i)' => LiveContinuation(i)
  BY DEF LiveContinuation
<1>8. ContinuationsMatchStates'
  BY <1>7 DEF HelperInv, ContinuationsMatchStates
<1> QED
  BY <1>3, <1>6, <1>8

\* A state object is created.
LEMMA NewStateStep ==
  ASSUME HelperInv, NEW s \in Sts, new_state(s)
  PROVE  HelperInv'
<1>1. TypeOK'
  BY DEF HelperInv, TypeOK, new_state, helperVars
<1>2. FreshIds' /\ OnceInFlight' /\ DeadFromStart' /\ BacklogMeansBusy'
  BY DEF HelperInv, new_state, helperVars, FreshIds, OnceInFlight, DeadFromStart,
         BacklogMeansBusy, NothingFailed, backlog
<1>3. HelpersInStep'
  BY DEF HelperInv, new_state, helperVars, HelpersInStep, WorkCounts, NothingFailed,
         AnswersHaveContinuations, InFlight, backlog, pcw_active
<1>4. \A i \in ReqIds : LiveContinuation(i)' <=> LiveContinuation(i)
  BY DEF new_state, helperVars, LiveContinuation, InFlight
<1>5. phase[s] = "none" /\ phase' = [phase EXCEPT ![s] = "idle"] /\ owner' = owner
  BY DEF new_state
<1>6. ContinuationsMatchStates'
  <2>1. \A i \in ReqIds : LiveContinuation(i) => owner[i] \in Sts /\ owner[i] # s
    BY <1>5 DEF HelperInv, TypeOK, ContinuationsMatchStates, LiveContinuation
  <2> QED
    BY <1>4, <1>5, <2>1 DEF HelperInv, TypeOK, ContinuationsMatchStates
<1> QED
  BY <1>1, <1>2, <1>3, <1>6 DEF HelperInv

\* A helper takes a request off its socket.
LEMMA HelperReadStep ==
  ASSUME HelperInv, NEW w \in Workers, helper_read(w)
  PROVE  HelperInv'
<1>1. /\ requests \in [Workers -> Seq(ReqIds)] /\ requests[w] # << >>
      /\ thread \in [Workers -> ReqIds \cup {Waiting, Exited, NoThread}]
      /\ thread[w] = Waiting /\ thread' = [thread EXCEPT ![w] = Head(requests[w])]
      /\ requests' = [requests EXCEPT ![w] = Tail(requests[w])]
      /\ UNCHANGED <<phase, pcw_id, place, owner, backlog_queue_len, start,
                     pcw_dead, pcw_work, answers, faults, failed>>
  BY DEF HelperInv, TypeOK, helper_read
<1> DEFINE q == requests[w]
<1>2. /\ Head(q) \in ReqIds /\ Tail(q) \in Seq(ReqIds)
      /\ \A i : IsIn(i, q) <=> IsIn(i, Tail(q)) \/ i = Head(q)
      /\ Distinct(q) => Distinct(Tail(q)) /\ ~ IsIn(Head(q), Tail(q))
  BY <1>1, TailFacts
<1>3. Waiting \notin ReqIds /\ Exited \notin ReqIds /\ Exited # Waiting
  BY ConstantFacts DEF Waiting, Exited
<1>4. TypeOK'
  BY <1>1, <1>2 DEF HelperInv, TypeOK
<1>5. \A v \in Workers : /\ v # w => requests'[v] = requests[v] /\ thread'[v] = thread[v]
                         /\ v = w => requests'[v] = Tail(q) /\ thread'[v] = Head(q)
  BY <1>1
<1>6. \A v \in Workers, i \in ReqIds : InFlight(i, v)' => InFlight(i, v)
  BY <1>1, <1>2, <1>5 DEF InFlight
<1>7. BacklogMeansBusy' /\ HelpersInStep' /\ ContinuationsMatchStates'
  BY <1>1, <1>3, <1>5, <1>6, FlightShrinks
<1>8. FreshIds'
  BY <1>1 DEF HelperInv, FreshIds
<1>9. OnceInFlight'
  <2>1. IsIn(Head(q), q) /\ ~ IsIn(Head(q), answers[w])
    BY <1>2 DEF HelperInv, OnceInFlight
  <2> QED
    BY <1>1, <1>2, <1>5, <2>1 DEF HelperInv, OnceInFlight
<1>10. DeadFromStart'
  BY <1>1, <1>2, <1>3, <1>5 DEF HelperInv, DeadFromStart
<1> QED
  BY <1>4, <1>7, <1>8, <1>9, <1>10 DEF HelperInv

\* A helper writes its answer.
LEMMA HelperWriteStep ==
  ASSUME HelperInv, NEW w \in Workers, helper_write(w)
  PROVE  HelperInv'
<1>1. /\ answers \in [Workers -> Seq(ReqIds)]
      /\ thread \in [Workers -> ReqIds \cup {Waiting, Exited, NoThread}]
      /\ thread[w] \in ReqIds /\ thread' = [thread EXCEPT ![w] = Waiting]
      /\ answers' = [answers EXCEPT ![w] = Append(answers[w], thread[w])]
      /\ UNCHANGED <<phase, pcw_id, place, owner, backlog_queue_len, start,
                     pcw_dead, pcw_work, requests, faults, failed>>
  BY DEF HelperInv, TypeOK, helper_write
<1> DEFINE q == Append(answers[w], thread[w])
<1>2. /\ q \in Seq(ReqIds)
      /\ \A i : IsIn(i, q) <=> IsIn(i, answers[w]) \/ i = thread[w]
      /\ Distinct(answers[w]) /\ ~ IsIn(thread[w], answers[w]) => Distinct(q)
  BY <1>1, AppendFacts
<1>3. Waiting \notin ReqIds /\ Exited \notin ReqIds /\ NoThread \notin ReqIds
      /\ Exited # Waiting
  BY ConstantFacts DEF Waiting, Exited, NoThread
<1>4. TypeOK'
  BY <1>1, <1>2 DEF HelperInv, TypeOK
<1>5. \A v \in Workers : /\ v # w => answers'[v] = answers[v] /\ thread'[v] = thread[v]
                         /\ v = w => answers'[v] = q /\ thread'[v] = Waiting
  BY <1>1
<1>6. \A v \in Workers, i \in ReqIds : InFlight(i, v)' => InFlight(i, v)
  BY <1>1, <1>2, <1>3, <1>5 DEF InFlight
<1>7. BacklogMeansBusy' /\ HelpersInStep' /\ ContinuationsMatchStates'
  BY <1>1, <1>3, <1>5, <1>6, FlightShrinks
<1>8. FreshIds'
  BY <1>1 DEF HelperInv, FreshIds
<1>9. OnceInFlight'
  <2>1. ~ IsIn(thread[w], requests[w]) /\ ~ IsIn(thread[w], answers[w])
    BY <1>1 DEF HelperInv, OnceInFlight
  <2> QED
    BY <1>1, <1>2, <1>3, <1>5, <2>1 DEF HelperInv, OnceInFlight
<1>10. DeadFromStart'
  BY <1>1, <1>3, <1>5 DEF HelperInv, DeadFromStart
<1> QED
  BY <1>4, <1>7, <1>8, <1>9, <1>10 DEF HelperInv

\* A helper exits, is cancelled, or is found to have closed its socket.
LEMMA HelperFailsStep ==
  ASSUME HelperInv, NEW w \in Workers,
         helper_exit(w) \/ kill_helper(w) \/ helper_eof(w)
  PROVE  HelperInv'
<1>1. /\ thread \in [Workers -> ReqIds \cup {Waiting, Exited, NoThread}]
      /\ requests \in [Workers -> Seq(ReqIds)] /\ faults \in Nat
      /\ pcw_dead \in [Workers -> BOOLEAN]
  BY DEF HelperInv, TypeOK
<1>2. /\ UNCHANGED <<phase, pcw_id, place, owner, backlog_queue_len, start, pcw_work,
                     answers, failed>>
      /\ faults' \in Nat /\ (faults' = 0 => faults = 0)
      /\ requests' \in [Workers -> Seq(ReqIds)]
      /\ thread' \in [Workers -> ReqIds \cup {Waiting, Exited, NoThread}]
      /\ pcw_dead' \in [Workers -> BOOLEAN]
      /\ \A v \in Workers :
           /\ requests'[v] = requests[v] \/ requests'[v] = << >>
           /\ thread'[v] = thread[v] \/ thread'[v] = Exited
                \/ (thread'[v] = NoThread /\ thread[v] # Exited)
           /\ pcw_dead[v] => pcw_dead'[v]
  <2>1. CASE helper_exit(w)
    BY <1>1, <2>1 DEF helper_exit
  <2>2. CASE kill_helper(w)
    BY <1>1, <2>2 DEF kill_helper
  <2>3. CASE helper_eof(w)
    BY <1>1, <2>3 DEF helper_eof, helperVars
  <2> QED
    BY <2>1, <2>2, <2>3
<1>3. Exited \notin ReqIds /\ NoThread \notin ReqIds /\ \A i : ~ IsIn(i, << >>)
  BY ConstantFacts DEF Exited, NoThread, IsIn
<1>4. TypeOK'
  BY <1>2 DEF HelperInv, TypeOK
<1>5. \A v \in Workers, i \in ReqIds : InFlight(i, v)' => InFlight(i, v)
  BY <1>2, <1>3 DEF InFlight
<1>6. BacklogMeansBusy' /\ HelpersInStep' /\ ContinuationsMatchStates'
  BY <1>2, <1>5, FlightShrinks
<1>7. FreshIds'
  BY <1>2 DEF HelperInv, FreshIds
<1>8. OnceInFlight'
  <2>1. Distinct(<< >>)
    BY DEF Distinct
  <2> QED
    BY <1>2, <1>3, <2>1, Zenon DEF HelperInv, OnceInFlight
<1>9. DeadFromStart'
  <2>1. CASE helper_eof(w)
    BY <2>1 DEF HelperInv, DeadFromStart, helper_eof, helperVars
  <2>2. CASE helper_exit(w) \/ kill_helper(w)
    BY <1>1, <2>2 DEF DeadFromStart, helper_exit, kill_helper
  <2> QED
    BY <2>1, <2>2
<1> QED
  BY <1>4, <1>6, <1>7, <1>8, <1>9 DEF HelperInv

\* The next ID is given out.
LEMMA FreshNext ==
  ASSUME HelperInv, pcw_id' = pcw_id + 1,
         \A i \in ReqIds : i # pcw_id => place'[i] = place[i] /\ owner'[i] = owner[i]
  PROVE  FreshIds'
<1>1. ASSUME NEW i \in ReqIds, i >= pcw_id + 1
      PROVE  i >= pcw_id /\ i # pcw_id
  BY <1>1, ConstantFacts DEF HelperInv, TypeOK
<1>2. FreshIds
  BY DEF HelperInv
<1> QED
  BY <1>1, <1>2, Zenon DEF FreshIds

\* The request goes to a helper whose socket is closed, and fails.
LEMMA RequestLostStep ==
  ASSUME HelperInv, NEW s \in Sts, NEW w \in Workers, pcw_id \in ReqIds,
         pcw_id' = pcw_id + 1, to_worker(s, w), thread[w] = Exited,
         UNCHANGED <<start, thread, pcw_dead, answers, faults, failed>>
  PROVE  HelperInv'
<1>1. /\ place \in [ReqIds -> Workers \cup {Free, OnBacklog}] /\ pcw_id \in Nat
      /\ owner \in [ReqIds -> Sts \cup {Nobody}]
      /\ place[pcw_id] = Free /\ owner[pcw_id] = Nobody
      /\ place' = [place EXCEPT ![pcw_id] = w]
      /\ owner' = [owner EXCEPT ![pcw_id] = s]
      /\ UNCHANGED <<requests, pcw_work, phase, backlog_queue_len>>
  BY DEF HelperInv, TypeOK, FreshIds, to_worker
<1>2. w # Free /\ w # OnBacklog /\ Free # OnBacklog /\ ReqIds \subseteq Nat
  BY ConstantFacts DEF Free, OnBacklog
<1>3. \A i \in ReqIds : i # pcw_id => place'[i] = place[i] /\ owner'[i] = owner[i]
  BY <1>1
<1>4. TypeOK'
  BY <1>1 DEF HelperInv, TypeOK
<1>5. FreshIds'
  BY <1>3, FreshNext, Zenon
<1>6. OnceInFlight' /\ DeadFromStart'
  BY <1>1, Zenon DEF HelperInv, OnceInFlight, DeadFromStart
<1>7. backlog' = backlog /\ \A v \in Workers : v # w => pcw_active(v)' = pcw_active(v)
  BY <1>1, <1>2, <1>3, ConstantFacts DEF backlog, pcw_active
<1>8. BacklogMeansBusy'
  BY <1>1, <1>7 DEF HelperInv, BacklogMeansBusy, NothingFailed
<1>9. \A v \in Workers : \A i \in ReqIds :
        /\ InFlight(i, v)' <=> InFlight(i, v)
        /\ InFlight(i, v) => i # pcw_id
  BY <1>1, ConstantFacts DEF InFlight, HelperInv, HelpersInStep, AnswersHaveContinuations
<1>10. HelpersInStep'
  <2>1. WorkCounts'
    BY <1>1, <1>7 DEF HelperInv, HelpersInStep, WorkCounts
  <2>2. AnswersHaveContinuations'
    BY <1>3, <1>9 DEF HelperInv, HelpersInStep, AnswersHaveContinuations
  <2> QED
    BY <1>1, <2>1, <2>2 DEF HelperInv, HelpersInStep, NothingFailed
<1>11. \A i \in ReqIds : LiveContinuation(i)' => LiveContinuation(i) /\ i # pcw_id
  BY <1>1, <1>2, <1>3, <1>9 DEF LiveContinuation
<1>12. ContinuationsMatchStates'
  BY <1>1, <1>3, <1>11 DEF HelperInv, ContinuationsMatchStates
<1> QED
  BY <1>4, <1>5, <1>6, <1>8, <1>10, <1>12 DEF HelperInv

\* The request is written to a helper, and the state is suspended.
LEMMA RequestSentStep ==
  ASSUME HelperInv, NEW s \in Sts, NEW w \in Workers, pcw_id \in ReqIds,
         pcw_id' = pcw_id + 1, to_worker(s, w), thread[w] # Exited,
         ~ failed, phase[s] = "idle", ~ pcw_dead[w],
         UNCHANGED <<start, thread, pcw_dead, answers, faults, failed>>
  PROVE  HelperInv'
<1>1. /\ place \in [ReqIds -> Workers \cup {Free, OnBacklog}] /\ pcw_id \in Nat
      /\ owner \in [ReqIds -> Sts \cup {Nobody}] /\ Nobody \notin Sts
      /\ requests \in [Workers -> Seq(ReqIds)] /\ pcw_work \in [Workers -> Int]
      /\ phase \in [Sts -> {"none", "idle", "calculating", "deleted"}]
      /\ place[pcw_id] = Free /\ owner[pcw_id] = Nobody
      /\ place' = [place EXCEPT ![pcw_id] = w]
      /\ owner' = [owner EXCEPT ![pcw_id] = s]
      /\ requests' = [requests EXCEPT ![w] = Append(requests[w], pcw_id)]
      /\ pcw_work' = [pcw_work EXCEPT ![w] = pcw_work[w] + 1]
      /\ phase' = [phase EXCEPT ![s] = "calculating"]
      /\ backlog_queue_len' = backlog_queue_len
  BY StsAssumption DEF HelperInv, TypeOK, FreshIds, to_worker
<1>2. w # Free /\ w # OnBacklog /\ Free # OnBacklog /\ ReqIds \subseteq Nat
  BY ConstantFacts DEF Free, OnBacklog
<1> DEFINE q == Append(requests[w], pcw_id)
<1>3. /\ q \in Seq(ReqIds)
      /\ \A i : IsIn(i, q) <=> IsIn(i, requests[w]) \/ i = pcw_id
      /\ Distinct(requests[w]) /\ ~ IsIn(pcw_id, requests[w]) => Distinct(q)
  BY <1>1, AppendFacts
<1>4. /\ \A i \in ReqIds : i # pcw_id => place'[i] = place[i] /\ owner'[i] = owner[i]
      /\ place'[pcw_id] = w /\ owner'[pcw_id] = s
      /\ \A v \in Workers : /\ v # w => requests'[v] = requests[v] /\ pcw_work'[v] = pcw_work[v]
                            /\ v = w => requests'[v] = q /\ pcw_work'[v] = pcw_work[v] + 1
  BY <1>1
<1>5. \A v \in Workers : \A i \in ReqIds : InFlight(i, v) => place[i] = v /\ i # pcw_id
  BY <1>1, ConstantFacts DEF HelperInv, HelpersInStep, AnswersHaveContinuations
<1>6. \A v \in Workers : \A i \in ReqIds :
        InFlight(i, v)' <=> InFlight(i, v) \/ (i = pcw_id /\ v = w)
  BY <1>3, <1>4, ZenonT(40) DEF InFlight
<1>7. TypeOK'
  BY <1>1, <1>3 DEF HelperInv, TypeOK
<1>8. FreshIds'
  BY <1>4, FreshNext, ZenonT(40)
<1>9. OnceInFlight'
  <2>1. /\ ~ IsIn(pcw_id, requests[w]) /\ ~ IsIn(pcw_id, answers[w])
        /\ thread[w] # pcw_id
    BY <1>5 DEF InFlight
  <2>2. Distinct(q) /\ Distinct(answers[w])
    BY <1>3, <2>1 DEF HelperInv, OnceInFlight
  <2>3. \A i \in ReqIds :
          /\ ~ (IsIn(i, q) /\ IsIn(i, answers[w]))
          /\ thread[w] = i => ~ IsIn(i, q) /\ ~ IsIn(i, answers[w])
    BY <1>3, <2>1 DEF HelperInv, OnceInFlight
  <2>4. /\ requests'[w] = q /\ answers' = answers /\ thread' = thread
        /\ \A v \in Workers : v # w => requests'[v] = requests[v]
    BY <1>4
  <2> HIDE DEF q
  <2>5. \A v \in Workers : v # w =>
          /\ Distinct(requests[v]) /\ Distinct(answers[v])
          /\ \A i \in ReqIds :
               /\ ~ (IsIn(i, requests[v]) /\ IsIn(i, answers[v]))
               /\ thread[v] = i => ~ IsIn(i, requests[v]) /\ ~ IsIn(i, answers[v])
    BY Zenon DEF HelperInv, OnceInFlight
  <2> QED
    BY <2>2, <2>3, <2>4, <2>5, ZenonT(40) DEF OnceInFlight
<1>10. DeadFromStart'
  BY <1>4 DEF HelperInv, DeadFromStart
<1>11. /\ backlog' = backlog
       /\ \A v \in Workers : v # w => pcw_active(v)' = pcw_active(v)
       /\ pcw_active(w)' = pcw_active(w) \cup {pcw_id} /\ pcw_id \notin pcw_active(w)
  BY <1>1, <1>2, <1>4, ConstantFacts DEF backlog, pcw_active
<1>12. BacklogMeansBusy'
  BY <1>1, <1>4, <1>11, ConstantFacts DEF HelperInv, BacklogMeansBusy, NothingFailed
<1>13. HelpersInStep'
  <2>1. IsFiniteSet(pcw_active(w))
    BY ConstantFacts, FS_Subset DEF pcw_active
  <2>2. Cardinality(pcw_active(w)') = Cardinality(pcw_active(w)) + 1
    BY <2>1, <1>11, FS_AddElement, Zenon
  <2>3. WorkCounts'
    <3>0. WorkCounts
      BY DEF HelperInv, HelpersInStep
    <3>1. pcw_work'[w] = Cardinality(pcw_active(w)')
      BY <1>4, <2>2, <3>0, Zenon DEF WorkCounts
    <3>2. backlog_queue_len' = Cardinality(backlog')
      BY <1>1, <1>11, <3>0, Zenon DEF WorkCounts
    <3>3. \A v \in Workers : v # w /\ thread'[v] # Exited /\ ~ failed'
            => pcw_work'[v] = Cardinality(pcw_active(v)')
      BY <1>4, <1>11, <3>0, ZenonT(40) DEF WorkCounts
    <3> QED
      BY <3>1, <3>2, <3>3 DEF WorkCounts
  <2>4. AnswersHaveContinuations'
    BY <1>4, <1>5, <1>6 DEF AnswersHaveContinuations
  <2> QED
    BY <2>3, <2>4 DEF HelperInv, HelpersInStep, NothingFailed
<1>14. ContinuationsMatchStates'
  <2>1. \A i \in ReqIds : i # pcw_id => (LiveContinuation(i)' <=> LiveContinuation(i))
    BY <1>4, <1>6 DEF LiveContinuation
  <2>2. \A i \in ReqIds : LiveContinuation(i) =>
          owner[i] \in Sts /\ phase[owner[i]] = "calculating" /\ owner[i] # s
    BY <1>1 DEF HelperInv, TypeOK, ContinuationsMatchStates, LiveContinuation
  <2> QED
    BY <1>1, <1>4, <2>1, <2>2, ZenonT(40) DEF HelperInv, ContinuationsMatchStates
<1> QED
  BY <1>7, <1>8, <1>9, <1>10, <1>12, <1>13, <1>14 DEF HelperInv

\* When nothing failed and no helper takes an important request, every live
\* helper has all it may have.
LEMMA NoTakerMeansBusy ==
  ASSUME HelperInv, ~ failed, NothingFailed,
         NEW pcim \in Importances, pcim >= pcim_demand_crypto,
         {w \in Workers : Best(w) /\ Accepts(w, pcim)} = {}
  PROVE  \A w \in Workers : pcw_dead[w] \/ pcw_work[w] >= MaxCrit
<1> DEFINE Alive == {w \in Workers : ~ pcw_dead[w]}
           Works == {pcw_work[w] : w \in Alive}
<1>1. \A w \in Workers : pcw_work[w] \in Nat /\ w \in Nat
  <2> SUFFICES ASSUME NEW w \in Workers PROVE pcw_work[w] \in Nat
    BY ConstantFacts
  <2>1. IsFiniteSet(pcw_active(w))
    BY ConstantFacts, FS_Subset DEF pcw_active
  <2>2. thread[w] # Exited
    BY DEF HelperInv, DeadFromStart, NothingFailed
  <2> QED
    BY <2>1, <2>2, FS_CardinalityType DEF HelperInv, HelpersInStep, WorkCounts
<1> SUFFICES ASSUME Alive # {} PROVE \A w \in Alive : pcw_work[w] >= MaxCrit
  OBVIOUS
<1>2. Works \in SUBSET Nat /\ Works # {}
  BY <1>1
<1>3. PICK m \in Works : \A n \in Works : m <= n
  BY <1>2, LeastExists, Zenon
<1> DEFINE Idlest == {w \in Alive : pcw_work[w] = m}
<1>4. Idlest \in SUBSET Nat /\ Idlest # {}
  BY <1>1
<1>5. PICK b \in Idlest : \A w \in Idlest : b <= w
  BY <1>4, LeastExists, Zenon
<1>6. \A w \in Alive : m <= pcw_work[w]
  BY <1>3
<1>7. Best(b)
  <2>1. b \in Workers /\ ~ pcw_dead[b] /\ pcw_work[b] = m
    BY <1>5
  <2>2. ASSUME NEW v \in Workers, ~ pcw_dead[v]
        PROVE  pcw_work[b] < pcw_work[v] \/ (pcw_work[b] = pcw_work[v] /\ b <= v)
    <3>1. m <= pcw_work[v] /\ pcw_work[v] \in Nat /\ m \in Nat
      BY <1>1, <1>2, <1>6, <2>2
    <3>2. CASE m = pcw_work[v]
      BY <1>5, <2>1, <2>2, <3>2
    <3>3. CASE m < pcw_work[v]
      BY <2>1, <3>3
    <3> QED
      BY <3>1, <3>2, <3>3
  <2> QED
    BY <2>1, <2>2 DEF Best
<1>8. ~ Accepts(b, pcim)
  BY <1>5, <1>7
<1>9. pcim > pcim_ongoing_crypto
  BY DEF Importances, pcim_demand_crypto, pcim_ongoing_crypto, pcim_local_crypto
<1>10. ~ (pcw_work[b] < MaxCrit)
  BY <1>5, <1>8, <1>9 DEF Accepts, pcw_maxcritwork, NothingFailed
<1> QED
  BY <1>1, <1>5, <1>6, <1>10, ConstantFacts

\* The request goes to the backlog.
LEMMA RequestBacklogStep ==
  ASSUME HelperInv, NEW s \in Sts, pcw_id \in ReqIds,
         pcw_id' = pcw_id + 1, to_backlog(s), ~ failed, phase[s] = "idle",
         NothingFailed => \A w \in Workers : pcw_dead[w] \/ pcw_work[w] >= MaxCrit,
         UNCHANGED <<start, thread, pcw_dead, answers, faults, failed>>
  PROVE  HelperInv'
<1>1. /\ place \in [ReqIds -> Workers \cup {Free, OnBacklog}] /\ pcw_id \in Nat
      /\ owner \in [ReqIds -> Sts \cup {Nobody}] /\ Nobody \notin Sts
      /\ phase \in [Sts -> {"none", "idle", "calculating", "deleted"}]
      /\ place[pcw_id] = Free /\ owner[pcw_id] = Nobody
      /\ place' = [place EXCEPT ![pcw_id] = OnBacklog]
      /\ owner' = [owner EXCEPT ![pcw_id] = s]
      /\ phase' = [phase EXCEPT ![s] = "calculating"]
      /\ backlog_queue_len \in Nat /\ backlog_queue_len' = backlog_queue_len + 1
      /\ UNCHANGED <<requests, pcw_work>>
  BY StsAssumption DEF HelperInv, TypeOK, FreshIds, to_backlog
<1>2. Free # OnBacklog /\ ReqIds \subseteq Nat
  BY ConstantFacts DEF Free, OnBacklog
<1>3. /\ \A i \in ReqIds : i # pcw_id => place'[i] = place[i] /\ owner'[i] = owner[i]
      /\ place'[pcw_id] = OnBacklog /\ owner'[pcw_id] = s
  BY <1>1
<1>4. \A v \in Workers : \A i \in ReqIds : InFlight(i, v) => place[i] = v /\ i # pcw_id
  BY <1>1, ConstantFacts DEF HelperInv, HelpersInStep, AnswersHaveContinuations
<1>5. \A v \in Workers : \A i \in ReqIds : InFlight(i, v)' <=> InFlight(i, v)
  BY <1>1 DEF InFlight
<1>6. TypeOK'
  BY <1>1 DEF HelperInv, TypeOK
<1>7. FreshIds'
  BY <1>3, FreshNext, ZenonT(40)
<1>8. OnceInFlight' /\ DeadFromStart'
  BY <1>1 DEF HelperInv, OnceInFlight, DeadFromStart
<1>9. /\ backlog' = backlog \cup {pcw_id} /\ pcw_id \notin backlog
      /\ \A v \in Workers : pcw_active(v)' = pcw_active(v)
  BY <1>1, <1>2, <1>3, ConstantFacts DEF backlog, pcw_active
<1>10. BacklogMeansBusy'
  BY <1>1 DEF BacklogMeansBusy, NothingFailed
<1>11. HelpersInStep'
  <2>1. IsFiniteSet(backlog)
    BY ConstantFacts, FS_Subset DEF backlog
  <2>2. Cardinality(backlog') = Cardinality(backlog) + 1
    BY <2>1, <1>9, FS_AddElement
  <2>3. WorkCounts'
    BY <1>1, <1>9, <2>2 DEF HelperInv, HelpersInStep, WorkCounts
  <2>4. AnswersHaveContinuations'
    BY <1>3, <1>4, <1>5 DEF AnswersHaveContinuations
  <2> QED
    BY <2>3, <2>4 DEF HelperInv, HelpersInStep, NothingFailed
<1>12. ContinuationsMatchStates'
  <2>1. \A i \in ReqIds : i # pcw_id => (LiveContinuation(i)' <=> LiveContinuation(i))
    BY <1>3, <1>5 DEF LiveContinuation
  <2>2. \A i \in ReqIds : LiveContinuation(i) =>
          owner[i] \in Sts /\ phase[owner[i]] = "calculating" /\ owner[i] # s
    BY <1>1 DEF HelperInv, TypeOK, ContinuationsMatchStates, LiveContinuation
  <2> QED
    BY <1>1, <1>3, <2>1, <2>2, ZenonT(40) DEF HelperInv, ContinuationsMatchStates
<1> QED
  BY <1>6, <1>7, <1>8, <1>10, <1>11, <1>12 DEF HelperInv

\* send_crypto_helper_request: to a helper, to the backlog, or in line.
LEMMA RequestStep ==
  ASSUME HelperInv, NEW s \in Sts, NEW pcim \in Importances,
         send_crypto_helper_request(s, pcim)
  PROVE  HelperInv'
<1> DEFINE taker == {w \in Workers : Best(w) /\ Accepts(w, pcim)}
<1>1. /\ ~ failed /\ phase[s] = "idle" /\ pcw_id \in ReqIds /\ pcw_id' = pcw_id + 1
      /\ UNCHANGED <<start, thread, pcw_dead, answers, faults, failed>>
  BY DEF send_crypto_helper_request
<1>2. ASSUME NEW w \in taker, to_worker(s, w) PROVE HelperInv'
  <2>1. w \in Workers /\ ~ pcw_dead[w]
    BY <1>2, ZenonT(40) DEF Best
  <2> QED
    BY <1>1, <1>2, <2>1, RequestLostStep, RequestSentStep
<1>3. ASSUME taker = {}, pcim >= pcim_demand_crypto, to_backlog(s) PROVE HelperInv'
  <2>1. NothingFailed => \A w \in Workers : pcw_dead[w] \/ pcw_work[w] >= MaxCrit
    BY <1>1, <1>3, NoTakerMeansBusy
  <2> QED
    BY <1>1, <1>3, <2>1, RequestBacklogStep
<1>4. ASSUME refuse PROVE HelperInv'
  <2>1. UNCHANGED <<phase, place, owner, backlog_queue_len, start, pcw_work, failed,
                    requests, thread, answers, pcw_dead, faults>>
    BY <1>1, <1>4 DEF refuse
  <2>2. BacklogMeansBusy' /\ HelpersInStep' /\ ContinuationsMatchStates'
    BY <2>1, FlightShrinks DEF InFlight
  <2>3. TypeOK' /\ FreshIds'
    BY <1>1, <2>1, ConstantFacts DEF HelperInv, TypeOK, FreshIds
  <2>4. OnceInFlight' /\ DeadFromStart'
    BY <2>1 DEF HelperInv, OnceInFlight, DeadFromStart
  <2> QED
    BY <2>2, <2>3, <2>4 DEF HelperInv
<1> QED
  BY <1>2, <1>3, <1>4 DEF send_crypto_helper_request

\* The passerts of crypto_send_backlog hold while nothing failed.
LEMMA PassertsHold ==
  ASSUME HelperInv, ~ failed, NothingFailed, NEW w \in Workers, answers[w] # << >>
  PROVE  BacklogPasserts(w)
<1>1. ~ pcw_dead[w] /\ thread[w] # Exited
  BY DEF HelperInv, DeadFromStart, NothingFailed
<1>2. ASSUME backlog_queue_len > 0 PROVE backlog # {} /\ pcw_work[w] - 1 > 0
  <2>1. backlog # {}
    <3>1. backlog_queue_len = Cardinality(backlog) /\ Cardinality({}) = 0
      BY FS_EmptySet DEF HelperInv, HelpersInStep, WorkCounts
    <3> QED
      BY <1>2, <3>1
  <2>2. pcw_work[w] >= MaxCrit /\ pcw_work[w] \in Int
    BY <1>1, <2>1 DEF HelperInv, BacklogMeansBusy, TypeOK
  <2> QED
    BY <2>1, <2>2, ConstantFacts
<1> QED
  BY <1>1, <1>2 DEF BacklogPasserts

\* A passert ends the daemon.
LEMMA AnswerFailsStep ==
  ASSUME HelperInv, NEW w \in Workers, handle_helper_answer(w), failed'
  PROVE  HelperInv'
<1>1. /\ answers \in [Workers -> Seq(ReqIds)] /\ answers[w] # << >> /\ ~ failed
      /\ answers' = [answers EXCEPT ![w] = Tail(answers[w])] /\ failed' \in BOOLEAN
      /\ ~ BacklogPasserts(w)
      /\ UNCHANGED <<requests, pcw_work, backlog_queue_len, place, owner, phase,
                     pcw_id, start, pcw_dead, thread, faults>>
  BY DEF HelperInv, TypeOK, handle_helper_answer
<1> DEFINE q == answers[w]
<1>2. /\ Tail(q) \in Seq(ReqIds) /\ \A i : IsIn(i, Tail(q)) => IsIn(i, q)
      /\ Distinct(q) => Distinct(Tail(q))
  BY <1>1, TailFacts
<1>3. \A v \in Workers : /\ v # w => answers'[v] = answers[v]
                         /\ v = w => answers'[v] = Tail(q)
  BY <1>1
<1>4. ~ NothingFailed
  BY <1>1, PassertsHold
<1>5. TypeOK'
  BY <1>1, <1>2 DEF HelperInv, TypeOK
<1>6. FreshIds'
  BY <1>1 DEF HelperInv, FreshIds
<1>7. OnceInFlight'
  BY <1>1, <1>2, <1>3, Zenon DEF HelperInv, OnceInFlight
<1>8. DeadFromStart'
  BY <1>1, <1>3, Zenon DEF HelperInv, DeadFromStart
<1>9. ~ NothingFailed' /\ BacklogMeansBusy'
  BY <1>1, <1>4 DEF NothingFailed, BacklogMeansBusy
<1>10. \A v \in Workers : \A i \in ReqIds : InFlight(i, v)' => InFlight(i, v)
  BY <1>1, <1>2, <1>3 DEF InFlight
<1>11. HelpersInStep'
  <2>1. WorkCounts'
    BY <1>1, Zenon DEF HelperInv, HelpersInStep, WorkCounts, backlog
  <2>2. AnswersHaveContinuations'
    BY <1>1, <1>10 DEF HelperInv, HelpersInStep, AnswersHaveContinuations
  <2> QED
    BY <1>9, <2>1, <2>2 DEF HelpersInStep
<1>12. ContinuationsMatchStates'
  <2>1. \A i \in ReqIds : LiveContinuation(i)' => LiveContinuation(i)
    BY <1>1, <1>10 DEF LiveContinuation
  <2> QED
    BY <1>1, <2>1 DEF HelperInv, ContinuationsMatchStates
<1> QED
  BY <1>5, <1>6, <1>7, <1>8, <1>9, <1>11, <1>12 DEF HelperInv

\* What an answer changes when the passerts hold: its continuation is found, and
\* what was on the backlog first, if anything (sent), takes its place.
LEMMA AnswerEffect ==
  ASSUME HelperInv, NEW w \in Workers, handle_helper_answer(w), ~ failed'
  PROVE  LET i == Head(answers[w])
             sent == ToSend
         IN  /\ i \in ReqIds /\ place[i] = w /\ i \notin backlog
             /\ sent = {} \/ \E m \in backlog : sent = {m}
             /\ sent = {} => backlog = {}
             /\ sent # {} => thread[w] # Exited
             /\ \A v \in Workers : \A j \in ReqIds :
                  InFlight(j, v)' <=> \/ InFlight(j, v) /\ j # i
                                      \/ j \in sent /\ v = w
             /\ place' = [j \in ReqIds |-> IF j \in sent THEN w
                                           ELSE IF j = i THEN Free ELSE place[j]]
             /\ owner' = [owner EXCEPT ![i] = Nobody]
             /\ phase' = [s \in Sts |-> IF s = owner[i] THEN "idle" ELSE phase[s]]
             /\ pcw_work' = [pcw_work EXCEPT ![w] = IF sent = {} THEN @ - 1 ELSE @]
             /\ backlog_queue_len' = IF sent = {} THEN backlog_queue_len
                                                  ELSE backlog_queue_len - 1
             /\ requests' \in [Workers -> Seq(ReqIds)]
             /\ answers' \in [Workers -> Seq(ReqIds)]
             /\ OnceInFlight'
             /\ DeadFromStart'
<1> DEFINE i == Head(answers[w])
           q == answers[w]
           r == requests[w]
<1>1. /\ answers \in [Workers -> Seq(ReqIds)] /\ q # << >>
      /\ requests \in [Workers -> Seq(ReqIds)] /\ Nobody \notin Sts
      /\ place \in [ReqIds -> Workers \cup {Free, OnBacklog}]
      /\ owner \in [ReqIds -> Sts \cup {Nobody}]
      /\ answers' = [answers EXCEPT ![w] = Tail(q)]
      /\ BacklogPasserts(w)
      /\ crypto_send_backlog(w)
      /\ UNCHANGED <<pcw_id, start, pcw_dead, thread, faults>>
  BY StsAssumption, Zenon DEF HelperInv, TypeOK, handle_helper_answer
<1>2. /\ i \in ReqIds /\ Tail(q) \in Seq(ReqIds)
      /\ \A j : IsIn(j, q) <=> IsIn(j, Tail(q)) \/ j = i
      /\ Distinct(q) => Distinct(Tail(q)) /\ ~ IsIn(i, Tail(q))
  BY <1>1, TailFacts
<1>3. InFlight(i, w) /\ place[i] = w /\ i \notin backlog
  BY <1>2, ConstantFacts, Zenon
  DEF InFlight, HelperInv, HelpersInStep, AnswersHaveContinuations, backlog
<1>4. /\ ToSend = {} \/ \E m \in backlog : ToSend = {m}
      /\ ToSend = {} => backlog = {}
      /\ ToSend # {} => backlog_queue_len > 0
  BY ToSendOne
<1>5. /\ place' = [j \in ReqIds |-> IF j \in ToSend THEN w
                                    ELSE IF j = i THEN Free ELSE place[j]]
      /\ owner' = [owner EXCEPT ![i] = Nobody]
  BY <1>3 DEF handle_helper_answer
<1>6. phase' = [s \in Sts |-> IF s = owner[i] THEN "idle" ELSE phase[s]]
  BY <1>1, <1>3 DEF handle_helper_answer
<1>7. /\ pcw_work' = [pcw_work EXCEPT ![w] = IF ToSend = {} THEN @ - 1 ELSE @]
      /\ backlog_queue_len' = IF ToSend = {} THEN backlog_queue_len
                                             ELSE backlog_queue_len - 1
  BY <1>1 DEF crypto_send_backlog
<1>8. ToSend # {} => thread[w] # Exited
  BY <1>1, <1>4 DEF BacklogPasserts
<1>9. /\ \A v \in Workers : v # w => requests'[v] = requests[v] /\ answers'[v] = answers[v]
      /\ answers'[w] = Tail(q)
      /\ ToSend = {} => requests'[w] = r
      /\ \A m : ToSend = {m} => requests'[w] = Append(r, m)
      /\ requests' = [requests EXCEPT ![w] = requests'[w]]
  BY <1>1 DEF crypto_send_backlog
<1>10. \A m \in backlog : /\ m \in ReqIds /\ m # i
                          /\ \A v \in Workers : ~ InFlight(m, v)
  BY <1>3, ConstantFacts DEF backlog, HelperInv, HelpersInStep, AnswersHaveContinuations
<1>11. /\ requests'[w] \in Seq(ReqIds)
       /\ \A j : IsIn(j, requests'[w]) <=> IsIn(j, r) \/ j \in ToSend
       /\ Distinct(requests'[w])
  <2>1. r \in Seq(ReqIds) /\ Distinct(r)
    BY <1>1 DEF HelperInv, OnceInFlight
  <2>2. CASE ToSend = {}
    BY <1>9, <2>1, <2>2
  <2>3. ASSUME NEW m \in backlog, ToSend = {m}
        PROVE  /\ requests'[w] \in Seq(ReqIds)
               /\ \A j : IsIn(j, requests'[w]) <=> IsIn(j, r) \/ j \in ToSend
               /\ Distinct(requests'[w])
    <3>1. requests'[w] = Append(r, m) /\ m \in ReqIds /\ ~ IsIn(m, r)
      BY <1>9, <1>10, <2>3, ZenonT(40) DEF InFlight
    <3>2. /\ Append(r, m) \in Seq(ReqIds)
          /\ \A j : IsIn(j, Append(r, m)) <=> IsIn(j, r) \/ j = m
          /\ Distinct(r) /\ ~ IsIn(m, r) => Distinct(Append(r, m))
      BY <2>1, <3>1, AppendFacts
    <3> QED
      BY <2>1, <2>3, <3>1, <3>2
  <2> QED
    BY <1>4, <2>2, <2>3
<1>12. \A j \in ToSend : j \in ReqIds /\ j # i /\ \A v \in Workers : ~ InFlight(j, v)
  BY <1>4, <1>10
<1>13. ~ IsIn(i, r) /\ thread[w] # i /\ ~ IsIn(i, Tail(q))
  BY <1>2 DEF HelperInv, OnceInFlight
<1>14. \A v \in Workers : \A j \in ReqIds :
         InFlight(j, v)' <=> \/ InFlight(j, v) /\ j # i
                             \/ j \in ToSend /\ v = w
  <2> SUFFICES ASSUME NEW v \in Workers, NEW j \in ReqIds
               PROVE  InFlight(j, v)' <=> \/ InFlight(j, v) /\ j # i
                                          \/ j \in ToSend /\ v = w
    OBVIOUS
  <2>1. CASE v = w
    BY <1>1, <1>2, <1>9, <1>11, <1>12, <1>13, <2>1, Zenon DEF InFlight
  <2>2. CASE v # w
    <3>1. ~ InFlight(i, v)
      BY <1>2, <1>3, <2>2, Zenon DEF HelperInv, HelpersInStep, AnswersHaveContinuations
    <3> QED
      BY <1>1, <1>9, <2>2, <3>1, Zenon DEF InFlight
  <2> QED
    BY <2>1, <2>2
<1>15. requests' \in [Workers -> Seq(ReqIds)] /\ answers' \in [Workers -> Seq(ReqIds)]
  BY <1>1, <1>2, <1>9, <1>11, Zenon
<1>16. OnceInFlight'
  BY <1>1, <1>2, <1>9, <1>11, <1>12, Zenon DEF HelperInv, OnceInFlight, InFlight
<1>17. DeadFromStart'
  BY <1>1, <1>9, Zenon DEF HelperInv, DeadFromStart
<1> HIDE DEF i
<1> QED
  BY <1>2, <1>3, <1>4, <1>5, <1>6, <1>7, <1>8, <1>14, <1>15, <1>16, <1>17, Zenon DEF i

\* handle_helper_answer, unless it runs into a failed assertion.
LEMMA AnswerStep ==
  ASSUME HelperInv, NEW w \in Workers, handle_helper_answer(w), ~ failed'
  PROVE  HelperInv'
<1> DEFINE i == Head(answers[w])
           sent == ToSend
<1>1. /\ i \in ReqIds /\ place[i] = w /\ i \notin backlog
      /\ sent = {} \/ \E m \in backlog : sent = {m}
      /\ sent = {} => backlog = {}
      /\ sent # {} => thread[w] # Exited
      /\ \A v \in Workers : \A j \in ReqIds :
           InFlight(j, v)' <=> (InFlight(j, v) /\ j # i) \/ (j \in sent /\ v = w)
      /\ place' = [j \in ReqIds |-> IF j \in sent THEN w
                                    ELSE IF j = i THEN Free ELSE place[j]]
      /\ owner' = [owner EXCEPT ![i] = Nobody]
      /\ phase' = [s \in Sts |-> IF s = owner[i] THEN "idle" ELSE phase[s]]
      /\ pcw_work' = [pcw_work EXCEPT ![w] = IF sent = {} THEN @ - 1 ELSE @]
      /\ backlog_queue_len' = IF sent = {} THEN backlog_queue_len ELSE backlog_queue_len - 1
      /\ requests' \in [Workers -> Seq(ReqIds)] /\ answers' \in [Workers -> Seq(ReqIds)]
      /\ OnceInFlight' /\ DeadFromStart'
  BY AnswerEffect, Zenon
<1>2. ~ failed /\ failed' = FALSE /\ UNCHANGED <<pcw_id, start, pcw_dead, thread, faults>>
  BY DEF handle_helper_answer
<1> HIDE DEF i, sent
<1>l. backlog_queue_len' = IF sent = {} THEN backlog_queue_len ELSE backlog_queue_len - 1
  BY <1>1, Zenon
<1>w. pcw_work' = [pcw_work EXCEPT ![w] = IF sent = {} THEN pcw_work[w] - 1 ELSE pcw_work[w]]
  BY <1>1, Zenon
<1>p. /\ i \in ReqIds /\ place[i] = w /\ i \notin backlog
      /\ sent = {} \/ \E m \in backlog : sent = {m}
      /\ place' = [j \in ReqIds |-> IF j \in sent THEN w
                                    ELSE IF j = i THEN Free ELSE place[j]]
      /\ owner' = [owner EXCEPT ![i] = Nobody]
      /\ phase' = [s \in Sts |-> IF s = owner[i] THEN "idle" ELSE phase[s]]
  BY <1>1, Zenon
<1>3. /\ place \in [ReqIds -> Workers \cup {Free, OnBacklog}] /\ pcw_id \in Nat
      /\ owner \in [ReqIds -> Sts \cup {Nobody}] /\ Nobody \notin Sts
      /\ phase \in [Sts -> {"none", "idle", "calculating", "deleted"}]
      /\ pcw_work \in [Workers -> Int] /\ backlog_queue_len \in Nat
      /\ backlog_queue_len = Cardinality(backlog)
      /\ IsFiniteSet(backlog) /\ IsFiniteSet(pcw_active(w))
  BY StsAssumption, ConstantFacts, FS_Subset
  DEF HelperInv, TypeOK, HelpersInStep, WorkCounts, backlog, pcw_active
<1>4. /\ \A j \in ReqIds : j \notin sent /\ j # i => place'[j] = place[j] /\ owner'[j] = owner[j]
      /\ \A j \in sent : j \in backlog /\ place'[j] = w /\ owner'[j] = owner[j]
      /\ place'[i] = Free /\ owner'[i] = Nobody
      /\ \A j \in backlog : j \in ReqIds /\ place[j] = OnBacklog /\ j # i
  BY <1>p, <1>3 DEF backlog
<1>5. Free # OnBacklog /\ \A v \in Workers : v # Free /\ v # OnBacklog
  BY ConstantFacts DEF Free, OnBacklog
<1>6. backlog_queue_len' = Cardinality(backlog') /\ backlog_queue_len' \in Nat
  <2>1. CASE sent = {}
    <3>1. backlog' = backlog
      BY <1>4, <1>5, <2>1, Zenon DEF backlog
    <3> QED
      BY <1>l, <1>3, <2>1, <3>1, Zenon
  <2>2. ASSUME NEW m \in backlog, sent = {m}
        PROVE  backlog_queue_len' = Cardinality(backlog') /\ backlog_queue_len' \in Nat
    <3>1. backlog' = backlog \ {m}
      BY <1>4, <1>5, <2>2 DEF backlog
    <3>2. Cardinality(backlog') = Cardinality(backlog) - 1 /\ IsFiniteSet(backlog')
      BY <1>3, <2>2, <3>1, FS_RemoveElement, Zenon
    <3>3. Cardinality(backlog') \in Nat
      BY <3>2, FS_CardinalityType, Zenon
    <3>4. sent # {}
      BY <2>2, Zenon
    <3> QED
      BY <1>l, <1>3, <3>2, <3>3, <3>4, ZenonT(40)
  <2> QED
    BY <1>1, <2>1, <2>2, ZenonT(40)
<1>7. \A v \in Workers : v # w => pcw_active(v)' = pcw_active(v) /\ pcw_work'[v] = pcw_work[v]
  <2>1. ASSUME NEW v \in Workers, v # w
        PROVE  pcw_active(v)' = pcw_active(v)
    <3>1. ASSUME NEW j \in ReqIds
          PROVE  place'[j] = v <=> place[j] = v
      BY <1>4, <1>5, <1>p, <2>1, Zenon
    <3> QED
      BY <3>1, Zenon DEF pcw_active
  <2>2. ASSUME NEW v \in Workers, v # w
        PROVE  pcw_work'[v] = pcw_work[v]
    BY <1>w, <1>3, <2>2
  <2> QED
    BY <2>1, <2>2, Zenon
<1>8. thread[w] # Exited => pcw_work'[w] = Cardinality(pcw_active(w)')
  <2> SUFFICES ASSUME thread[w] # Exited PROVE pcw_work'[w] = Cardinality(pcw_active(w)')
    BY Zenon
  <2>1. pcw_work[w] = Cardinality(pcw_active(w)) /\ i \in pcw_active(w)
    BY <1>1, <1>2, Zenon DEF HelperInv, HelpersInStep, WorkCounts, pcw_active
  <2> DEFINE rest == pcw_active(w) \ {i}
  <2>2. IsFiniteSet(rest) /\ Cardinality(rest) = Cardinality(pcw_active(w)) - 1
    BY <1>3, <2>1, FS_RemoveElement, Zenon
  <2>c. Cardinality(pcw_active(w)) \in Nat
    BY <1>3, FS_CardinalityType, Zenon
  <2>3. CASE sent = {}
    <3>1. pcw_active(w)' = rest
      BY <1>4, <1>5, <2>3 DEF pcw_active
    <3>2. pcw_work'[w] = pcw_work[w] - 1
      BY <1>w, <1>3, <2>3
    <3> QED
      BY <2>1, <2>2, <3>1, <3>2, Zenon
  <2>4. ASSUME NEW m \in backlog, sent = {m}
        PROVE  pcw_work'[w] = Cardinality(pcw_active(w)')
    <3>1. pcw_active(w)' = rest \cup {m} /\ m \notin rest
      BY <1>4, <1>5, <2>4 DEF pcw_active
    <3>2. Cardinality(rest \cup {m}) = Cardinality(rest) + 1
      BY <2>2, <3>1, FS_AddElement, Zenon
    <3>3. pcw_work'[w] = pcw_work[w]
      BY <1>w, <1>3, <2>4
    <3> HIDE DEF rest
    <3>4. Cardinality(rest \cup {m}) = Cardinality(pcw_active(w))
      BY <2>2, <2>c, <3>2
    <3> QED
      BY <2>1, <3>1, <3>3, <3>4, Zenon
  <2> QED
    BY <1>1, <2>3, <2>4, Zenon
<1>9. TypeOK'
  <2>1. place' \in [ReqIds -> Workers \cup {Free, OnBacklog}]
    BY <1>p, <1>3
  <2>2. owner' \in [ReqIds -> Sts \cup {Nobody}]
    BY <1>p, <1>3
  <2>3. phase' \in [Sts -> {"none", "idle", "calculating", "deleted"}]
    BY <1>p, <1>3
  <2>4. pcw_work' \in [Workers -> Int]
    BY <1>w, <1>3
  <2> QED
    BY <1>1, <1>2, <1>6, <2>1, <2>2, <2>3, <2>4, Zenon DEF HelperInv, TypeOK
<1>10. FreshIds'
  <2>1. \A j \in ReqIds : j >= pcw_id => j \notin sent
    BY <1>4, <1>5 DEF HelperInv, FreshIds
  <2> QED
    BY <1>2, <1>4, <2>1 DEF HelperInv, FreshIds
<1>11. BacklogMeansBusy'
  <2> SUFFICES ASSUME NothingFailed', backlog' # {}
               PROVE  \A v \in Workers : pcw_dead'[v] \/ pcw_work'[v] >= MaxCrit
    BY DEF BacklogMeansBusy
  <2>1. backlog # {}
    BY <1>3, <1>4, <1>5 DEF backlog
  <2>2. pcw_work' = pcw_work
    <3>1. sent # {}
      BY <1>1, <2>1, Zenon
    <3> QED
      BY <1>w, <1>3, <3>1
  <2> QED
    BY <1>2, <2>1, <2>2 DEF HelperInv, BacklogMeansBusy, NothingFailed
<1>12. HelpersInStep'
  <2>1. WorkCounts'
    BY <1>2, <1>6, <1>7, <1>8, Zenon DEF HelperInv, HelpersInStep, WorkCounts
  <2>2. AnswersHaveContinuations'
    <3> SUFFICES ASSUME NEW v \in Workers, NEW j \in ReqIds, InFlight(j, v)'
                 PROVE  place'[j] = v
      BY DEF AnswersHaveContinuations
    <3>1. CASE j \in sent /\ v = w
      BY <1>4, <3>1, Zenon
    <3>2. CASE InFlight(j, v) /\ j # i
      <4>1. place[j] = v /\ j \notin sent
        BY <1>4, <1>5, <3>2 DEF HelperInv, HelpersInStep, AnswersHaveContinuations
      <4> QED
        BY <1>4, <3>2, <4>1, Zenon
    <3> QED
      BY <1>1, <3>1, <3>2, Zenon
  <2> QED
    BY <1>2, <2>1, <2>2 DEF HelpersInStep
<1>13. ContinuationsMatchStates'
  <2>1. \A j \in ReqIds : LiveContinuation(j)' => LiveContinuation(j) /\ j # i
    BY <1>1, <1>4, Zenon DEF LiveContinuation
  <2>2. owner[i] # Nobody => LiveContinuation(i)
    <3>1. InFlight(i, w)
      <4>1. answers[w] \in Seq(ReqIds) /\ answers[w] # << >>
        BY DEF HelperInv, TypeOK, handle_helper_answer
      <4> QED
        BY <4>1, TailFacts DEF InFlight, i
    <3> QED
      BY <1>1, <3>1, Zenon DEF LiveContinuation
  <2>3. \A j \in ReqIds : LiveContinuation(j)' =>
          owner'[j] = owner[j] /\ owner[j] \in Sts /\ owner[j] # owner[i]
    BY <1>p, <1>3, <1>4, <2>1, <2>2
    DEF HelperInv, ContinuationsMatchStates, LiveContinuation
  <2> QED
    BY <1>1, <2>1, <2>3, Zenon DEF HelperInv, ContinuationsMatchStates
<1> QED
  BY <1>1, <1>9, <1>10, <1>11, <1>12, <1>13, Zenon DEF HelperInv

\* A state is deleted: what it and the states of its chain have on the backlog
\* is scrapped, what they have in flight stays on the lists of the helpers.
LEMMA DeleteStateStep ==
  ASSUME HelperInv, NEW s \in Sts, delete_state(s)
  PROVE  HelperInv'
<1> DEFINE T == flush_pending_children(s) \cup {s}
           scrapped == {i \in backlog : owner[i] \in T}
<1>1. /\ place' = [i \in ReqIds |-> IF i \in scrapped THEN Free ELSE place[i]]
      /\ owner' = [i \in ReqIds |-> IF owner[i] \in T THEN Nobody ELSE owner[i]]
      /\ backlog_queue_len' = backlog_queue_len - Cardinality(scrapped)
      /\ phase' = [phase EXCEPT ![s] = "deleted"]
      /\ UNCHANGED <<pcw_id, start, requests, thread, pcw_dead, pcw_work, answers,
                     faults, failed>>
  BY Zenon DEF delete_state, delete_cryptographic_continuation, helperVars
<1>2. s \in T
  OBVIOUS
<1> HIDE DEF T
<1>3. /\ place \in [ReqIds -> Workers \cup {Free, OnBacklog}]
      /\ owner \in [ReqIds -> Sts \cup {Nobody}] /\ Nobody \notin Sts
      /\ phase \in [Sts -> {"none", "idle", "calculating", "deleted"}]
      /\ backlog_queue_len = Cardinality(backlog) /\ IsFiniteSet(backlog)
  BY StsAssumption, ConstantFacts, FS_Subset
  DEF HelperInv, TypeOK, HelpersInStep, WorkCounts, backlog
<1>4. Free # OnBacklog /\ \A v \in Workers : v # Free /\ v # OnBacklog
  BY ConstantFacts DEF Free, OnBacklog
<1>5. /\ backlog' = backlog \ scrapped
      /\ \A v \in Workers : pcw_active(v)' = pcw_active(v)
  BY <1>1, <1>4, Zenon DEF backlog, pcw_active
<1>6. backlog_queue_len' = Cardinality(backlog') /\ backlog_queue_len' \in Nat
  <2>1. backlog \cap scrapped = scrapped
    OBVIOUS
  <2>2. Cardinality(backlog') = Cardinality(backlog) - Cardinality(scrapped) /\ IsFiniteSet(backlog')
    BY <1>3, <1>5, <2>1, FS_Difference
  <2>3. Cardinality(backlog') \in Nat
    BY <2>2, FS_CardinalityType, ZenonT(40)
  <2> QED
    BY <1>1, <1>3, <2>2, <2>3
<1>7. \A v \in Workers : \A i \in ReqIds : InFlight(i, v)' <=> InFlight(i, v)
  BY <1>1 DEF InFlight
<1>8. TypeOK'
  BY <1>1, <1>3, <1>6 DEF HelperInv, TypeOK
<1>9. FreshIds'
  BY <1>1 DEF HelperInv, FreshIds
<1>10. OnceInFlight' /\ DeadFromStart'
  BY <1>1, ZenonT(40) DEF HelperInv, OnceInFlight, DeadFromStart
<1>11. BacklogMeansBusy'
  BY <1>1, <1>5, ZenonT(40) DEF HelperInv, BacklogMeansBusy, NothingFailed
<1>12. HelpersInStep'
  <2>1. WorkCounts'
    BY <1>1, <1>5, <1>6, Zenon DEF HelperInv, HelpersInStep, WorkCounts
  <2>2. AnswersHaveContinuations'
    BY <1>1, <1>4, <1>7, ZenonT(40) DEF HelperInv, HelpersInStep, AnswersHaveContinuations, backlog
  <2> QED
    BY <1>1, <2>1, <2>2, ZenonT(40) DEF HelperInv, HelpersInStep, NothingFailed
<1>13. ContinuationsMatchStates'
  <2>1. \A i \in ReqIds : LiveContinuation(i)' =>
          LiveContinuation(i) /\ owner'[i] = owner[i] /\ owner[i] \in Sts /\ owner[i] # s
    BY <1>1, <1>2, <1>3, <1>4, <1>7 DEF LiveContinuation
  <2> QED
    BY <1>1, <1>3, <2>1 DEF HelperInv, ContinuationsMatchStates
<1> QED
  BY <1>8, <1>9, <1>10, <1>11, <1>12, <1>13, Zenon DEF HelperInv

-----------------------------------------------------------------------------
\* Every step keeps the invariant.
LEMMA StepInv == HelperInv /\ [Next]_vars => HelperInv'
<1> SUFFICES ASSUME HelperInv, [Next]_vars PROVE HelperInv'
  OBVIOUS
<1>1. ASSUME NEW s \in Sts, new_state(s) PROVE HelperInv'
  BY <1>1, NewStateStep
<1>2. ASSUME NEW s \in Sts, delete_state(s) PROVE HelperInv'
  BY <1>2, DeleteStateStep
<1>3. ASSUME NEW s \in Sts, NEW pcim \in Importances, send_crypto_helper_request(s, pcim)
      PROVE  HelperInv'
  BY <1>3, RequestStep
<1>4. ASSUME NEW w \in Workers, HelperStep(w) PROVE HelperInv'
  BY <1>4, HelperReadStep, HelperWriteStep DEF HelperStep
<1>5. ASSUME NEW w \in Workers, helper_exit(w) \/ kill_helper(w) \/ helper_eof(w)
      PROVE  HelperInv'
  BY <1>5, HelperFailsStep
<1>6. ASSUME NEW w \in Workers, handle_helper_answer(w) PROVE HelperInv'
  BY <1>6, AnswerFailsStep, AnswerStep, Zenon
<1>7. CASE UNCHANGED vars
  <2>1. UNCHANGED <<phase, place, owner, backlog_queue_len, start, pcw_work, failed,
                    pcw_id, requests, thread, answers, pcw_dead, faults>>
    BY <1>7 DEF vars
  <2>2. BacklogMeansBusy' /\ HelpersInStep' /\ ContinuationsMatchStates'
    BY <2>1, FlightShrinks DEF InFlight
  <2>3. TypeOK' /\ FreshIds'
    BY <2>1 DEF HelperInv, TypeOK, FreshIds
  <2>4. OnceInFlight' /\ DeadFromStart'
    BY <2>1 DEF HelperInv, OnceInFlight, DeadFromStart
  <2> QED
    BY <2>2, <2>3, <2>4 DEF HelperInv
<1> QED
  BY <1>1, <1>2, <1>3, <1>4, <1>5, <1>6, <1>7 DEF Next

\* The inductive invariant holds throughout: a request is in one place, a dead
\* helper got nothing, and the backlog fills only when every helper is full.
THEOREM HelperInvHolds == Spec => []HelperInv
<1>1. Init => HelperInv
  BY InitInv
<1>2. HelperInv /\ [Next]_vars => HelperInv'
  BY StepInv
<1> QED
  BY <1>1, <1>2, PTL DEF Spec

\* The counters of pluto_crypt.c agree with its lists, every answer finds its
\* continuation (handle_helper_answer), and the passerts of crypto_send_backlog
\* hold while no helper failed.
THEOREM HelpersInStepHolds == Spec => []HelpersInStep
<1>1. HelperInv => HelpersInStep
  BY DEF HelperInv
<1> QED
  BY <1>1, HelperInvHolds, PTL

\* A continuation that may be called belongs to a state that exists and waits for
\* it (delete_cryptographic_continuation, the SOS_NOBODY test).
THEOREM ContinuationsMatchStatesHolds == Spec => []ContinuationsMatchStates
<1>1. HelperInv => ContinuationsMatchStates
  BY DEF HelperInv
<1> QED
  BY <1>1, HelperInvHolds, PTL
=============================================================================
