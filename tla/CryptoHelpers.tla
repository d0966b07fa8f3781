--------------------------- MODULE CryptoHelpers ---------------------------
(***************************************************************************)
(* The crypto helpers of pluto (programs/pluto/pluto_crypt.c): the event   *)
(* loop hands the expensive computations of a state (DH, nonces) to helper *)
(* threads over socketpairs, keeps the important ones that no helper can   *)
(* take on a backlog, and runs a continuation when the answer is read.     *)
(*                                                                         *)
(* The event loop's handlers are atomic; the helper threads interleave     *)
(* with them.  A continuation (struct pluto_crypto_req_cont) is named by   *)
(* its request ID.  IDs grow and continuations are inserted at the tail,   *)
(* so the order of the backlog is the order of the IDs.  What the          *)
(* continuation function goes on to do (another request, or deleting the   *)
(* state) is the next step of its state.                                   *)
(***************************************************************************)
EXTENDS Integers, Sequences, FiniteSets

CONSTANTS Sts,          \* states (struct state); a serial number is used once
          Nobody,       \* SOS_NOBODY
          Chain,        \* [state -> its hash chain in statetable]
          Workers,      \* pc_workers, in the order of the array
          MaxBasic,     \* MAX_HELPER_BASIC_WORK
          MaxCrit,      \* MAX_HELPER_CRIT_WORK
          Starts,       \* outcomes of init_crypto_helper that are considered
          MaxReq,       \* bound on the number of requests
          MaxFaults     \* bound on the failures of helpers after the start

ASSUME StsAssumption == Nobody \notin Sts /\ Chain = [s \in Sts |-> Chain[s]]
ASSUME WorkersAssumption == Workers \subseteq Nat /\ Workers # {}
ASSUME WorkAssumption ==
  MaxBasic \in Nat /\ MaxCrit \in Nat /\ 0 < MaxBasic /\ MaxBasic < MaxCrit
ASSUME StartsAssumption ==
  Starts \subseteq {"ok", "nosocket", "nosockopt", "nothread"}
ASSUME BoundAssumption == MaxReq \in Nat /\ MaxFaults \in Nat

VARIABLES phase,              \* [state -> "none", "idle", "calculating", "deleted"]
          pcw_id,             \* the next request ID
          place,              \* [ID -> the worker whose pcw_active the
                              \*        continuation is on, OnBacklog or Free]
          owner,              \* [ID -> pcrc_serialno]
          backlog_queue_len,
          start,              \* [worker -> outcome of init_crypto_helper]
          pcw_dead,           \* [worker -> BOOLEAN]
          pcw_work,           \* [worker -> Int]
          requests,           \* [worker -> IDs written and not read by it]
          thread,             \* [worker -> the ID it computes, 0 if it waits,
                              \*            -1 if it closed its socket, -2 if
                              \*            there is no thread]
          answers,            \* [worker -> IDs it wrote back, not read yet]
          faults,             \* failures of helpers so far
          failed              \* a passert ended the daemon

helperVars == <<start, requests, thread>>
vars == <<phase, pcw_id, place, owner, backlog_queue_len, start, pcw_dead,
          pcw_work, requests, thread, answers, faults, failed>>

ReqIds == 1 .. MaxReq
Waiting == 0
Exited == -1
NoThread == -2
Free == -1
OnBacklog == -2

\* enum crypto_importance; a stranger's or a known peer's request is treated as
\* an ongoing one is.
pcim_ongoing_crypto == 3
pcim_local_crypto == 4
pcim_demand_crypto == 5
Importances == {pcim_ongoing_crypto, pcim_local_crypto, pcim_demand_crypto}

\* init_crypto_helpers.  A helper without a socketpair is not marked dead and
\* keeps work limits of zero; one whose socket options could not be set has its
\* limits and no thread; one whose thread could not be created is dead.
Init ==
  /\ phase = [s \in Sts |-> "none"]
  /\ pcw_id = 1
  /\ place = [i \in ReqIds |-> Free]
  /\ owner = [i \in ReqIds |-> Nobody]
  /\ backlog_queue_len = 0
  /\ start \in [Workers -> Starts]
  /\ pcw_dead = [w \in Workers |-> start[w] = "nothread"]
  /\ pcw_work = [w \in Workers |-> 0]
  /\ requests = [w \in Workers |-> << >>]
  /\ thread = [w \in Workers |-> IF start[w] = "ok" THEN Waiting ELSE NoThread]
  /\ answers = [w \in Workers |-> << >>]
  /\ faults = 0
  /\ failed = FALSE

pcw_maxbasicwork(w) == IF start[w] = "nosocket" THEN 0 ELSE MaxBasic
pcw_maxcritwork(w) == IF start[w] = "nosocket" THEN 0 ELSE MaxCrit

pcw_active(w) == {i \in ReqIds : place[i] = w}
backlog == {i \in ReqIds : place[i] = OnBacklog}

new_state(s) ==
  /\ ~ failed
  /\ phase[s] = "none"
  /\ phase' = [phase EXCEPT ![s] = "idle"]
  /\ UNCHANGED <<pcw_id, place, owner, backlog_queue_len, helperVars,
                 pcw_dead, pcw_work, answers, faults, failed>>

(***************************************************************************)
(* Sending a request.                                                      *)
(***************************************************************************)

\* w is the first of the least busy live workers.
Best(w) ==
  /\ ~ pcw_dead[w]
  /\ \A v \in Workers :
       \/ pcw_dead[v]
       \/ pcw_work[w] < pcw_work[v]
       \/ pcw_work[w] = pcw_work[v] /\ w <= v

\* Worker w has room for a request of importance pcim.
Accepts(w, pcim) ==
  \/ pcw_work[w] < pcw_maxbasicwork(w)
  \/ pcw_work[w] < pcw_maxcritwork(w) /\ pcim > pcim_ongoing_crypto

\* The continuation is linked to w's active list and the request is written.
\* The write fails when the helper closed its end: the request fails
\* (STF_FAIL), and the continuation stays on the list.
to_worker(s, w) ==
  /\ place' = [place EXCEPT ![pcw_id] = w]
  /\ owner' = [owner EXCEPT ![pcw_id] = s]
  /\ IF thread[w] = Exited
       THEN UNCHANGED <<requests, pcw_work, phase>>
       ELSE /\ requests' = [requests EXCEPT ![w] = Append(@, pcw_id)]
            /\ pcw_work' = [pcw_work EXCEPT ![w] = @ + 1]
            /\ phase' = [phase EXCEPT ![s] = "calculating"]
  /\ UNCHANGED backlog_queue_len

to_backlog(s) ==
  /\ place' = [place EXCEPT ![pcw_id] = OnBacklog]
  /\ owner' = [owner EXCEPT ![pcw_id] = s]
  /\ backlog_queue_len' = backlog_queue_len + 1
  /\ phase' = [phase EXCEPT ![s] = "calculating"]
  /\ UNCHANGED <<requests, pcw_work>>

\* STF_TOOMUCHCRYPTO
refuse == UNCHANGED <<place, owner, backlog_queue_len, phase, requests, pcw_work>>

send_crypto_helper_request(s, pcim) ==
  LET taker == {w \in Workers : Best(w) /\ Accepts(w, pcim)}
  IN  /\ ~ failed
      /\ phase[s] = "idle"
      /\ pcw_id \in ReqIds
      /\ pcw_id' = pcw_id + 1
      /\ \/ \E w \in taker : to_worker(s, w)
         \/ taker = {} /\ pcim >= pcim_demand_crypto /\ to_backlog(s)
         \/ taker = {} /\ pcim < pcim_demand_crypto /\ refuse
      /\ UNCHANGED <<start, thread, pcw_dead, answers, faults, failed>>

(***************************************************************************)
(* The helper threads.                                                     *)
(***************************************************************************)

helper_read(w) ==
  /\ ~ failed
  /\ thread[w] = Waiting /\ requests[w] # << >>
  /\ thread' = [thread EXCEPT ![w] = Head(requests[w])]
  /\ requests' = [requests EXCEPT ![w] = Tail(@)]
  /\ UNCHANGED <<phase, pcw_id, place, owner, backlog_queue_len, start,
                 pcw_dead, pcw_work, answers, faults, failed>>

helper_write(w) ==
  /\ ~ failed
  /\ thread[w] \in ReqIds
  /\ answers' = [answers EXCEPT ![w] = Append(@, thread[w])]
  /\ thread' = [thread EXCEPT ![w] = Waiting]
  /\ UNCHANGED <<phase, pcw_id, place, owner, backlog_queue_len, start,
                 pcw_dead, pcw_work, requests, faults, failed>>

\* An error on its socket ends the helper's loop: it closes its end, and what
\* it had not answered is lost.
helper_exit(w) ==
  /\ ~ failed
  /\ faults < MaxFaults /\ faults' = faults + 1
  /\ thread[w] \in ReqIds \cup {Waiting}
  /\ thread' = [thread EXCEPT ![w] = Exited]
  /\ requests' = [requests EXCEPT ![w] = << >>]
  /\ UNCHANGED <<phase, pcw_id, place, owner, backlog_queue_len, start,
                 pcw_dead, pcw_work, answers, failed>>

(***************************************************************************)
(* Reading an answer.                                                      *)
(***************************************************************************)

\* Mutant of ToSend: the last request of the backlog is left there.
ToSend_not_last ==
  {i \in backlog : backlog_queue_len > 1 /\ \A j \in backlog : i <= j}

\* crypto_send_backlog takes one continuation, the oldest, off the backlog.
ToSend == {i \in backlog : backlog_queue_len > 0 /\ \A j \in backlog : i <= j}

\* The passerts of crypto_send_backlog: there is a continuation if the length
\* says so; the worker, whose work has been decremented, is still busy; the
\* write succeeds.  A dead worker is initialized again, with no work, or stays
\* dead, so a passert fails either way.
BacklogPasserts(w) ==
  backlog_queue_len > 0 =>
    /\ backlog # {}
    /\ ~ pcw_dead[w]
    /\ pcw_work[w] - 1 > 0
    /\ thread[w] # Exited

\* Mutant of crypto_send_backlog: the request sent is not counted.
crypto_send_backlog_uncounted(w) ==
  /\ requests' = [requests EXCEPT ![w] =
                    IF ToSend = {} THEN @
                    ELSE Append(@, CHOOSE i \in ToSend : TRUE)]
  /\ pcw_work' = [pcw_work EXCEPT ![w] = @ - 1]
  /\ backlog_queue_len' = IF ToSend = {} THEN backlog_queue_len
                                         ELSE backlog_queue_len - 1

\* Mutant of crypto_send_backlog: the length of the backlog is not decremented.
crypto_send_backlog_length(w) ==
  /\ requests' = [requests EXCEPT ![w] =
                    IF ToSend = {} THEN @
                    ELSE Append(@, CHOOSE i \in ToSend : TRUE)]
  /\ pcw_work' = [pcw_work EXCEPT ![w] = IF ToSend = {} THEN @ - 1 ELSE @]
  /\ UNCHANGED backlog_queue_len

\* The worker's work and requests after the answer is counted and one request
\* of the backlog, if there is one, is sent in its place.
crypto_send_backlog(w) ==
  /\ requests' = [requests EXCEPT ![w] =
                    IF ToSend = {} THEN @
                    ELSE Append(@, CHOOSE i \in ToSend : TRUE)]
  /\ pcw_work' = [pcw_work EXCEPT ![w] = IF ToSend = {} THEN @ - 1 ELSE @]
  /\ backlog_queue_len' = IF ToSend = {} THEN backlog_queue_len
                                         ELSE backlog_queue_len - 1

\* The continuation of the answer is unlinked, and called unless its state is
\* gone; the one sent from the backlog is linked to w.
handle_helper_answer(w) ==
  LET i == Head(answers[w])
      found == place[i] = w
      called == IF found THEN {owner[i]} \ {Nobody} ELSE {}
  IN  /\ ~ failed
      /\ answers[w] # << >>
      /\ answers' = [answers EXCEPT ![w] = Tail(@)]
      /\ failed' = ~ BacklogPasserts(w)
      /\ IF failed'
           THEN UNCHANGED <<requests, pcw_work, backlog_queue_len, place, owner,
                            phase>>
           ELSE /\ crypto_send_backlog(w)
                /\ place' = [j \in ReqIds |->
                               IF j \in ToSend THEN w
                               ELSE IF j = i /\ found THEN Free
                               ELSE place[j]]
                /\ owner' = [owner EXCEPT ![i] = IF found THEN Nobody ELSE @]
                /\ phase' = [s \in Sts |-> IF s \in called THEN "idle"
                                                           ELSE phase[s]]
      /\ UNCHANGED <<pcw_id, start, pcw_dead, thread, faults>>

\* The read fails although there is an answer: the helper is cancelled, and
\* stays so with its socket open.
kill_helper(w) ==
  /\ ~ failed
  /\ faults < MaxFaults /\ faults' = faults + 1
  /\ answers[w] # << >> /\ ~ pcw_dead[w]
  /\ pcw_dead' = [pcw_dead EXCEPT ![w] = TRUE]
  /\ thread' = [thread EXCEPT ![w] = IF @ = Exited THEN Exited ELSE NoThread]
  /\ UNCHANGED <<phase, pcw_id, place, owner, backlog_queue_len, start,
                 pcw_work, requests, answers, failed>>

\* The read reaches the end of what the helper wrote before it exited.
helper_eof(w) ==
  /\ ~ failed
  /\ thread[w] = Exited /\ answers[w] = << >> /\ ~ pcw_dead[w]
  /\ pcw_dead' = [pcw_dead EXCEPT ![w] = TRUE]
  /\ UNCHANGED <<phase, pcw_id, place, owner, backlog_queue_len, helperVars,
                 pcw_work, answers, faults, failed>>

(***************************************************************************)
(* Deleting a state, for example when EVENT_CRYPTO_FAILED finds that its   *)
(* computation took too long.                                              *)
(***************************************************************************)

\* Mutant of delete_cryptographic_continuation: what is in flight is unlinked.
delete_cryptographic_continuation_unlinks(T) ==
  LET scrapped == {i \in backlog : owner[i] \in T}
      held == {i \in ReqIds : owner[i] \in T}
  IN  /\ place' = [i \in ReqIds |-> IF i \in held THEN Free ELSE place[i]]
      /\ owner' = [i \in ReqIds |-> IF i \in held THEN Nobody ELSE owner[i]]
      /\ backlog_queue_len' = backlog_queue_len - Cardinality(scrapped)

\* Mutant of delete_cryptographic_continuation: only the backlog is checked.
delete_cryptographic_continuation_backlog(T) ==
  LET scrapped == {i \in backlog : owner[i] \in T}
  IN  /\ place' = [i \in ReqIds |-> IF i \in scrapped THEN Free ELSE place[i]]
      /\ owner' = [i \in ReqIds |-> IF i \in scrapped THEN Nobody ELSE owner[i]]
      /\ backlog_queue_len' = backlog_queue_len - Cardinality(scrapped)

\* delete_cryptographic_continuation for every state of T: what is on the
\* backlog is scrapped, what is in flight is no longer of interest.
delete_cryptographic_continuation(T) ==
  LET scrapped == {i \in backlog : owner[i] \in T}
  IN  /\ place' = [i \in ReqIds |-> IF i \in scrapped THEN Free ELSE place[i]]
      /\ owner' = [i \in ReqIds |-> IF owner[i] \in T THEN Nobody ELSE owner[i]]
      /\ backlog_queue_len' = backlog_queue_len - Cardinality(scrapped)

\* flush_pending_children walks the whole hash chain of the state that goes.
flush_pending_children(s) == {t \in Sts : Chain[t] = Chain[s]}

delete_state(s) ==
  /\ ~ failed
  /\ phase[s] \in {"idle", "calculating"}
  /\ phase' = [phase EXCEPT ![s] = "deleted"]
  /\ delete_cryptographic_continuation(flush_pending_children(s) \cup {s})
  /\ UNCHANGED <<pcw_id, helperVars, pcw_dead, pcw_work, answers, faults, failed>>

HelperStep(w) == helper_read(w) \/ helper_write(w)

Next ==
  \/ \E s \in Sts : new_state(s) \/ delete_state(s)
  \/ \E s \in Sts, pcim \in Importances : send_crypto_helper_request(s, pcim)
  \/ \E w \in Workers : HelperStep(w) \/ helper_exit(w)
  \/ \E w \in Workers :
        handle_helper_answer(w) \/ kill_helper(w) \/ helper_eof(w)

Spec == Init /\ [][Next]_vars

\* The threads run, and the event loop gets to every readable socket.
Fairness ==
  \A w \in Workers : WF_vars(HelperStep(w)) /\ WF_vars(handle_helper_answer(w))

FairSpec == Spec /\ Fairness

(***************************************************************************)
(* Properties.                                                             *)
(***************************************************************************)

IsIn(i, seq) == \E k \in 1 .. Len(seq) : seq[k] = i

\* The request with ID i is on its way through worker w.
InFlight(i, w) == IsIn(i, requests[w]) \/ thread[w] = i \/ IsIn(i, answers[w])

\* "how many items in pcw_active" (struct pluto_crypto_worker): the counters
\* that decide who gets work agree with the lists, however answers, deletions
\* and the backlog interleave, for a helper that did not close its socket.
WorkCounts ==
  /\ backlog_queue_len = Cardinality(backlog)
  /\ \A w \in Workers :
       thread[w] # Exited /\ ~ failed
         => pcw_work[w] = Cardinality(pcw_active(w))

\* What is in flight through a helper is on its active list, so that
\* handle_helper_answer finds the continuation of every answer.
AnswersHaveContinuations ==
  \A w \in Workers : \A i \in ReqIds : InFlight(i, w) => place[i] = w

\* A continuation that may still be called, from the backlog or for an answer,
\* belongs to a state that exists and waits for exactly this request: a late
\* answer never reaches a deleted state, or a state that asked for something
\* else since (delete_cryptographic_continuation, the SOS_NOBODY test).
LiveContinuation(i) ==
  /\ owner[i] # Nobody
  /\ place[i] = OnBacklog \/ \E w \in Workers : place[i] = w /\ InFlight(i, w)

ContinuationsMatchStates ==
  /\ \A i \in ReqIds : LiveContinuation(i) => phase[owner[i]] = "calculating"
  /\ \A i, j \in ReqIds :
       LiveContinuation(i) /\ LiveContinuation(j) /\ owner[i] = owner[j] => i = j

\* No helper failed, at the start for want of a socketpair or later.  (The
\* helper without a socketpair is the least busy one for ever, so requests go to
\* the backlog while others have room.)
NothingFailed == faults = 0 /\ \A w \in Workers : start[w] # "nosocket"

\* The helpers and the main thread stay in step, however requests, answers,
\* deletions and the backlog interleave: the counters are right, every answer
\* finds its continuation, and the passerts of crypto_send_backlog hold as long
\* as no helper failed.
HelpersInStep ==
  /\ WorkCounts
  /\ AnswersHaveContinuations
  /\ NothingFailed => ~ failed

\* Every computation is answered: also one that went to the backlog, since each
\* answer sends one request of the backlog.
Answered ==
  \A s \in Sts : phase[s] = "calculating" ~> phase[s] # "calculating"

\* "STF_SUSPEND: computation queued for later completion.  STF will be called
\* in the indefinite future" (send_crypto_helper_request): a state that waits
\* has a continuation that will be called for it.
SuspendedIsResumed ==
  \A s \in Sts : phase[s] = "calculating" =>
                   \E i \in ReqIds : place[i] # Free /\ owner[i] = s

====
