--------------------------- MODULE EvidenceDelivery ---------------------------
(***************************************************************************)
(* The delivery of security evidence (SecurityEvidenceDeliveryWorker): the *)
(* decisions on attestations leave events in an outbox, and the workers of *)
(* several processes post them to the API, each one event at a time, under *)
(* a lease that ends by itself.  Workers die, answers are lost, and a      *)
(* worker may be so slow that its lease has ended when it has its answer.  *)
(*                                                                         *)
(* An event is numbered in the order of created_at.  Of next_attempt_at    *)
(* the model keeps whether it has passed, of a lease token the number of   *)
(* the attempt it was made for.                                            *)
(***************************************************************************)
EXTENDS Naturals, FiniteSets

CONSTANTS
  NumEvents,    \* how many events there are
  Workers,      \* one in each process
  MaxAttempts,  \* after which a failed event is given up
  MaxFaults    \* bound: how many workers die, are too slow or lose their database

ASSUME EvidenceAssumption ==
  NumEvents \in Nat /\ MaxAttempts \in Nat \ {0} /\ MaxFaults \in Nat

Events == 1 .. NumEvents
Open == {"pending", "retry_wait"}
Final == {"delivered", "dead_letter"}

VARIABLES
  delivery,  \* security_evidence_outbox.delivery_status
  attempts,  \* attempt_count
  due,       \* the events whose next_attempt_at has passed
  lease,     \* the attempt that holds the lease, 0 for none
  worker,    \* what each worker is doing
  faults     \* how many of these failures there were

deliveryVars == <<delivery, attempts, due, lease, worker, faults>>

Replies == {"ok", "never", "again"}
Idle == [event |-> 0, attempt |-> 0, reply |-> "none"]
WorkerStates == [event: 0 .. NumEvents, attempt: Nat, reply: Replies \cup {"none"}]

\* A decision is committed with its event.
Record(e) ==
  /\ delivery[e] = "none"
  /\ \A f \in Events : f < e => delivery[f] # "none"
  /\ delivery' = [delivery EXCEPT ![e] = "pending"]
  /\ due' = due \cup {e}
  /\ UNCHANGED <<attempts, lease, worker, faults>>

Ready_Unleased == {e \in due : delivery[e] \in Open /\ lease[e] = 0}

Ready == {e \in due : delivery[e] \in Open}

\* A worker that is free leases the oldest event that is due.
Lease(w) ==
  /\ worker[w] = Idle
  /\ \E e \in Ready :
       /\ \A f \in Ready : e <= f
       /\ attempts' = [attempts EXCEPT ![e] = @ + 1]
       /\ lease' = [lease EXCEPT ![e] = attempts[e] + 1]
       /\ due' = due \ {e}
       /\ worker' = [worker EXCEPT ![w] =
                       [event |-> e, attempt |-> attempts[e] + 1, reply |-> "none"]]
  /\ UNCHANGED <<delivery, faults>>

\* The API takes the event or refuses it for good, or something else comes
\* back, or nothing in time.
Post(w) ==
  /\ worker[w] # Idle /\ worker[w].reply = "none"
  /\ \E reply \in Replies : worker' = [worker EXCEPT ![w].reply = reply]
  /\ UNCHANGED <<delivery, attempts, due, lease, faults>>

StillLeased_Open(w) == TRUE

\* What a worker writes, it writes if the lease is still its own.
StillLeased(w) ==
  /\ lease[worker[w].event] = worker[w].attempt
  /\ delivery[worker[w].event] \in Open

\* An event is given up when it is refused, or with its last attempt.
Outcome(w) ==
  CASE worker[w].reply = "ok" -> "delivered"
    [] worker[w].reply = "never" \/ (worker[w].reply = "again" /\ worker[w].attempt >= MaxAttempts)
         -> "dead_letter"
    [] OTHER -> "retry_wait"

Settle(w) ==
  /\ worker[w].reply # "none"
  /\ IF StillLeased(w)
     THEN /\ delivery' = [delivery EXCEPT ![worker[w].event] = Outcome(w)]
          /\ lease' = [lease EXCEPT ![worker[w].event] = 0]
          /\ due' = due \ {worker[w].event}
     ELSE UNCHANGED <<delivery, lease, due>>
  /\ worker' = [worker EXCEPT ![w] = Idle]
  /\ UNCHANGED <<attempts, faults>>

\* The update of a delivery or of a refusal fails: it is then taken for an attempt
\* that failed.
Mistake(w) ==
  /\ worker[w].reply \in {"ok", "never"} /\ faults < MaxFaults
  /\ worker' = [worker EXCEPT ![w].reply = "again"]
  /\ faults' = faults + 1
  /\ UNCHANGED <<delivery, attempts, due, lease>>

\* A worker dies, or can write nothing: the lease stays until its time is over.
Die(w) ==
  /\ worker[w] # Idle /\ faults < MaxFaults
  /\ worker' = [worker EXCEPT ![w] = Idle]
  /\ faults' = faults + 1
  /\ UNCHANGED <<delivery, attempts, due, lease>>

\* next_attempt_at passes: the end of the wait for a retry, or of a lease.  A
\* lease is longer than a post may take: that it ends under a worker that is
\* still at work is a failure too.
Pass(e) ==
  /\ delivery[e] \in Open /\ e \notin due
  /\ due' = due \cup {e}
  /\ IF \E w \in Workers : worker[w].event = e /\ worker[w].attempt = lease[e]
     THEN faults < MaxFaults /\ faults' = faults + 1
     ELSE UNCHANGED faults
  /\ UNCHANGED <<delivery, attempts, lease, worker>>

InitDelivery ==
  /\ delivery = [e \in Events |-> "none"]
  /\ attempts = [e \in Events |-> 0]
  /\ due = {}
  /\ lease = [e \in Events |-> 0]
  /\ worker = [w \in Workers |-> Idle]
  /\ faults = 0

DeliveryNext ==
  \/ \E e \in Events : Record(e) \/ Pass(e)
  \/ \E w \in Workers : Lease(w) \/ Post(w) \/ Settle(w) \/ Mistake(w) \/ Die(w)

\* A worker looks for events again and again (start) and a post ends in time;
\* time goes on.
Fairness ==
  /\ \A e \in Events : WF_deliveryVars(Pass(e))
  /\ \A w \in Workers :
       WF_deliveryVars(Lease(w)) /\ WF_deliveryVars(Post(w)) /\ WF_deliveryVars(Settle(w))

DeliverySpec == InitDelivery /\ [][DeliveryNext]_deliveryVars /\ Fairness

-----------------------------------------------------------------------------
(* Properties *)

DeliveryTypeOK ==
  /\ delivery \in [Events -> Open \cup Final \cup {"none"}]
  /\ attempts \in [Events -> Nat]
  /\ due \subseteq Events
  /\ lease \in [Events -> Nat]
  /\ worker \in [Workers -> WorkerStates]
  /\ faults \in 0 .. MaxFaults

\* The end of an event stays its end: the late answer of a worker whose lease is
\* over does not make a delivered event wait again, or one that was given up
\* delivered.
EndsStay == [][\A e \in Events : delivery[e] \in Final => delivery'[e] = delivery[e]]_deliveryVars

\* Every event is delivered or given up in the end, although workers die with
\* their leases and events wait behind older ones that fail.
EvidenceEnds == \A e \in Events : delivery[e] = "pending" ~> delivery[e] \in Final
=============================================================================
