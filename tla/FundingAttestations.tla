-------------------------- MODULE FundingAttestations --------------------------
(***************************************************************************)
(* Payments that the API attests (FundingAttestationService): NINES are    *)
(* issued for an attestation once, or it is put to review when its time is *)
(* over.  Deliveries of the same and of other attestations run at the same *)
(* time, each on its connection; the network repeats them and nothing      *)
(* orders them.                                                            *)
(*                                                                         *)
(* A delivery first prepares outside its transaction - it looks for an     *)
(* earlier decision, provisions the player and asks the account rules -    *)
(* and then decides in one, which records the request's nonce, locks the   *)
(* attestation, checks and writes.  One player has all attestations.       *)
(* Amounts, signatures and the clearing account, which everybody shares,   *)
(* are left out.                                                           *)
(***************************************************************************)
EXTENDS Provisioning, AccountRules, FiniteSets

CONSTANTS
  Attestations,  \* ids of attestations
  SourceOf,      \* the provider's payment of each
  IntentOf,      \* the funding intent of each
  Requests,      \* the API's requests: their nonces
  Payloads       \* contents under which an id may be sent

VARIABLES
  overdue,   \* the attestations whose automatic processing time is over
  frozen,    \* the player is frozen
  consumed,  \* funding_attestation_consumptions
  issued,    \* the ledger's transactions of type token_purchase_issuance
  evidence,  \* security_evidence_outbox
  nonces,    \* service_request_nonces
  delivery   \* what each delivery is doing

Tables == <<consumed, issued, evidence, nonces>>
vars == <<provisioning, overdue, frozen, Tables, delivery>>

Messages == [attestation: Attestations, payload: Payloads, request: Requests]
Consumptions == [attestation: Attestations, payload: Payloads, outcome: {"accepted", "review"}]

NoMessage == [attestation |-> None, payload |-> None, request |-> None]
\* An answer tells the outcome, or that it is a duplicate, and in both cases
\* whether NINES were issued (ledgerTransactionId, issuedMinorUnits).
NoAnswer == [outcome |-> "none", payload |-> None, issued |-> FALSE]
Answers ==
  [outcome: {"accepted", "review", "duplicate"}, payload: Payloads, issued: BOOLEAN]
    \cup {NoAnswer}

NotArrived == [at |-> "new", message |-> NoMessage, prepared |-> FALSE, answer |-> NoAnswer]

DeliveryStates ==
  [at: {"new", "received", "unknown", "provisioning", "prepared", "noted", "locked",
        "replaying", "accepted", "review", "answered", "refused"},
   message: Messages \cup {NoMessage}, prepared: BOOLEAN, answer: Answers]

Consumed(a) == {x \in consumed : x.attestation = a}

-----------------------------------------------------------------------------
(* What a delivery does before its transaction *)

Enter(d, at) == delivery' = [delivery EXCEPT ![d].at = at]

End(d, at, answer) ==
  delivery' = [delivery EXCEPT ![d] =
    [NotArrived EXCEPT !.at = at, !.message = delivery[d].message, !.answer = answer]]

Refuse(d) == End(d, "refused", NoAnswer)

Replay_NotMarked(d, x) ==
  IF x.payload = delivery[d].message.payload
  THEN End(d, "answered", [outcome |-> x.outcome, payload |-> x.payload,
                           issued |-> x.outcome = "accepted"])
  ELSE Refuse(d)

\* The answer to an attestation that was decided: a duplicate, with what was
\* issued, unless its contents differ.
Replay(d, x) ==
  IF x.payload = delivery[d].message.payload
  THEN End(d, "answered", [outcome |-> "duplicate", payload |-> x.payload,
                           issued |-> x.outcome = "accepted"])
  ELSE Refuse(d)

Receive(d, m) ==
  /\ delivery[d].at \in {"new", "answered", "refused"}
  /\ delivery' = [delivery EXCEPT ![d] = [NotArrived EXCEPT !.at = "received", !.message = m]]
  /\ Go(d, NotCalled)
  /\ UNCHANGED <<linked, player, overdue, frozen, Tables>>

\* Is there an earlier decision?
LookUp(d) ==
  /\ delivery[d].at = "received"
  /\ Enter(d, IF Consumed(delivery[d].message.attestation) # {} THEN "prepared" ELSE "unknown")
  /\ UNCHANGED <<provisioning, overdue, frozen, Tables>>

\* While there is time the player is provisioned.
Prepare(d) ==
  /\ delivery[d].at = "unknown"
  /\ IF delivery[d].message.attestation \in overdue
     THEN Enter(d, "prepared") /\ UNCHANGED prov
     ELSE Enter(d, "provisioning") /\ Go(d, [NotCalled EXCEPT !.at = "begun"])
  /\ UNCHANGED <<linked, player, overdue, frozen, Tables>>

Provision(d) ==
  /\ ProvisionStep(d)
  /\ UNCHANGED <<overdue, frozen, Tables, delivery>>

\* Then the rules of the account are asked.
Authorise(d) ==
  /\ delivery[d].at = "provisioning" /\ prov[d].at \in {"done", "failed"}
  /\ IF prov[d].at = "done" /\ Authorized("deposit_credit", Controls(0, FALSE, frozen), ~frozen)
     THEN delivery' = [delivery EXCEPT ![d].at = "prepared", ![d].prepared = TRUE]
     ELSE Refuse(d)
  /\ UNCHANGED <<provisioning, overdue, frozen, Tables>>

-----------------------------------------------------------------------------
(* The transaction of a delivery *)

InTransaction(d) == delivery[d].at \in {"noted", "locked", "accepted", "review", "replaying"}

\* The nonce of the request: another transaction's uncommitted one is waited for.
RecordNonce(d) ==
  /\ delivery[d].at = "prepared"
  /\ LET r == delivery[d].message.request
     IN  /\ \A e \in Callers : InTransaction(e) => delivery[e].message.request # r
         /\ IF r \in nonces THEN Refuse(d) ELSE Enter(d, "noted")
  /\ UNCHANGED <<provisioning, overdue, frozen, Tables>>

Holds(e, a) ==
  /\ delivery[e].at \in {"locked", "accepted", "review", "replaying"}
  /\ delivery[e].message.attestation = a

Lock_None(d) ==
  /\ delivery[d].at = "noted"
  /\ Enter(d, "locked")
  /\ UNCHANGED <<provisioning, overdue, frozen, Tables>>

\* The lock of the attestation.
Lock(d) ==
  /\ delivery[d].at = "noted"
  /\ \A e \in Callers : ~Holds(e, delivery[d].message.attestation)
  /\ Enter(d, "locked")
  /\ UNCHANGED <<provisioning, overdue, frozen, Tables>>

TakenSource(a) == \E x \in consumed : SourceOf[x.attestation] = SourceOf[a]
TakenIntent(a) == \E x \in consumed : IntentOf[x.attestation] = IntentOf[a]

Check_FirstDeadline(d) ==
  /\ delivery[d].at = "locked"
  /\ LET a == delivery[d].message.attestation
     IN  \/ Consumed(a) # {} /\ Enter(d, "replaying")
         \/ /\ Consumed(a) = {}
            /\ TakenSource(a) \/ TakenIntent(a)
            /\ Refuse(d)
         \/ /\ Consumed(a) = {} /\ ~TakenSource(a) /\ ~TakenIntent(a)
            /\ Enter(d, IF delivery[d].prepared THEN "accepted" ELSE "review")
  /\ UNCHANGED <<provisioning, overdue, frozen, Tables>>

\* Was it decided meanwhile, or its payment or its intent used by another one?
\* Is there still time, by a second look at the clock?
Check(d) ==
  /\ delivery[d].at = "locked"
  /\ LET a == delivery[d].message.attestation
     IN  \/ Consumed(a) # {} /\ Enter(d, "replaying")
         \/ /\ Consumed(a) = {}
            /\ TakenSource(a) \/ TakenIntent(a)
            /\ Refuse(d)
         \/ /\ Consumed(a) = {} /\ ~TakenSource(a) /\ ~TakenIntent(a)
            /\ \/ a \in overdue /\ Enter(d, "review")
               \/ a \notin overdue /\ delivery[d].prepared /\ Enter(d, "accepted")
               \/ a \notin overdue /\ ~delivery[d].prepared /\ Refuse(d)
  /\ UNCHANGED <<provisioning, overdue, frozen, Tables>>

CommitReplay(d) ==
  /\ delivery[d].at = "replaying"
  /\ \E x \in Consumed(delivery[d].message.attestation) :
       /\ Replay(d, x)
       /\ nonces' = IF x.payload = delivery[d].message.payload
                    THEN nonces \cup {delivery[d].message.request} ELSE nonces
  /\ UNCHANGED <<provisioning, overdue, frozen, consumed, issued, evidence>>

UniqueViolation_Source(a) == TakenSource(a)

UniqueViolation(a) == TakenSource(a) \/ TakenIntent(a)

\* The decision, its posting and its evidence are written and committed.  The
\* unique indexes stop one whose payment or intent another has used since, and
\* the posting one whose player was frozen since.
CommitDecision(d) ==
  /\ delivery[d].at \in {"accepted", "review"}
  /\ LET m == delivery[d].message
         outcome == delivery[d].at
     IN  IF UniqueViolation(m.attestation) \/ (outcome = "accepted" /\ frozen)
         THEN Refuse(d) /\ UNCHANGED Tables
         ELSE /\ consumed' = consumed \cup
                   {[attestation |-> m.attestation, payload |-> m.payload, outcome |-> outcome]}
              /\ issued' = IF outcome = "accepted" THEN issued \cup {m.attestation} ELSE issued
              /\ evidence' = evidence \cup {m.attestation}
              /\ nonces' = nonces \cup {m.request}
              /\ End(d, "answered", [outcome |-> outcome, payload |-> m.payload,
                                      issued |-> outcome = "accepted"])
  /\ UNCHANGED <<provisioning, overdue, frozen>>

\* The connection is lost, or the process dies: nothing of it remains.
Break(d) ==
  /\ InTransaction(d)
  /\ Refuse(d)
  /\ UNCHANGED <<provisioning, overdue, frozen, Tables>>

-----------------------------------------------------------------------------
(* What goes on around it *)

PassDeadline(a) ==
  /\ a \notin overdue
  /\ overdue' = overdue \cup {a}
  /\ UNCHANGED <<provisioning, frozen, Tables, delivery>>

\* An operator freezes the player, or lifts the freeze.
SwitchFreeze ==
  /\ player # NoPlayer
  /\ frozen' = ~frozen
  /\ UNCHANGED <<provisioning, overdue, Tables, delivery>>

Init ==
  /\ InitProvisioning
  /\ overdue = {} /\ frozen = FALSE
  /\ consumed = {} /\ issued = {} /\ evidence = {} /\ nonces = {}
  /\ delivery = [d \in Callers |-> NotArrived]

DeliveryStep(d) ==
  \/ \E m \in Messages : Receive(d, m)
  \/ LookUp(d) \/ Prepare(d) \/ Provision(d) \/ Authorise(d)
  \/ RecordNonce(d) \/ Lock(d) \/ Check(d)
  \/ CommitReplay(d) \/ CommitDecision(d) \/ Break(d)

Next ==
  \/ \E d \in Callers : DeliveryStep(d)
  \/ \E a \in Attestations : PassDeadline(a)
  \/ SwitchFreeze

Spec == Init /\ [][Next]_vars

-----------------------------------------------------------------------------
(* Properties *)

\* Types, and that a request and an attestation are in one transaction at a time.
TypeOK ==
  /\ ProvisioningTypeOK
  /\ overdue \subseteq Attestations /\ frozen \in BOOLEAN
  /\ consumed \subseteq Consumptions
  /\ issued \subseteq Attestations /\ evidence \subseteq Attestations
  /\ nonces \subseteq Requests
  /\ delivery \in [Callers -> DeliveryStates]
  /\ \A d, e \in Callers :
       /\ d # e /\ InTransaction(d) /\ InTransaction(e) =>
            delivery[d].message.request # delivery[e].message.request
       /\ d # e /\ Holds(d, delivery[e].message.attestation) =>
            ~Holds(e, delivery[e].message.attestation)

\* Whatever is delivered, how often and in what order: a payment of the provider
\* and a funding intent are decided once, NINES are issued for exactly those
\* accepted, to a player account that is there, and every decision has evidence.
DecidedOnce ==
  /\ \A x, y \in consumed :
       x # y => /\ x.attestation # y.attestation
                /\ SourceOf[x.attestation] # SourceOf[y.attestation]
                /\ IntentOf[x.attestation] # IntentOf[y.attestation]
  /\ issued = {x.attestation : x \in {y \in consumed : y.outcome = "accepted"}}
  /\ evidence = {x.attestation : x \in consumed}
  /\ issued # {} => player # NoPlayer

\* Deliveries with the answer of a decision that they took themselves.
Deciders == {d \in Callers : delivery[d].answer.outcome \in {"accepted", "review"}}

\* However an attestation's deliveries overlap and repeat, and though its time
\* passes meanwhile, one of them is answered with its decision, every other one
\* with a duplicate; and all are told what the ledger says: that NINES were
\* issued for it, or that they were not.
AnswersStand ==
  /\ \A d \in Callers : delivery[d].answer # NoAnswer =>
       LET a == delivery[d].message.attestation
           answer == delivery[d].answer
       IN  /\ \E x \in Consumed(a) :
                x.payload = answer.payload /\ answer.outcome \in {x.outcome, "duplicate"}
           /\ answer.issued <=> a \in issued
  /\ \A d, e \in Deciders :
       d # e => delivery[d].message.attestation # delivery[e].message.attestation

\* The time is over, nothing was issued and no transaction has decided to.
Late(a) ==
  /\ a \in overdue \ issued
  /\ \A d \in Callers : delivery[d].at = "accepted" => delivery[d].message.attestation # a

\* An attestation that is late is never issued automatically, by any delivery
\* that was prepared in time either.
LateStaysLate == [][\A a \in Attestations : Late(a) => Late(a)']_vars
=============================================================================
