----------------------------- MODULE FundingProofs -----------------------------
(***************************************************************************)
(* Proofs about FundingAttestations and the provisioning of the player it  *)
(* is composed with, for any attestations, payments, intents, requests,    *)
(* payloads and connections.                                               *)
(*                                                                         *)
(* The two parts have an invariant each.  PInv says who may be creating    *)
(* the player's accounts; DeliveryInv what a delivery has established, and *)
(* what no two of them hold together.  All that connects them is that a    *)
(* player, once there, stays.                                              *)
(***************************************************************************)
EXTENDS FundingAttestations, TLAPS

-----------------------------------------------------------------------------
(* Provisioning *)

\* In these states a transaction has ledger accounts to link: its own, that are
\* not committed, or those that are there.
HasAccounts == {"linked", "checked", "inserted"}

Linking ==
  \A c \in Callers :
    /\ prov[c].at \in HasAccounts \cup {"searched", "creating"} => linked # c
    /\ prov[c].at \in HasAccounts =>
         \/ prov[c].accounts = c /\ linked = None
         \/ prov[c].accounts = linked /\ linked # None
    /\ prov[c].at \notin HasAccounts => prov[c].accounts = None
    /\ prov[c].at = "inserted" => player = NoPlayer

\* One transaction at a time has new ledger accounts, one a new player.
OneCreates ==
  \A c, d \in Callers : c # d =>
    /\ ~(prov[c].accounts = c /\ prov[d].accounts = d)
    /\ ~(prov[c].at = "inserted" /\ prov[d].at = "inserted")

PInv == ProvisioningTypeOK /\ OnePlayerAccount /\ Linking /\ OneCreates

\* A step of one caller that changes neither table.
LEMMA ProvMoves ==
  ASSUME PInv, NEW c \in Callers, NEW x \in ProvStates, Go(c, x),
         UNCHANGED <<linked, player>>,
         x.at \in HasAccounts \cup {"searched", "creating"} => linked # c,
         x.at \in HasAccounts => \/ x.accounts = c /\ linked = None
                                 \/ x.accounts = linked /\ linked # None,
         x.at \notin HasAccounts => x.accounts = None,
         x.at = "inserted" =>
           player = NoPlayer /\ \A d \in Callers \ {c} : prov[d].at # "inserted",
         x.accounts = c => \A d \in Callers \ {c} : prov[d].accounts # d,
         x.at = "done" => x.got = player /\ player # NoPlayer
  PROVE  PInv'
<1>1. prov' = [prov EXCEPT ![c] = x] /\ prov \in [Callers -> ProvStates]
  BY DEF Go, PInv, ProvisioningTypeOK
<1>2. ProvisioningTypeOK'
  BY <1>1 DEF PInv, ProvisioningTypeOK
<1>3. OnePlayerAccount'
  BY <1>1 DEF PInv, OnePlayerAccount
<1>4. Linking'
  BY <1>1 DEF PInv, Linking
<1>5. OneCreates'
  BY <1>1 DEF PInv, OneCreates
<1> QED BY <1>2, <1>3, <1>4, <1>5 DEF PInv

LEMMA ProvTypes ==
  ASSUME PInv, NEW c \in Callers
  PROVE  /\ prov[c] \in ProvStates
         /\ NotCalled \in ProvStates /\ NotCalled.at = "idle" /\ NotCalled.accounts = None
         /\ player \in Players /\ linked \in Accounts \cup {None}
  BY DEF PInv, ProvisioningTypeOK, ProvStates, NotCalled, Players

\* To end, in any way but with a new player, is to have nothing in the works.
LEMMA ProvEnds ==
  ASSUME PInv, NEW c \in Callers, UNCHANGED <<linked, player>>,
         \/ Stop(c) \/ Go(c, NotCalled)
         \/ Go(c, [NotCalled EXCEPT !.at = "begun"])
         \/ Go(c, [NotCalled EXCEPT !.at = "reload"])
         \/ Return(c, player) /\ player # NoPlayer
  PROVE  PInv'
<1>1. PICK x : /\ Go(c, x)
               /\ \/ x = [NotCalled EXCEPT !.at = "failed"]
                  \/ x = NotCalled
                  \/ x = [NotCalled EXCEPT !.at = "begun"]
                  \/ x = [NotCalled EXCEPT !.at = "reload"]
                  \/ player # NoPlayer /\ x = [NotCalled EXCEPT !.at = "done", !.got = player]
  BY DEF Stop, Return
<1>2. /\ x \in ProvStates /\ x.accounts = None
      /\ x.at \notin HasAccounts \cup {"searched", "creating"}
      /\ x.at = "done" => x.got = player /\ player # NoPlayer
  BY <1>1, ProvTypes DEF ProvStates, NotCalled, HasAccounts
<1>3. x.accounts # c /\ x.at # "inserted"
  BY <1>2, ProvisioningAssumption DEF HasAccounts
<1> QED BY <1>1, <1>2, <1>3, ProvMoves

LEMMA SearchKeeps ==
  ASSUME PInv, NEW c \in Callers, Search(c)
  PROVE  PInv' /\ player' = player
<1>1. prov[c].at = "begun" /\ UNCHANGED <<linked, player>>
  BY DEF Search
<1>2. CASE player # NoPlayer
  BY <1>1, <1>2, ProvEnds DEF Search
<1>3. CASE player = NoPlayer
  <2> DEFINE x == [prov[c] EXCEPT !.at = "searched"]
  <2>1. x \in ProvStates /\ x.at = "searched" /\ x.accounts = prov[c].accounts /\ Go(c, x)
    BY <1>3, ProvTypes DEF ProvStates, Search
  <2> HIDE DEF x
  <2>2. x.accounts = None
    BY <1>1, <2>1 DEF PInv, Linking, HasAccounts
  <2>3. linked # c
    BY <1>3, ProvisioningAssumption DEF PInv, OnePlayerAccount, NoPlayer
  <2> QED BY <1>1, <2>1, <2>2, <2>3, ProvMoves, ProvisioningAssumption DEF HasAccounts
<1> QED BY <1>1, <1>2, <1>3

LEMMA FindAccountsKeeps ==
  ASSUME PInv, NEW c \in Callers, FindAccounts(c)
  PROVE  PInv' /\ player' = player
<1>1. /\ prov[c].at = "searched" /\ UNCHANGED <<linked, player>>
      /\ linked # c /\ prov[c].accounts = None
  BY DEF FindAccounts, PInv, Linking, HasAccounts
<1>2. CASE linked # None
  <2> DEFINE x == [prov[c] EXCEPT !.at = "linked", !.accounts = linked]
  <2>1. x \in ProvStates /\ x.at = "linked" /\ x.accounts = linked /\ Go(c, x)
    BY <1>2, ProvTypes DEF ProvStates, FindAccounts
  <2> HIDE DEF x
  <2> QED BY <1>1, <1>2, <2>1, ProvMoves DEF HasAccounts
<1>3. CASE linked = None
  <2> DEFINE x == [prov[c] EXCEPT !.at = "creating"]
  <2>1. x \in ProvStates /\ x.at = "creating" /\ x.accounts = None /\ Go(c, x)
    BY <1>1, <1>3, ProvTypes DEF ProvStates, FindAccounts
  <2> HIDE DEF x
  <2> QED BY <1>1, <2>1, ProvMoves, ProvisioningAssumption DEF HasAccounts
<1> QED BY <1>1, <1>2, <1>3

LEMMA InsertAccountsKeeps ==
  ASSUME PInv, NEW c \in Callers, InsertAccounts(c)
  PROVE  PInv' /\ player' = player
<1>1. /\ UNCHANGED <<linked, player>> /\ linked # c
      /\ \A d \in Callers : prov[d].accounts # d
  BY DEF InsertAccounts, PInv, Linking
<1>2. CASE linked # None
  BY <1>1, <1>2, ProvEnds DEF InsertAccounts
<1>3. CASE linked = None
  <2> DEFINE x == [prov[c] EXCEPT !.at = "linked", !.accounts = c]
  <2>1. x \in ProvStates /\ x.at = "linked" /\ x.accounts = c /\ Go(c, x)
    BY <1>3, ProvTypes DEF ProvStates, InsertAccounts, Accounts
  <2> HIDE DEF x
  <2> QED BY <1>1, <1>3, <2>1, ProvMoves DEF HasAccounts
<1> QED BY <1>1, <1>2, <1>3

LEMMA SearchAgainKeeps ==
  ASSUME PInv, NEW c \in Callers, SearchAgain(c)
  PROVE  PInv' /\ player' = player
<1>1. prov[c].at = "linked" /\ UNCHANGED <<linked, player>>
  BY DEF SearchAgain
<1>2. CASE Go(c, [prov[c] EXCEPT !.at = "checked"])
  <2> DEFINE x == [prov[c] EXCEPT !.at = "checked"]
  <2>1. x \in ProvStates /\ x.at = "checked" /\ x.accounts = prov[c].accounts
    BY ProvTypes DEF ProvStates
  <2> HIDE DEF x
  <2>2. /\ linked # c
        /\ \/ x.accounts = c /\ linked = None
           \/ x.accounts = linked /\ linked # None
    BY <1>1, <2>1 DEF PInv, Linking, HasAccounts
  <2>3. x.accounts = c => \A d \in Callers \ {c} : prov[d].accounts # d
    BY <2>1 DEF PInv, OneCreates
  <2> QED BY <1>1, <1>2, <2>1, <2>2, <2>3, ProvMoves DEF HasAccounts, x
<1>3. CASE Stop(c) \/ (Return(c, player) /\ player # NoPlayer)
  BY <1>1, <1>3, ProvEnds
<1> QED BY <1>1, <1>2, <1>3 DEF SearchAgain

LEMMA InsertPlayerKeeps ==
  ASSUME PInv, NEW c \in Callers, InsertPlayer(c)
  PROVE  PInv' /\ player' = player
<1>1. /\ prov[c].at = "checked" /\ UNCHANGED <<linked, player>>
      /\ \A d \in Callers : prov[d].at # "inserted"
  BY DEF InsertPlayer
<1>2. CASE player # NoPlayer
  BY <1>1, <1>2, ProvEnds DEF InsertPlayer
<1>3. CASE player = NoPlayer
  <2> DEFINE x == [prov[c] EXCEPT !.at = "inserted"]
  <2>1. x \in ProvStates /\ x.at = "inserted" /\ x.accounts = prov[c].accounts /\ Go(c, x)
    BY <1>3, ProvTypes DEF ProvStates, InsertPlayer
  <2> HIDE DEF x
  <2>2. /\ linked # c
        /\ \/ x.accounts = c /\ linked = None
           \/ x.accounts = linked /\ linked # None
    BY <1>1, <2>1 DEF PInv, Linking, HasAccounts
  <2>3. x.accounts = c => \A d \in Callers \ {c} : prov[d].accounts # d
    BY <2>1 DEF PInv, OneCreates
  <2> QED BY <1>1, <1>3, <2>1, <2>2, <2>3, ProvMoves DEF HasAccounts
<1> QED BY <1>1, <1>2, <1>3

\* The one step that changes the tables: the player was not there, and nobody
\* else has accounts that are not committed.
LEMMA CommitPlayerKeeps ==
  ASSUME PInv, NEW c \in Callers, CommitPlayer(c)
  PROVE  PInv' /\ player' # NoPlayer
<1> DEFINE own == prov[c].accounts
           x == [NotCalled EXCEPT !.at = "done", !.got = player']
<1>1. /\ prov[c].at = "inserted" /\ linked' = own
      /\ player' = [by |-> c, accounts |-> own] /\ Go(c, x)
  BY DEF CommitPlayer, Return
<1>2. player = NoPlayer /\ linked # c
  BY <1>1 DEF PInv, Linking, HasAccounts
<1>3. (own = c /\ linked = None) \/ (own = linked /\ linked # None)
  BY <1>1 DEF PInv, Linking, HasAccounts
<1>4. linked \notin Callers
  BY <1>2, ProvisioningAssumption DEF PInv, OnePlayerAccount, NoPlayer
<1>5. own \in Accounts
  BY <1>3, ProvTypes DEF Accounts
<1>6. player' \in Players /\ player' # NoPlayer
  BY <1>1, <1>5, ProvisioningAssumption DEF Players, NoPlayer
<1>7. /\ x \in ProvStates /\ x.at = "done" /\ x.accounts = None /\ x.got = player'
  BY <1>6 DEF ProvStates, NotCalled
<1>8. prov' = [prov EXCEPT ![c] = x] /\ prov \in [Callers -> ProvStates]
  BY <1>1 DEF Go, PInv, ProvisioningTypeOK
<1> HIDE DEF x
<1>9. ProvisioningTypeOK'
  BY <1>1, <1>5, <1>6, <1>7, <1>8 DEF ProvisioningTypeOK
<1>10. OnePlayerAccount'
  <2>1. player'.accounts = linked' /\ player'.by = c
    BY <1>1
  <2>2. own \in Callers => own = c
    BY <1>3, <1>4
  <2>3. ASSUME NEW d \in Callers, prov'[d].at = "done"
        PROVE  prov'[d].got = player'
    BY <1>2, <1>7, <1>8, <2>3 DEF PInv, OnePlayerAccount
  <2> QED BY <1>1, <1>6, <2>1, <2>2, <2>3 DEF OnePlayerAccount
<1>11. ASSUME NEW d \in Callers, d # c, prov[d].at \in HasAccounts
       PROVE  prov[d].accounts = own /\ linked' = linked /\ linked # None
  <2>1. (prov[d].accounts = d /\ linked = None) \/ (prov[d].accounts = linked /\ linked # None)
    BY <1>11 DEF PInv, Linking
  <2>2. ~(prov[d].accounts = d /\ own = c)
    BY <1>11 DEF PInv, OneCreates
  <2> QED BY <1>1, <1>3, <2>1, <2>2
<1>12. Linking'
  <2> SUFFICES ASSUME NEW d \in Callers
               PROVE  /\ prov'[d].at \in HasAccounts \cup {"searched", "creating"} => linked' # d
                      /\ prov'[d].at \in HasAccounts =>
                           \/ prov'[d].accounts = d /\ linked' = None
                           \/ prov'[d].accounts = linked' /\ linked' # None
                      /\ prov'[d].at \notin HasAccounts => prov'[d].accounts = None
                      /\ prov'[d].at = "inserted" => player' = NoPlayer
    BY DEF Linking
  <2>1. CASE d = c
    BY <1>7, <1>8, <2>1 DEF HasAccounts
  <2>2. CASE d # c
    <3>1. prov'[d] = prov[d]
      BY <1>8, <2>2
    <3>2. linked' # d
      BY <1>1, <1>3, <1>4, <2>2
    <3>3. prov[d].at # "inserted"
      BY <1>1, <2>2 DEF PInv, OneCreates
    <3> QED BY <1>1, <1>11, <2>2, <3>1, <3>2, <3>3 DEF PInv, Linking
  <2> QED BY <2>1, <2>2
<1>13. OneCreates'
  BY <1>7, <1>8, ProvisioningAssumption DEF PInv, OneCreates
<1> QED BY <1>6, <1>9, <1>10, <1>12, <1>13 DEF PInv

LEMMA ProvisionStepKeeps ==
  ASSUME PInv, NEW c \in Callers, ProvisionStep(c)
  PROVE  PInv' /\ (player # NoPlayer => player' # NoPlayer)
<1>1. CASE Reload(c) \/ BreakProvision(c)
  BY <1>1, ProvEnds DEF Reload, BreakProvision
<1> QED BY <1>1, SearchKeeps, FindAccountsKeeps, InsertAccountsKeeps, SearchAgainKeeps,
           InsertPlayerKeeps, CommitPlayerKeeps DEF ProvisionStep

-----------------------------------------------------------------------------
(* Deliveries *)

Busy(r) == r.at \in {"noted", "locked", "accepted", "review", "replaying"}
Locking(r) == r.at \in {"locked", "accepted", "review", "replaying"}

\* The answer in r is of decision x.
Tells(r, x) ==
  /\ x.attestation = r.message.attestation /\ x.payload = r.answer.payload
  /\ r.answer.outcome \in {x.outcome, "duplicate"}
  /\ r.answer.issued <=> x.outcome = "accepted"

Decides(r) == r.answer.outcome \in {"accepted", "review"}

Addressed == \A d \in Callers : delivery[d].at # "new" => delivery[d].message \in Messages

\* A nonce and an attestation are in one transaction at a time.
Apart ==
  \A d, e \in Callers : d # e =>
    /\ Busy(delivery[d]) /\ Busy(delivery[e]) =>
         delivery[d].message.request # delivery[e].message.request
    /\ Locking(delivery[d]) /\ Locking(delivery[e]) =>
         delivery[d].message.attestation # delivery[e].message.attestation

\* Who was prepared, and so whoever is about to issue, has a player to issue to.
PreparedForPlayer ==
  \A d \in Callers : delivery[d].prepared \/ delivery[d].at = "accepted" => player # NoPlayer

\* Answers are of decisions on record, and one at most is that of the decider.
AnswersTold ==
  /\ \A d \in Callers :
       delivery[d].answer # NoAnswer => \E x \in consumed : Tells(delivery[d], x)
  /\ \A d, e \in Callers : d # e /\ Decides(delivery[d]) /\ Decides(delivery[e]) =>
       delivery[d].message.attestation # delivery[e].message.attestation

DeliveryInv ==
  /\ delivery \in [Callers -> DeliveryStates]
  /\ Addressed /\ Apart /\ PreparedForPlayer /\ AnswersTold

TablesOK ==
  /\ overdue \subseteq Attestations /\ frozen \in BOOLEAN
  /\ consumed \subseteq Consumptions
  /\ issued \subseteq Attestations /\ evidence \subseteq Attestations
  /\ nonces \subseteq Requests

FInv == PInv /\ TablesOK /\ DeliveryInv /\ DecidedOnce

LEMMA DeliveryTypes ==
  ASSUME FInv, NEW d \in Callers
  PROVE  /\ delivery[d] \in DeliveryStates
         /\ delivery[d].at # "new" => delivery[d].message \in Messages
         /\ NotArrived \in DeliveryStates
  BY DEF FInv, DeliveryInv, Addressed, DeliveryStates, NotArrived, Answers

\* A step that moves one delivery, and takes no decision and no player away.
LEMMA DeliveryMoves ==
  ASSUME FInv, NEW d \in Callers, NEW r \in DeliveryStates,
         delivery' = [delivery EXCEPT ![d] = r],
         consumed \subseteq consumed', player # NoPlayer => player' # NoPlayer,
         r.at # "new" => r.message \in Messages,
         Busy(r) => \A e \in Callers \ {d} : Busy(delivery[e]) =>
                      delivery[e].message.request # r.message.request,
         Locking(r) => \A e \in Callers \ {d} : Locking(delivery[e]) =>
                         delivery[e].message.attestation # r.message.attestation,
         r.prepared \/ r.at = "accepted" => player' # NoPlayer,
         r.answer # NoAnswer => \E x \in consumed' : Tells(r, x),
         Decides(r) => \/ Consumed(r.message.attestation) = {}
                       \/ Decides(delivery[d]) /\ r.message = delivery[d].message
  PROVE  DeliveryInv'
<1>1. delivery \in [Callers -> DeliveryStates]
  BY DEF FInv, DeliveryInv
<1>2. Addressed'
  BY <1>1 DEF FInv, DeliveryInv, Addressed
<1>3. Apart'
  BY <1>1 DEF FInv, DeliveryInv, Apart
<1>4. PreparedForPlayer'
  BY <1>1 DEF FInv, DeliveryInv, PreparedForPlayer
<1>5. AnswersTold'
  <2>1. \A e \in Callers : delivery'[e] = IF e = d THEN r ELSE delivery[e]
    BY <1>1
  <2>2. ASSUME NEW e \in Callers, delivery'[e].answer # NoAnswer
        PROVE  \E x \in consumed' : Tells(delivery'[e], x)
    BY <2>1, <2>2 DEF FInv, DeliveryInv, AnswersTold
  <2>3. ASSUME NEW e \in Callers \ {d}, Decides(r), Decides(delivery[e])
        PROVE  delivery[e].message.attestation # r.message.attestation
    <3>1. delivery[e].answer # NoAnswer
      BY <2>3 DEF Decides, NoAnswer
    <3> QED BY <2>3, <3>1 DEF FInv, DeliveryInv, AnswersTold, Tells, Consumed
  <2>4. ASSUME NEW e \in Callers, NEW g \in Callers, e # g,
               Decides(delivery'[e]), Decides(delivery'[g])
        PROVE  delivery'[e].message.attestation # delivery'[g].message.attestation
    BY <2>1, <2>3, <2>4 DEF FInv, DeliveryInv, AnswersTold
  <2> QED BY <2>2, <2>4 DEF AnswersTold, Tells, Decides
<1> QED BY <1>1, <1>2, <1>3, <1>4, <1>5 DEF DeliveryInv

\* What a transaction that goes on holds, it holds alone.
LEMMA StaysApart ==
  ASSUME FInv, NEW d \in Callers, NEW r, r.message = delivery[d].message
  PROVE  /\ Busy(delivery[d]) => \A e \in Callers \ {d} : Busy(delivery[e]) =>
                      delivery[e].message.request # r.message.request
         /\ Locking(delivery[d]) => \A e \in Callers \ {d} : Locking(delivery[e]) =>
                         delivery[e].message.attestation # r.message.attestation
  BY DEF FInv, DeliveryInv, Apart

\* What does not touch the tables keeps what is said of them.
LEMMA TablesStay ==
  ASSUME FInv, UNCHANGED <<overdue, frozen, Tables>>, player # NoPlayer => player' # NoPlayer
  PROVE  TablesOK' /\ DecidedOnce' /\ consumed \subseteq consumed'
<1>1. TablesOK'
  BY DEF FInv, TablesOK, Tables
<1>2. DecidedOnce'
  BY DEF FInv, DecidedOnce, Tables
<1> QED BY <1>1, <1>2 DEF Tables

\* The same for the part of a player whose provisioning stands still.
LEMMA ProvStays ==
  ASSUME FInv, UNCHANGED provisioning
  PROVE  PInv' /\ player' = player
  BY DEF FInv, PInv, provisioning, ProvisioningTypeOK, OnePlayerAccount, Linking, OneCreates

\* A delivery that ends, refused or with an answer that was decided.
LEMMA Ends ==
  ASSUME FInv, NEW d \in Callers, NEW at \in {"answered", "refused"}, NEW answer \in Answers,
         End(d, at, answer), delivery[d].at # "new",
         consumed \subseteq consumed', player # NoPlayer => player' # NoPlayer,
         NEW r, r = [NotArrived EXCEPT !.at = at, !.message = delivery[d].message,
                                       !.answer = answer],
         answer # NoAnswer => \E x \in consumed' : Tells(r, x),
         Decides(r) => Consumed(delivery[d].message.attestation) = {}
  PROVE  DeliveryInv'
<1>1. /\ r \in DeliveryStates /\ r.message = delivery[d].message /\ r.at = at
      /\ r.answer = answer /\ r.prepared = FALSE
  BY DeliveryTypes DEF DeliveryStates, NotArrived
<1>2. delivery' = [delivery EXCEPT ![d] = r]
  BY DEF End
<1>3. ~Busy(r) /\ ~Locking(r) /\ r.at # "accepted"
  BY <1>1 DEF Busy, Locking
<1>4. r.message \in Messages
  BY <1>1, DeliveryTypes
<1> QED BY <1>1, <1>2, <1>3, <1>4, DeliveryMoves

LEMMA Refuses ==
  ASSUME FInv, NEW d \in Callers, Refuse(d), delivery[d].at # "new",
         consumed \subseteq consumed', player # NoPlayer => player' # NoPlayer
  PROVE  DeliveryInv'
<1> DEFINE r == [NotArrived EXCEPT !.at = "refused", !.message = delivery[d].message,
                                   !.answer = NoAnswer]
<1>1. NoAnswer \in Answers /\ ~Decides(r)
  BY DEF Answers, Decides, NotArrived, NoAnswer
<1> QED BY <1>1, Ends DEF Refuse

LEMMA ReceiveKeeps ==
  ASSUME FInv, NEW d \in Callers, NEW m \in Messages, Receive(d, m)
  PROVE  FInv'
<1> DEFINE r == [NotArrived EXCEPT !.at = "received", !.message = m]
<1>1. /\ r \in DeliveryStates /\ r.message = m /\ r.at = "received"
      /\ r.answer = NoAnswer /\ r.prepared = FALSE
  BY DeliveryTypes DEF DeliveryStates, NotArrived
<1>2. /\ delivery' = [delivery EXCEPT ![d] = r] /\ Go(d, NotCalled)
      /\ UNCHANGED <<linked, player, overdue, frozen, Tables>>
  BY DEF Receive
<1> HIDE DEF r
<1>3. ~Busy(r) /\ ~Locking(r) /\ ~Decides(r)
  BY <1>1 DEF Busy, Locking, Decides, NoAnswer
<1>4. PInv'
  BY <1>2, ProvEnds DEF FInv
<1> QED BY <1>1, <1>2, <1>3, <1>4, TablesStay, DeliveryMoves DEF FInv

\* A delivery that has not begun its transaction goes on.
LEMMA PreparesOn ==
  ASSUME FInv, NEW d \in Callers, NEW r \in DeliveryStates,
         delivery' = [delivery EXCEPT ![d] = r],
         UNCHANGED <<player, overdue, frozen, Tables>>, PInv',
         r.at \in {"unknown", "provisioning", "prepared"}, delivery[d].at # "new",
         r.message = delivery[d].message, r.answer = delivery[d].answer,
         r.prepared => delivery[d].prepared \/ player # NoPlayer
  PROVE  FInv'
<1>1. ~Busy(r) /\ ~Locking(r) /\ r.at # "accepted"
  BY DEF Busy, Locking
<1>2. r.message \in Messages
  BY DeliveryTypes
<1>3. r.prepared => player' # NoPlayer
  BY DEF FInv, DeliveryInv, PreparedForPlayer
<1>4. /\ r.answer # NoAnswer => \E x \in consumed' : Tells(r, x)
      /\ Decides(r) => Decides(delivery[d])
  BY DEF FInv, DeliveryInv, AnswersTold, Tells, Decides, Tables
<1> QED BY <1>1, <1>2, <1>3, <1>4, TablesStay, DeliveryMoves DEF FInv

LEMMA LookUpKeeps ==
  ASSUME FInv, NEW d \in Callers, LookUp(d)
  PROVE  FInv'
<1>1. PICK at \in {"prepared", "unknown"} : Enter(d, at)
  BY DEF LookUp
<1> DEFINE r == [delivery[d] EXCEPT !.at = at]
<1>2. /\ r \in DeliveryStates /\ r.message = delivery[d].message /\ r.at = at
      /\ r.answer = delivery[d].answer /\ r.prepared = delivery[d].prepared
  BY DeliveryTypes DEF DeliveryStates
<1>3. delivery' = [delivery EXCEPT ![d] = r]
  BY <1>1 DEF Enter
<1> HIDE DEF r
<1>4. UNCHANGED <<provisioning, overdue, frozen, Tables>> /\ delivery[d].at = "received"
  BY DEF LookUp
<1> QED BY <1>2, <1>3, <1>4, ProvStays, PreparesOn

LEMMA PrepareKeeps ==
  ASSUME FInv, NEW d \in Callers, Prepare(d)
  PROVE  FInv'
<1>1. PICK at \in {"prepared", "provisioning"} : Enter(d, at)
  BY DEF Prepare
<1> DEFINE r == [delivery[d] EXCEPT !.at = at]
<1>2. /\ r \in DeliveryStates /\ r.message = delivery[d].message /\ r.at = at
      /\ r.answer = delivery[d].answer /\ r.prepared = delivery[d].prepared
  BY DeliveryTypes DEF DeliveryStates
<1>3. delivery' = [delivery EXCEPT ![d] = r]
  BY <1>1 DEF Enter
<1> HIDE DEF r
<1>4. UNCHANGED <<linked, player, overdue, frozen, Tables>> /\ delivery[d].at = "unknown"
  BY DEF Prepare
<1>5. CASE UNCHANGED prov
  BY <1>2, <1>3, <1>4, <1>5, ProvStays, PreparesOn DEF provisioning
<1>6. CASE Go(d, [NotCalled EXCEPT !.at = "begun"])
  <2>1. PInv'
    BY <1>4, <1>6, ProvEnds DEF FInv
  <2> QED BY <1>2, <1>3, <1>4, <2>1, PreparesOn
<1> QED BY <1>5, <1>6 DEF Prepare

LEMMA ProvisionKeeps ==
  ASSUME FInv, NEW d \in Callers, Provision(d)
  PROVE  FInv'
<1>1. PInv' /\ (player # NoPlayer => player' # NoPlayer)
  BY ProvisionStepKeeps DEF Provision, FInv
<1>2. UNCHANGED <<overdue, frozen, Tables, delivery>>
  BY DEF Provision
<1>3. DeliveryInv'
  BY <1>1, <1>2 DEF FInv, DeliveryInv, Addressed, Apart, PreparedForPlayer, AnswersTold, Tables
<1> QED BY <1>1, <1>2, <1>3, TablesStay DEF FInv

LEMMA AuthoriseKeeps ==
  ASSUME FInv, NEW d \in Callers, Authorise(d)
  PROVE  FInv'
<1>1. UNCHANGED <<provisioning, overdue, frozen, Tables>> /\ delivery[d].at = "provisioning"
  BY DEF Authorise
<1>2. CASE Refuse(d)
  BY <1>1, <1>2, ProvStays, TablesStay, Refuses DEF FInv
<1>3. CASE prov[d].at = "done" /\
           delivery' = [delivery EXCEPT ![d].at = "prepared", ![d].prepared = TRUE]
  <2> DEFINE r == [delivery[d] EXCEPT !.at = "prepared", !.prepared = TRUE]
  <2>1. /\ r \in DeliveryStates /\ r.message = delivery[d].message /\ r.at = "prepared"
        /\ r.answer = delivery[d].answer
    BY DeliveryTypes DEF DeliveryStates
  <2>2. delivery' = [delivery EXCEPT ![d] = r]
    BY <1>3 DEF FInv, DeliveryInv
  <2> HIDE DEF r
  <2>3. player # NoPlayer
    BY <1>3 DEF FInv, PInv, OnePlayerAccount
  <2> QED BY <1>1, <2>1, <2>2, <2>3, ProvStays, PreparesOn
<1> QED BY <1>2, <1>3 DEF Authorise

\* A step of a delivery within its transaction.
LEMMA TransactionGoesOn ==
  ASSUME FInv, NEW d \in Callers,
         NEW at \in {"noted", "locked", "accepted", "review", "replaying"}, Enter(d, at),
         UNCHANGED <<provisioning, overdue, frozen, Tables>>, delivery[d].at # "new",
         Busy(delivery[d]) \/ \A e \in Callers \ {d} : Busy(delivery[e]) =>
                      delivery[e].message.request # delivery[d].message.request,
         at # "noted" => Locking(delivery[d]) \/
           \A e \in Callers \ {d} : Locking(delivery[e]) =>
             delivery[e].message.attestation # delivery[d].message.attestation,
         at = "accepted" => delivery[d].prepared
  PROVE  FInv'
<1> DEFINE r == [delivery[d] EXCEPT !.at = at]
<1>1. /\ r \in DeliveryStates /\ r.message = delivery[d].message /\ r.at = at
      /\ r.answer = delivery[d].answer /\ r.prepared = delivery[d].prepared
  BY DeliveryTypes DEF DeliveryStates
<1>2. delivery' = [delivery EXCEPT ![d] = r]
  BY DEF Enter
<1> HIDE DEF r
<1>3. r.message \in Messages
  BY <1>1, DeliveryTypes
<1>4. Busy(r) => \A e \in Callers \ {d} : Busy(delivery[e]) =>
                      delivery[e].message.request # r.message.request
  BY <1>1, StaysApart
<1>5. Locking(r) => \A e \in Callers \ {d} : Locking(delivery[e]) =>
                         delivery[e].message.attestation # r.message.attestation
  BY <1>1, StaysApart DEF Locking
<1>6. r.prepared \/ r.at = "accepted" => player' # NoPlayer
  BY <1>1, ProvStays DEF FInv, DeliveryInv, PreparedForPlayer
<1>7. /\ r.answer # NoAnswer => \E x \in consumed' : Tells(r, x)
      /\ Decides(r) => Decides(delivery[d])
  BY <1>1 DEF FInv, DeliveryInv, AnswersTold, Tells, Decides, Tables
<1> QED BY <1>1, <1>2, <1>3, <1>4, <1>5, <1>6, <1>7, ProvStays, TablesStay, DeliveryMoves
        DEF FInv

LEMMA RecordNonceKeeps ==
  ASSUME FInv, NEW d \in Callers, RecordNonce(d)
  PROVE  FInv'
<1>1. /\ UNCHANGED <<provisioning, overdue, frozen, Tables>> /\ delivery[d].at = "prepared"
      /\ \A e \in Callers : Busy(delivery[e]) =>
           delivery[e].message.request # delivery[d].message.request
  BY DEF RecordNonce, InTransaction, Busy
<1>2. CASE Refuse(d)
  BY <1>1, <1>2, ProvStays, TablesStay, Refuses DEF FInv
<1>3. CASE Enter(d, "noted")
  BY <1>1, <1>3, TransactionGoesOn
<1> QED BY <1>2, <1>3 DEF RecordNonce

LEMMA LockKeeps ==
  ASSUME FInv, NEW d \in Callers, Lock(d)
  PROVE  FInv'
<1>1. /\ UNCHANGED <<provisioning, overdue, frozen, Tables>> /\ Enter(d, "locked")
      /\ delivery[d].at = "noted" /\ Busy(delivery[d])
      /\ \A e \in Callers : Locking(delivery[e]) =>
           delivery[e].message.attestation # delivery[d].message.attestation
  BY DEF Lock, Holds, Locking, Busy
<1> QED BY <1>1, TransactionGoesOn

LEMMA CheckKeeps ==
  ASSUME FInv, NEW d \in Callers, Check(d)
  PROVE  FInv'
<1>1. /\ UNCHANGED <<provisioning, overdue, frozen, Tables>> /\ delivery[d].at = "locked"
      /\ Busy(delivery[d]) /\ Locking(delivery[d])
  BY DEF Check, Locking, Busy
<1>2. CASE Refuse(d)
  BY <1>1, <1>2, ProvStays, TablesStay, Refuses DEF FInv
<1>3. CASE Enter(d, "replaying") \/ Enter(d, "review")
  BY <1>1, <1>3, TransactionGoesOn
<1>4. CASE delivery[d].prepared /\ Enter(d, "accepted")
  BY <1>1, <1>4, TransactionGoesOn
<1> QED BY <1>2, <1>3, <1>4 DEF Check

LEMMA CommitReplayKeeps ==
  ASSUME FInv, NEW d \in Callers, CommitReplay(d)
  PROVE  FInv'
<1>1. PICK x \in Consumed(delivery[d].message.attestation) : Replay(d, x)
  BY DEF CommitReplay
<1>2. /\ UNCHANGED <<provisioning, overdue, frozen, consumed, issued, evidence>>
      /\ delivery[d].at = "replaying" /\ delivery[d].message \in Messages
  BY DeliveryTypes DEF CommitReplay
<1>3. nonces' \subseteq nonces \cup {delivery[d].message.request}
  BY DEF CommitReplay
<1>4. PInv' /\ player' = player
  BY <1>2, ProvStays
<1>5. TablesOK'
  BY <1>2, <1>3 DEF FInv, TablesOK, Messages
<1>6. DecidedOnce'
  BY <1>2, <1>4 DEF FInv, DecidedOnce
<1>7. CASE Refuse(d)
  BY <1>2, <1>4, <1>5, <1>6, <1>7, Refuses DEF FInv
<1> DEFINE answer == [outcome |-> "duplicate", payload |-> x.payload,
                      issued |-> x.outcome = "accepted"]
           r == [NotArrived EXCEPT !.at = "answered", !.message = delivery[d].message,
                                   !.answer = answer]
<1>8. CASE End(d, "answered", answer)
  <2>1. x \in consumed /\ x \in Consumptions /\ x.attestation = delivery[d].message.attestation
    BY DEF Consumed, FInv, TablesOK
  <2>2. answer \in Answers
    BY <2>1 DEF Consumptions, Answers
  <2>3. Tells(r, x) /\ ~Decides(r)
    BY <2>1 DEF Tells, Decides, NotArrived
  <2> HIDE DEF answer
  <2>4. DeliveryInv'
    BY <1>2, <1>4, <1>8, <2>1, <2>2, <2>3, Ends
  <2> QED BY <1>4, <1>5, <1>6, <2>4 DEF FInv
<1> QED BY <1>1, <1>7, <1>8 DEF Replay

\* The one step that decides: its payment and its intent are new.
LEMMA CommitDecisionKeeps ==
  ASSUME FInv, NEW d \in Callers, CommitDecision(d)
  PROVE  FInv'
<1> DEFINE m == delivery[d].message
           outcome == delivery[d].at
           x == [attestation |-> m.attestation, payload |-> m.payload, outcome |-> outcome]
           answer == [outcome |-> outcome, payload |-> m.payload,
                      issued |-> outcome = "accepted"]
           r == [NotArrived EXCEPT !.at = "answered", !.message = delivery[d].message,
                                   !.answer = answer]
<1>1. /\ UNCHANGED <<provisioning, overdue, frozen>>
      /\ delivery[d].at \in {"accepted", "review"} /\ m \in Messages
  BY DeliveryTypes DEF CommitDecision
<1>2. PInv' /\ player' = player
  BY <1>1, ProvStays
<1>3. CASE Refuse(d) /\ UNCHANGED Tables
  BY <1>1, <1>2, <1>3, TablesStay, Refuses DEF FInv
<1>4. CASE /\ ~UniqueViolation(m.attestation)
           /\ consumed' = consumed \cup {x}
           /\ issued' = IF outcome = "accepted" THEN issued \cup {m.attestation} ELSE issued
           /\ evidence' = evidence \cup {m.attestation}
           /\ nonces' = nonces \cup {m.request}
           /\ End(d, "answered", answer)
  <2>1. /\ x \in Consumptions /\ x.attestation = m.attestation /\ x.payload = m.payload
        /\ x.outcome = outcome /\ x.attestation \in Attestations /\ m.request \in Requests
    BY <1>1 DEF Messages, Consumptions
  <2>2. \A y \in consumed : /\ SourceOf[y.attestation] # SourceOf[x.attestation]
                            /\ IntentOf[y.attestation] # IntentOf[x.attestation]
    BY <1>4, <2>1 DEF UniqueViolation, TakenSource, TakenIntent
  <2>3. outcome = "accepted" => player # NoPlayer
    BY DEF FInv, DeliveryInv, PreparedForPlayer
  <2>4. answer \in Answers
    BY <1>1, <2>1 DEF Answers, Messages
  <2>5. Tells(r, x) /\ x \in consumed' /\ Consumed(m.attestation) = {}
    BY <1>1, <1>4, <2>1, <2>2 DEF Tells, NotArrived, Consumed
  <2>6. consumed \subseteq consumed' /\ delivery[d].at # "new"
    BY <1>1, <1>4
  <2> HIDE DEF answer
  <2>7. DeliveryInv'
    BY <1>2, <1>4, <2>4, <2>5, <2>6, Ends
  <2> HIDE DEF m, outcome, x
  <2>8. TablesOK'
    BY <1>1, <1>4, <2>1 DEF FInv, TablesOK
  <2>9. \A y, z \in consumed' :
          y # z => /\ y.attestation # z.attestation
                   /\ SourceOf[y.attestation] # SourceOf[z.attestation]
                   /\ IntentOf[y.attestation] # IntentOf[z.attestation]
    BY <1>4, <2>2 DEF FInv, DecidedOnce
  <2>10. issued' = {z.attestation : z \in {y \in consumed' : y.outcome = "accepted"}}
    <3>1. issued = {z.attestation : z \in {y \in consumed : y.outcome = "accepted"}}
      BY DEF FInv, DecidedOnce
    <3> QED BY <1>4, <2>1, <3>1
  <2>11. evidence' = {z.attestation : z \in consumed'}
    <3>1. evidence = {z.attestation : z \in consumed}
      BY DEF FInv, DecidedOnce
    <3> QED BY <1>4, <2>1, <3>1
  <2>12. issued' # {} => player' # NoPlayer
    BY <1>2, <1>4, <2>3 DEF FInv, DecidedOnce
  <2>13. DecidedOnce'
    BY <2>9, <2>10, <2>11, <2>12 DEF DecidedOnce
  <2> QED BY <1>2, <2>7, <2>8, <2>13 DEF FInv
<1> QED BY <1>3, <1>4 DEF CommitDecision

LEMMA BreakKeeps ==
  ASSUME FInv, NEW d \in Callers, Break(d)
  PROVE  FInv'
<1>1. UNCHANGED <<provisioning, overdue, frozen, Tables>> /\ delivery[d].at # "new"
  BY DEF Break, InTransaction
<1> QED BY <1>1, ProvStays, TablesStay, Refuses DEF Break, FInv

LEMMA AroundKeeps ==
  ASSUME FInv, (\E a \in Attestations : PassDeadline(a)) \/ SwitchFreeze
  PROVE  FInv'
<1>1. /\ UNCHANGED <<provisioning, Tables, delivery>>
      /\ overdue' \subseteq Attestations /\ frozen' \in BOOLEAN
  BY DEF PassDeadline, SwitchFreeze, FInv, TablesOK
<1>2. PInv' /\ player' = player
  BY <1>1, ProvStays
<1>3. TablesOK' /\ DecidedOnce'
  BY <1>1, <1>2 DEF FInv, TablesOK, DecidedOnce, Tables
<1>4. DeliveryInv'
  BY <1>1, <1>2 DEF FInv, DeliveryInv, Addressed, Apart, PreparedForPlayer, AnswersTold, Tables
<1> QED BY <1>2, <1>3, <1>4 DEF FInv

-----------------------------------------------------------------------------
(* The theorems *)

LEMMA FInvInit == Init => FInv
<1> SUFFICES ASSUME Init PROVE FInv
  OBVIOUS
<1>1. PInv
  <2>1. \A c \in Callers : prov[c] = NotCalled /\ linked # c
    BY ProvisioningAssumption DEF Init, InitProvisioning
  <2>2. /\ NotCalled \in ProvStates /\ NotCalled.at = "idle" /\ NotCalled.accounts = None
    BY DEF ProvStates, NotCalled, Players
  <2>3. ProvisioningTypeOK
    BY <2>2 DEF Init, InitProvisioning, ProvisioningTypeOK, Accounts, Players
  <2>4. OnePlayerAccount
    BY <2>1, <2>2, ProvisioningAssumption DEF Init, InitProvisioning, OnePlayerAccount
  <2> QED BY <2>1, <2>2, <2>3, <2>4, ProvisioningAssumption DEF PInv, Linking, OneCreates, HasAccounts
<1>2. /\ NotArrived \in DeliveryStates /\ NotArrived.at = "new"
      /\ NotArrived.prepared = FALSE /\ NotArrived.answer = NoAnswer
  BY DEF DeliveryStates, NotArrived, Answers
<1>3. DeliveryInv
  BY <1>2 DEF Init, DeliveryInv, Addressed, Apart, Busy, Locking, PreparedForPlayer, AnswersTold,
             Decides, NoAnswer
<1>4. TablesOK /\ DecidedOnce
  BY DEF Init, TablesOK, DecidedOnce
<1> QED BY <1>1, <1>3, <1>4 DEF FInv

LEMMA FInvStep == FInv /\ [Next]_vars => FInv'
<1> SUFFICES ASSUME FInv, [Next]_vars PROVE FInv'
  OBVIOUS
<1>1. ASSUME NEW d \in Callers, DeliveryStep(d) PROVE FInv'
  BY <1>1, ReceiveKeeps, LookUpKeeps, PrepareKeeps, ProvisionKeeps, AuthoriseKeeps,
     RecordNonceKeeps, LockKeeps, CheckKeeps, CommitReplayKeeps, CommitDecisionKeeps,
     BreakKeeps DEF DeliveryStep
<1>2. CASE (\E a \in Attestations : PassDeadline(a)) \/ SwitchFreeze
  BY <1>2, AroundKeeps
<1>3. CASE UNCHANGED vars
  <2>1. UNCHANGED <<provisioning, overdue, frozen, Tables>> /\ delivery' = delivery
    BY <1>3 DEF vars
  <2>2. DeliveryInv'
    BY <2>1, ProvStays
       DEF FInv, DeliveryInv, Addressed, Apart, PreparedForPlayer, AnswersTold, Tables
  <2> QED BY <2>1, <2>2, ProvStays, TablesStay DEF FInv
<1> QED BY <1>1, <1>2, <1>3 DEF Next

\* The invariant of attestations and provisioning.
THEOREM FInvHolds == Spec => []FInv
<1> QED BY FInvInit, FInvStep, PTL DEF Spec

\* The tables, deliveries and callers keep their types, and a request and an
\* attestation are in one transaction at a time.
THEOREM AttestationsTyped == Spec => []TypeOK
<1>1. FInv => TypeOK
  <2> SUFFICES ASSUME FInv PROVE TypeOK
    OBVIOUS
  <2>1. ProvisioningTypeOK /\ TablesOK /\ delivery \in [Callers -> DeliveryStates]
    BY DEF FInv, PInv, DeliveryInv
  <2>2. ASSUME NEW d \in Callers, NEW e \in Callers, d # e,
               InTransaction(d), InTransaction(e)
        PROVE  delivery[d].message.request # delivery[e].message.request
    BY <2>2 DEF FInv, DeliveryInv, Apart, InTransaction, Busy
  <2>3. ASSUME NEW d \in Callers, NEW e \in Callers, d # e,
               Holds(d, delivery[e].message.attestation)
        PROVE  ~Holds(e, delivery[e].message.attestation)
    BY <2>3 DEF FInv, DeliveryInv, Apart, Holds, Locking
  <2> QED BY <2>1, <2>2, <2>3 DEF TypeOK, TablesOK
<1> QED BY <1>1, FInvHolds, PTL

\* A player has one player account, with the ledger accounts that are there,
\* however many first uses overlap and break off.
THEOREM OnePlayerAccountHolds == Spec => []OnePlayerAccount
<1>1. FInv => OnePlayerAccount
  BY DEF FInv, PInv
<1> QED BY <1>1, FInvHolds, PTL

\* Payments and intents are decided once, for what is accepted NINES are issued,
\* and every decision has its evidence.
THEOREM AttestationsDecidedOnce == Spec => []DecidedOnce
<1>1. FInv => DecidedOnce
  BY DEF FInv
<1> QED BY <1>1, FInvHolds, PTL

\* However deliveries of an attestation overlap, one at most is answered with its
\* decision, the others with a duplicate of it, and all are told what was issued.
THEOREM AnswersStandHolds == Spec => []AnswersStand
<1>1. ASSUME FInv
      PROVE  AnswersStand
  <2>1. ASSUME NEW d \in Callers, delivery[d].answer # NoAnswer
        PROVE  LET a == delivery[d].message.attestation
                   answer == delivery[d].answer
               IN  /\ \E x \in Consumed(a) :
                        x.payload = answer.payload /\ answer.outcome \in {x.outcome, "duplicate"}
                   /\ answer.issued <=> a \in issued
    <3>1. PICK x \in consumed : Tells(delivery[d], x)
      BY <1>1, <2>1 DEF FInv, DeliveryInv, AnswersTold
    <3>2. x.attestation \in issued <=> x.outcome = "accepted"
      BY <1>1 DEF FInv, DecidedOnce
    <3> QED BY <3>1, <3>2 DEF Tells, Consumed
  <2>2. \A d, e \in Deciders :
          d # e => delivery[d].message.attestation # delivery[e].message.attestation
    BY <1>1 DEF FInv, DeliveryInv, AnswersTold, Deciders, Decides
  <2> QED BY <2>1, <2>2 DEF AnswersStand
<1> QED BY <1>1, FInvHolds, PTL

\* A step in which no delivery comes to be about to issue, and nothing is issued
\* but what a delivery was about to.
LEMMA NoNewAcceptance ==
  ASSUME FInv, NEW d \in Callers, NEW r, delivery' = [delivery EXCEPT ![d] = r],
         r.at # "accepted" \/ r.message.attestation \notin overdue,
         overdue \subseteq overdue',
         issued' \subseteq issued \cup
           {delivery[e].message.attestation : e \in {f \in Callers : delivery[f].at = "accepted"}}
  PROVE  \A a \in Attestations : Late(a) => Late(a)'
<1> SUFFICES ASSUME NEW a \in Attestations, Late(a) PROVE Late(a)'
  OBVIOUS
<1>1. delivery \in [Callers -> DeliveryStates]
  BY DEF FInv, DeliveryInv
<1>2. a \in overdue' /\ a \notin issued'
  BY DEF Late
<1>3. ASSUME NEW e \in Callers, delivery'[e].at = "accepted"
      PROVE  delivery'[e].message.attestation # a
  BY <1>1, <1>3 DEF Late
<1> QED BY <1>2, <1>3 DEF Late

LEMMA LateStepStays ==
  ASSUME FInv, NEW d \in Callers, DeliveryStep(d)
  PROVE  \A a \in Attestations : Late(a) => Late(a)'
<1>1. ASSUME NEW r, delivery' = [delivery EXCEPT ![d] = r], r.at # "accepted",
             UNCHANGED <<overdue, issued>>
      PROVE  \A a \in Attestations : Late(a) => Late(a)'
  BY <1>1, NoNewAcceptance
<1>2. ASSUME NEW at, Enter(d, at), at # "accepted", UNCHANGED <<overdue, Tables>>
      PROVE  \A a \in Attestations : Late(a) => Late(a)'
  <2> DEFINE r == [delivery[d] EXCEPT !.at = at]
  <2>1. r.at = at /\ delivery' = [delivery EXCEPT ![d] = r]
    BY <1>2, DeliveryTypes DEF Enter, DeliveryStates
  <2> HIDE DEF r
  <2> QED BY <1>1, <1>2, <2>1 DEF Tables
<1>3. ASSUME NEW at, NEW answer, End(d, at, answer), at # "accepted"
      PROVE  \E r : delivery' = [delivery EXCEPT ![d] = r] /\ r.at # "accepted"
  <2> DEFINE r == [NotArrived EXCEPT !.at = at, !.message = delivery[d].message,
                                     !.answer = answer]
  <2>1. r.at = at /\ delivery' = [delivery EXCEPT ![d] = r]
    BY <1>3 DEF End, NotArrived
  <2> HIDE DEF r
  <2> QED BY <1>3, <2>1
<1>4. ASSUME Refuse(d), UNCHANGED <<overdue, issued>>
      PROVE  \A a \in Attestations : Late(a) => Late(a)'
  BY <1>1, <1>3, <1>4 DEF Refuse
<1>5. CASE \E m \in Messages : Receive(d, m)
  <2>1. PICK m \in Messages : Receive(d, m)
    BY <1>5
  <2> DEFINE r == [NotArrived EXCEPT !.at = "received", !.message = m]
  <2>2. r.at = "received" /\ delivery' = [delivery EXCEPT ![d] = r]
    BY <2>1 DEF Receive, NotArrived
  <2> HIDE DEF r
  <2> QED BY <1>1, <2>1, <2>2 DEF Receive, Tables
<1>6. CASE LookUp(d) \/ Prepare(d)
  BY <1>2, <1>6 DEF LookUp, Prepare
<1>7. CASE Provision(d)
  BY <1>7 DEF Provision, Late, Tables
<1>8. CASE Authorise(d)
  <2>1. CASE Refuse(d)
    BY <1>4, <1>8, <2>1 DEF Authorise, Tables
  <2>2. CASE delivery' = [delivery EXCEPT ![d].at = "prepared", ![d].prepared = TRUE]
    <3> DEFINE r == [delivery[d] EXCEPT !.at = "prepared", !.prepared = TRUE]
    <3>1. r.at = "prepared" /\ delivery' = [delivery EXCEPT ![d] = r]
      BY <2>2, DeliveryTypes DEF DeliveryStates, FInv, DeliveryInv
    <3> HIDE DEF r
    <3> QED BY <1>1, <1>8, <3>1 DEF Authorise, Tables
  <2> QED BY <1>8, <2>1, <2>2 DEF Authorise
<1>9. CASE RecordNonce(d) \/ Lock(d)
  BY <1>2, <1>4, <1>9 DEF RecordNonce, Lock, Tables
<1>10. CASE Check(d)
  <2>1. UNCHANGED <<overdue, Tables>>
    BY <1>10 DEF Check
  <2>2. CASE Refuse(d)
    BY <1>4, <2>1, <2>2 DEF Tables
  <2>3. CASE Enter(d, "replaying") \/ Enter(d, "review")
    BY <1>2, <2>1, <2>3
  <2>4. CASE delivery[d].message.attestation \notin overdue /\ Enter(d, "accepted")
    <3> DEFINE r == [delivery[d] EXCEPT !.at = "accepted"]
    <3>1. /\ delivery' = [delivery EXCEPT ![d] = r]
          /\ r.message = delivery[d].message
      BY <2>4, DeliveryTypes DEF Enter, DeliveryStates
    <3> HIDE DEF r
    <3> QED BY <2>1, <2>4, <3>1, NoNewAcceptance DEF Tables
  <2> QED BY <1>10, <2>2, <2>3, <2>4 DEF Check
<1>11. CASE CommitReplay(d)
  <2>1. UNCHANGED <<overdue, issued>>
    BY <1>11 DEF CommitReplay
  <2>2. \E r : delivery' = [delivery EXCEPT ![d] = r] /\ r.at # "accepted"
    BY <1>3, <1>11 DEF CommitReplay, Replay, Refuse
  <2> QED BY <1>1, <2>1, <2>2
<1>12. CASE CommitDecision(d)
  <2>1. \E r : delivery' = [delivery EXCEPT ![d] = r] /\ r.at # "accepted"
    BY <1>3, <1>12 DEF CommitDecision, Refuse
  <2>2. /\ overdue' = overdue
        /\ issued' \subseteq issued \cup
             {delivery[e].message.attestation : e \in {f \in Callers : delivery[f].at = "accepted"}}
    BY <1>12 DEF CommitDecision, Tables
  <2> QED BY <2>1, <2>2, NoNewAcceptance
<1>13. CASE Break(d)
  BY <1>4, <1>13 DEF Break, Tables
<1> QED BY <1>5, <1>6, <1>7, <1>8, <1>9, <1>10, <1>11, <1>12, <1>13 DEF DeliveryStep

\* What is late and not about to be issued is never issued automatically.
THEOREM LateIsNotIssued == Spec => LateStaysLate
<1> DEFINE Stays == \A a \in Attestations : Late(a) => Late(a)'
<1>1. FInv /\ [Next]_vars => [Stays]_vars
  <2> SUFFICES ASSUME FInv, Next PROVE Stays
    OBVIOUS
  <2>1. CASE \E d \in Callers : DeliveryStep(d)
    BY <2>1, LateStepStays
  <2>2. CASE (\E a \in Attestations : PassDeadline(a)) \/ SwitchFreeze
    BY <2>2 DEF PassDeadline, SwitchFreeze, Late, Tables
  <2> QED BY <2>1, <2>2 DEF Next
<1> QED BY <1>1, FInvHolds, PTL DEF Spec, LateStaysLate
=============================================================================
