------------------------------ MODULE Provisioning ------------------------------
(***************************************************************************)
(* The first use of a player: provisionIfNeeded finds his player account,  *)
(* or creates it with its linked ledger accounts, in one transaction       *)
(* (PlayerAccountProvisioningService, AccountingAccountAdapter).           *)
(*                                                                         *)
(* Queries see what is committed.  The insert of a row that another        *)
(* transaction has inserted waits for that one to end, and then violates   *)
(* the unique index if the row is there.  The two linked accounts are      *)
(* created together and taken as one.                                      *)
(***************************************************************************)
EXTENDS Naturals

CONSTANTS
  Callers,  \* those who may use the player for the first time
  Earlier,  \* ledger accounts that were there before the player account
  None      \* no account, no row

ASSUME ProvisioningAssumption == Earlier \notin Callers /\ None \notin Callers /\ Earlier # None

VARIABLES
  linked,  \* accounts: who created the ledger accounts of the player
  player,  \* player_accounts: who created the row, and its ledger accounts
  prov     \* what each caller is doing

provisioning == <<linked, player, prov>>

Accounts == Callers \cup {Earlier}
NoPlayer == [by |-> None, accounts |-> None]
Players == [by: Callers, accounts: Accounts] \cup {NoPlayer}

NotCalled == [at |-> "idle", accounts |-> None, got |-> NoPlayer]

ProvStates ==
  [at: {"idle", "begun", "searched", "creating", "linked", "checked", "inserted",
        "reload", "done", "failed"},
   accounts: Accounts \cup {None}, got: Players]

InitProvisioning ==
  /\ linked \in {None, Earlier}
  /\ player = NoPlayer
  /\ prov = [c \in Callers |-> NotCalled]

Go(c, x) == prov' = [prov EXCEPT ![c] = x]

Return(c, p) == Go(c, [NotCalled EXCEPT !.at = "done", !.got = p])

Stop(c) == Go(c, [NotCalled EXCEPT !.at = "failed"])

\* It looks for the player account.
Search(c) ==
  /\ prov[c].at = "begun"
  /\ IF player # NoPlayer THEN Return(c, player) ELSE Go(c, [prov[c] EXCEPT !.at = "searched"])
  /\ UNCHANGED <<linked, player>>

\* findOrCreateUserAccount looks for the ledger accounts, ...
FindAccounts(c) ==
  /\ prov[c].at = "searched"
  /\ IF linked # None
     THEN Go(c, [prov[c] EXCEPT !.at = "linked", !.accounts = linked])
     ELSE Go(c, [prov[c] EXCEPT !.at = "creating"])
  /\ UNCHANGED <<linked, player>>

\* ... and inserts them.  If another was faster the insert fails, and with it
\* the transaction: the query that should find the other's account fails too.
InsertAccounts(c) ==
  /\ prov[c].at = "creating"
  /\ \A d \in Callers : prov[d].accounts # d
  /\ IF linked # None THEN Stop(c)
     ELSE Go(c, [prov[c] EXCEPT !.at = "linked", !.accounts = c])
  /\ UNCHANGED <<linked, player>>

\* It looks again: a player account that came up meanwhile must have the same
\* ledger accounts.
SearchAgain(c) ==
  /\ prov[c].at = "linked"
  /\ \/ player = NoPlayer /\ Go(c, [prov[c] EXCEPT !.at = "checked"])
     \/ player # NoPlayer /\ player.accounts = prov[c].accounts /\ Return(c, player)
     \/ player # NoPlayer /\ player.accounts # prov[c].accounts /\ Stop(c)
  /\ UNCHANGED <<linked, player>>

InsertPlayer_NoIndex(c) ==
  /\ prov[c].at = "checked"
  /\ Go(c, [prov[c] EXCEPT !.at = "inserted"])
  /\ UNCHANGED <<linked, player>>

\* It inserts the player account.  If another was faster the transaction is
\* rolled back and the player account is read again.
InsertPlayer(c) ==
  /\ prov[c].at = "checked"
  /\ \A d \in Callers : prov[d].at # "inserted"
  /\ IF player # NoPlayer THEN Go(c, [NotCalled EXCEPT !.at = "reload"])
     ELSE Go(c, [prov[c] EXCEPT !.at = "inserted"])
  /\ UNCHANGED <<linked, player>>

CommitPlayer(c) ==
  /\ prov[c].at = "inserted"
  /\ linked' = prov[c].accounts
  /\ player' = [by |-> c, accounts |-> prov[c].accounts]
  /\ Return(c, player')

Reload(c) ==
  /\ prov[c].at = "reload"
  /\ IF player # NoPlayer THEN Return(c, player) ELSE Stop(c)
  /\ UNCHANGED <<linked, player>>

\* The connection is lost: the transaction is rolled back.
BreakProvision(c) ==
  /\ prov[c].at \notin {"idle", "done", "failed"}
  /\ Stop(c)
  /\ UNCHANGED <<linked, player>>

ProvisionStep(c) ==
  \/ Search(c) \/ FindAccounts(c) \/ InsertAccounts(c) \/ SearchAgain(c)
  \/ InsertPlayer(c) \/ CommitPlayer(c) \/ Reload(c) \/ BreakProvision(c)

-----------------------------------------------------------------------------
(* Properties *)

ProvisioningTypeOK ==
  /\ linked \in Accounts \cup {None}
  /\ player \in Players
  /\ prov \in [Callers -> ProvStates]

\* However first uses overlap, a player has one player account with the ledger
\* accounts that are there, everyone who is answered is given that one, and no
\* ledger accounts are left behind by one who failed.
OnePlayerAccount ==
  /\ player # NoPlayer => player.accounts = linked
  /\ linked \in Callers => player.by = linked
  /\ \A c \in Callers : prov[c].at = "done" => prov[c].got = player /\ player # NoPlayer
=============================================================================
