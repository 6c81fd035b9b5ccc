----------------------------- MODULE MCRacePools -----------------------------
(***************************************************************************)
(* A small instance of RacePools: two races, two users, three bet ids.     *)
(***************************************************************************)
EXTENDS SettlementReconciliation, TLC

Registration(r, x, status) == [race |-> r, selection |-> x, status |-> status]

Bet(b, u, r, x, stake) ==
  [bet |-> b, user |-> u, race |-> r, selection |-> x, stake |-> stake]

\* On the first race x and y run, on the second x alone.
TwoRaces ==
  {Registration(1, "x", "active"), Registration(1, "y", "active"),
   Registration(2, "x", "active")}

\* One bet on the first race; two on the second, whose pool does not divide
\* evenly; and under one id of these another stake, as large as the other bet.
FourBets ==
  {Bet(1, "u", 1, "y", 2), Bet(2, "u", 2, "x", 1), Bet(3, "v", 2, "x", 2),
   Bet(2, "u", 2, "x", 2)}

\* The bet under the id in use may be refused for the bettor's account.
OneRefusable == {Bet(2, "u", 2, "x", 2)}

TwoPurses == [u \in {"u", "v"} |-> 2]

\* Sessions are interchangeable.
SessionSymmetry == Permutations(Sessions)
=============================================================================
