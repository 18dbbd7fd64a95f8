----------------------------- MODULE MCTelegram ------------------------------
(* Small instances of Telegram: turns with calls of every outcome.         *)
EXTENDS Telegram, TLC

CallOf(tool, on, amount, sound) == [tool |-> tool, on |-> on, amount |-> amount, sound |-> sound]

Read == CallOf("read", 0, 0, TRUE)
MoveMoney == CallOf("move_money", 0, 0, TRUE)
Draft == CallOf("draft", 0, 0, TRUE)
Budget == CallOf("budget", 1, 0, TRUE)
Post == CallOf("post", 1, 0, TRUE)
Invoice == CallOf("invoice", 1, 0, TRUE)
Pay(amount) == CallOf("pay_invoice", 1, amount, TRUE)

TurnOf(confirmed, planned) == [confirmed |-> confirmed, planned |-> planned]

(* Plans, confirmations alone, and one beside a plan that fails.           *)
MCTurns == {
  TurnOf(<<>>, <<Read, Draft>>), TurnOf(<<>>, <<Budget, Pay(2)>>),
  TurnOf(<<>>, <<MoveMoney, CallOf("bill", 1, 0, FALSE)>>),
  TurnOf(<<Post>>, <<>>), TurnOf(<<Pay(1)>>, <<>>), TurnOf(<<Pay(2)>>, <<>>), TurnOf(<<Invoice>>, <<>>),
  TurnOf(<<Invoice>>, <<CallOf("explain", 0, 0, TRUE)>>) }

Symmetry == Permutations(Clients)
=============================================================================
