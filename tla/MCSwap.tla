-------------------------------- MODULE MCSwap --------------------------------
(* One pool of 10 A and 12 B, 80 pool tokens to begin with and 100 parts in a   *)
(* PreciseNumber: deposits take the supply past the precision of the arithmetic. *)
EXTENDS Swap, TLC

F(trade, ownerTrade, ownerWithdraw, host) ==
  [trade |-> trade, ownerTrade |-> ownerTrade, ownerWithdraw |-> ownerWithdraw, host |-> host]
Free == F(<<0, 0>>, <<0, 0>>, <<0, 0>>, <<0, 0>>)
Usual == F(<<1, 10>>, <<1, 10>>, <<1, 6>>, <<1, 2>>)
\* Valid fees that add up to the whole.
Halves == F(<<1, 2>>, <<1, 2>>, <<0, 0>>, <<0, 0>>)
P(type, param, fees, policed) ==
  [open |-> TRUE, curve |-> [type |-> type, param |-> param], fees |-> fees,
   swap_policy |-> policed, add_liquidity_policy |-> policed]
MCPools == {P("product", 0, Free, FALSE), P("product", 0, Usual, TRUE),
            P("price", 2, Free, FALSE), P("price", 3, Usual, FALSE),
            P("offset", 4, Usual, FALSE), P("price", 0, Free, FALSE),
            P("product", 0, F(<<1, 1>>, <<0, 0>>, <<0, 0>>, <<0, 0>>), FALSE),
            P("product", 0, Halves, FALSE), P("price", 2, Halves, FALSE)}

Op(kind, side, amount, l1, l2) ==
  [kind |-> kind, side |-> side, amount |-> amount, limits |-> <<l1, l2>>,
   named |-> TRUE, host |-> FALSE, to |-> user]
Trades(amounts) ==
  UNION {{Op("swap", "A", n, 0, 0), Op("swap", "B", n, 1, 0),
          Op("deposit_all", "A", 4 * n, 6, 9), Op("withdraw_all", "A", 4 * n, 0, 0),
          Op("deposit_single", "A", n, 0, 0), Op("deposit_single", "B", n, 0, 0),
          Op("withdraw_single", "A", n, 80, 0), Op("withdraw_single", "B", n, 36, 0)} : n \in amounts}
MCOps == Trades({5}) \cup {Op("close", "A", 0, 0, 0)}
         \cup {[o EXCEPT !.named = FALSE, !.host = TRUE] :
                o \in {Op("swap", "A", 5, 0, 0), Op("withdraw_all", "A", 16, 0, 0)}}
         \cup {Op("withdraw_all", "A", 80, 0, 0), [Op("transfer", "B", 5, 0, 0) EXCEPT !.to = feeOwner]}
MCCalls == {<<other, o>> : o \in Trades({1, 2, 5})} \cup {<<feeOwner, Op("withdraw_all", "A", 4, 0, 0)>>}
MCMoves == {Wrap(2), Unwrap, Create(<<user, "B">>), Create(<<feeOwner, "B">>)}
\* Three calls of the others, or a session with one call and one move around it.
MCBudgets == {[sessions |-> 0, calls |-> 3, moves |-> 0], [sessions |-> 1, calls |-> 1, moves |-> 1]}

MCSwapInit ==
  /\ Init
  /\ sol \in {0, 4}
  /\ \E a \in {Missing, 2}, b \in {Missing, 5} :
       acc = (<<user, "A">> :> a @@ <<user, "B">> :> b @@ <<user, "P">> :> 0
           @@ <<other, "A">> :> 9 @@ <<other, "B">> :> 9 @@ <<other, "P">> :> 0
           @@ <<feeOwner, "A">> :> 0 @@ <<feeOwner, "B">> :> (IF b = Missing THEN 0 ELSE Missing) @@ <<feeOwner, "P">> :> 0
           @@ <<"pool", "A">> :> 10 @@ <<"pool", "B">> :> 12)
SwapSpec == MCSwapInit /\ [][Next]_vars
=============================================================================
