--------------------------------- MODULE Swap ---------------------------------
(***************************************************************************)
(* albus-swap: a pool of tokens A and B and the client a trader uses, which   *)
(* is also that of albus-transfer.  A handler is the list of token moves it   *)
(* makes, or is rejected; a transaction is a list of instructions, all of      *)
(* them or none.  The client first reads accounts, one at a time, to decide    *)
(* what to put before and after the call, while the pool and the wallet go on  *)
(* changing.                                                                  *)
(*                                                                           *)
(* A is wrapped SOL.  Rent, the pool's keys and the account checks that only  *)
(* compare addresses are left out: every account is the one the pool names.   *)
(***************************************************************************)
EXTENDS Curve
LOCAL INSTANCE FiniteSetsExt
LOCAL INSTANCE SequencesExt

CONSTANTS user, other,   \* the trader with a client, and one without
          feeOwner,      \* owner of the pool's fee account
          Pools,         \* what a pool may be opened with: curve, fees and whether it asks for certificates
          Ops,           \* what the trader may ask his client for
          Calls,         \* what the others may send: <<who, operation>>
          Moves,         \* what the trader may do to his wallet by other means: accounts
          Budgets        \* how often he, they and he: [sessions, calls, moves]

VARIABLES pool,      \* Closed, or an element of Pools
          acc,       \* balance of the token account of an owner and a mint
          sol,       \* lamports of the trader
          certified, \* those who hold a valid certificate for the pool's policies
          session,   \* the call in progress of the trader's client
          left       \* what is left of a budget

vars == <<pool, acc, sol, certified, session, left>>
Mints == {"A", "B", "P"}
Traders == {user, other, feeOwner}
Missing == -1
Closed == [open |-> FALSE]

Balance(ac, o, m) == Larger(0, ac[o, m])
Supply(ac) == Balance(ac, user, "P") + Balance(ac, other, "P") + Balance(ac, feeOwner, "P")
Opposite(side) == IF side = "A" THEN "B" ELSE "A"
Policed(policy, certs, who) == policy => who \in certs

-----------------------------------------------------------------------------
\* The token program: a move takes from one account, or mints, and gives to
\* another, or burns.  One that cannot be made undoes the whole transaction.
Move(m, from, to, n) == [mint |-> m, from |-> from, to |-> to, n |-> n]
Made(ac, mv) ==
  /\ mv.n >= 0
  /\ mv.from # "mint" => ac[mv.from, mv.mint] >= mv.n
  /\ mv.to # "burn" => ac[mv.to, mv.mint] # Missing
Debit(ac, mv) == IF mv.from = "mint" THEN ac ELSE [ac EXCEPT ![<<mv.from, mv.mint>>] = @ - mv.n]
Credit(ac, mv) == IF mv.to = "burn" THEN ac ELSE [ac EXCEPT ![<<mv.to, mv.mint>>] = @ + mv.n]
Apply(acs, list) ==
  FoldLeft(LAMBDA s, mv : {Credit(Debit(ac, mv), mv) : ac \in {x \in s : Made(x, mv)}}, acs, list)
Nonzero(list) == SelectSeq(list, LAMBDA mv : mv.n > 0)

-----------------------------------------------------------------------------
\* The handlers of the program: the lists of moves of a call, none if it is rejected.
When(condition, list) == IF condition THEN {list} ELSE {}

Swapped(p, ac, certs, who, op) ==
  LET a == ac["pool", "A"]
      b == ac["pool", "B"]
      AtoB == op.side = "A"
      r == SwapResult(p.curve, p.fees, op.amount, a, b, AtoB)
      a2 == IF AtoB THEN a + r.in ELSE a - r.out
      b2 == IF AtoB THEN b - r.out ELSE b + r.in
      fee == IF r.ownerFee = 0 THEN 0
             ELSE WithdrawTokens(p.curve, r.ownerFee, a2, b2, Supply(ac), AtoB, FALSE)
  IN When(/\ Policed(p.swap_policy, certs, who)
          /\ r.in # None /\ r.out >= op.limits[1] /\ fee # None
          \* the host's account is not writable
          /\ op.host => CalculateFee(fee, p.fees.host) = 0,
          <<Move(op.side, who, "pool", r.in)>>
            \o (IF r.ownerFee > 0 THEN <<Move("P", "mint", feeOwner, fee)>> ELSE <<>>)
            \o <<Move(Opposite(op.side), "pool", who, r.out)>>)

DepositedAll(p, ac, certs, who, op) ==
  LET supply == Supply(ac)
      tokens == IF supply > 0 THEN op.amount ELSE InitialSupply
      due == PoolTokensToTradingTokens(p.curve, tokens, IF supply > 0 THEN supply ELSE InitialSupply,
                                       ac["pool", "A"], ac["pool", "B"], TRUE)
  IN When(/\ Policed(p.add_liquidity_policy, certs, who)
          /\ AllowsDeposits(p.curve)
          /\ \A i \in 1..2 : due[i] \in 1..op.limits[i],
          <<Move("A", who, "pool", due[1]), Move("B", who, "pool", due[2]),
            Move("P", "mint", who, tokens)>>)

DepositedSingle(p, ac, certs, who, op) ==
  LET supply == Supply(ac)
      tokens == IF supply = 0 THEN InitialSupply
                ELSE DepositSingle(p.curve, p.fees, op.amount, ac["pool", "A"], ac["pool", "B"],
                                   supply, op.side = "A")
  IN When(/\ Policed(p.add_liquidity_policy, certs, who)
          /\ tokens > 0 /\ tokens >= op.limits[1],
          <<Move(op.side, who, "pool", op.amount), Move("P", "mint", who, tokens)>>)

\* Withdrawing from the fee account itself is free.
WithdrawFee(p, who, tokens) ==
  IF who = feeOwner THEN 0 ELSE CalculateFee(tokens, p.fees.ownerWithdraw)

WithdrawnAll(p, ac, who, op) ==
  LET held == <<ac["pool", "A"], ac["pool", "B"]>>
      fee == WithdrawFee(p, who, op.amount)
      due == PoolTokensToTradingTokens(p.curve, op.amount - fee, Supply(ac), held[1], held[2], FALSE)
      out == [i \in 1..2 |-> Smaller(held[i], due[i])]
  IN When(/\ AllowsDeposits(p.curve)
          /\ fee <= op.amount /\ due # NoSwap
          /\ \A i \in 1..2 : out[i] >= op.limits[i] /\ (out[i] = 0 => held[i] = 0),
          Nonzero(<<Move("P", who, feeOwner, fee)>>)
            \o <<Move("P", who, "burn", op.amount - fee)>>
            \o Nonzero(<<Move("A", "pool", who, out[1]), Move("B", "pool", who, out[2])>>))

WithdrawnSingle(p, ac, who, op) ==
  LET burnt == WithdrawSingle(p.curve, p.fees, op.amount, ac["pool", "A"], ac["pool", "B"],
                              Supply(ac), op.side = "A")
      fee == WithdrawFee(p, who, burnt)
  IN When(burnt # None /\ burnt + fee \in 1..op.limits[1],
          Nonzero(<<Move("P", who, feeOwner, fee)>>)
            \o <<Move("P", who, "burn", burnt), Move(op.side, "pool", who, op.amount)>>)

\* Anybody's signature will do.
ClosedPool(ac, who) ==
  When(ac[who, "A"] # Missing /\ ac[who, "B"] # Missing,
       Nonzero(<<Move("A", "pool", who, ac["pool", "A"]), Move("B", "pool", who, ac["pool", "B"])>>))

\* spl_transfer of albus-transfer asks for a certificate whatever the policy.
Transferred(ac, certs, who, op) ==
  When(who \in certs /\ ac[who, op.side] # Missing /\ ac[op.to, op.side] # Missing,
       <<Move(op.side, who, op.to, op.amount)>>)

Handled(p, ac, certs, who, op) ==
  IF op.kind = "transfer" THEN Transferred(ac, certs, who, op)
  ELSE IF ~p.open THEN {}
  ELSE CASE op.kind = "swap" -> Swapped(p, ac, certs, who, op)
       [] op.kind = "deposit_all" -> DepositedAll(p, ac, certs, who, op)
       [] op.kind = "deposit_single" -> DepositedSingle(p, ac, certs, who, op)
       [] op.kind = "withdraw_all" -> WithdrawnAll(p, ac, who, op)
       [] op.kind = "withdraw_single" -> WithdrawnSingle(p, ac, who, op)
       [] op.kind = "close" -> ClosedPool(ac, who)

\* The accounts after a call, none if it fails.
After(p, ac, certs, who, op) ==
  UNION {Apply({ac}, list) : list \in Handled(p, ac, certs, who, op)}
PoolAfter(p, op) == IF op.kind = "close" THEN Closed ELSE p

-----------------------------------------------------------------------------
\* The client.  What it reads before it sends: the accounts the call credits,
\* and for a call that pays in SOL the wrapped balance.  Mints are optional.
Credited(op) == CASE op.kind = "swap" -> <<<<user, Opposite(op.side)>>>>
                  [] op.kind \in {"deposit_all", "deposit_single"} -> <<<<user, "P">>>>
                  [] op.kind \in {"withdraw_single", "transfer"} -> <<<<op.to, op.side>>>>
                  [] OTHER -> <<<<user, "A">>, <<user, "B">>>>
Paid(op) == op.named /\ \/ op.kind = "deposit_all"
                        \/ op.kind \in {"swap", "deposit_single"} /\ op.side = "A"
ToWrap(op) == IF ~Paid(op) THEN 0 ELSE IF op.kind = "deposit_all" THEN op.limits[1] ELSE op.amount
Unwraps(op) == /\ op.named
               /\ \/ op.kind = "swap" /\ op.side = "B"
                  \/ op.kind = "withdraw_all"
                  \/ op.kind = "withdraw_single" /\ op.side = "A"

Reads(op) == [i \in DOMAIN Credited(op) |-> [what |-> "credited", account |-> Credited(op)[i]]]
             \o (IF Paid(op) THEN <<[what |-> "paid", account |-> <<user, "A">>]>> ELSE <<>>)

Create(account) == [do |-> "create", account |-> account]
Wrap(n) == [do |-> "wrap", n |-> n]
Unwrap == [do |-> "unwrap"]
Call == [do |-> "call"]

\* handleMissingTokenAccount: only an account that is known to be missing is created.
HandleMissing(op, account, seen) ==
  IF seen = Missing /\ (op.named \/ op.kind = "close") THEN <<Create(account)>> ELSE <<>>
FullyWrapped(op, seen) ==
  (IF seen = Missing THEN <<Create(<<user, "A">>)>> ELSE <<>>) \o
  (IF ToWrap(op) > Larger(0, seen) THEN <<Wrap(ToWrap(op))>> ELSE <<>>)
\* handleWrappedSol: what the account lacks; a read that fails counts as nothing wrapped.
HandleWrapped(op, seen) ==
  (IF seen = Missing THEN <<Create(<<user, "A">>)>> ELSE <<>>) \o
  (IF ToWrap(op) > Larger(0, seen) THEN <<Wrap(ToWrap(op) - Larger(0, seen))>> ELSE <<>>)

\* The instructions of a transaction, on the accounts and the lamports.
Execute(p, certs, op, w, ins) ==
  CASE ins.do = "create" -> When(w.acc[ins.account] = Missing, [w EXCEPT !.acc[ins.account] = 0])
    [] ins.do = "wrap" -> When(w.acc[user, "A"] # Missing /\ w.sol >= ins.n,
                               [w EXCEPT !.acc[<<user, "A">>] = @ + ins.n, !.sol = @ - ins.n])
    [] ins.do = "unwrap" -> When(w.acc[user, "A"] # Missing,
                                 [acc |-> [w.acc EXCEPT ![<<user, "A">>] = Missing],
                                  sol |-> w.sol + w.acc[user, "A"]])
    [] ins.do = "call" -> {[w EXCEPT !.acc = ac] : ac \in After(p, w.acc, certs, user, op)}
Transact(p, certs, op, w, tx) ==
  FoldLeft(LAMBDA s, ins : UNION {Execute(p, certs, op, x, ins) : x \in s}, {w}, tx)

-----------------------------------------------------------------------------
\* What the client has to do with: the trader's accounts, those it credits, and lamports.
Wallet(op) == [accounts |-> [x \in ({user} \X Mints) \cup ToSet(Credited(op)) |-> acc[x]], sol |-> sol]
NoSession == [busy |-> FALSE]
Init ==
  /\ pool = Closed
  /\ session = NoSession
  /\ certified \in {{}, {user, other}}
  /\ left \in Budgets

\* The pool is opened once, by the trader who gets the first pool tokens.
Initialize ==
  \E p \in Pools :
    /\ ~pool.open
    /\ ValidateSupply(p.curve, acc["pool", "A"], acc["pool", "B"])
    /\ Supply(acc) = 0
    /\ Validate(p.fees) /\ ValidCurve(p.curve)
    /\ acc' \in Apply({acc}, <<Move("P", "mint", user, InitialSupply)>>)
    /\ pool' = [p EXCEPT !.open = TRUE]
    /\ UNCHANGED <<sol, certified, session, left>>

\* The trader asks for an operation; start is what he has at that moment.
Begin(op) ==
  /\ (pool.open \/ op.kind = "transfer") /\ ~session.busy /\ left.sessions > 0
  /\ session' = [busy |-> TRUE, op |-> op, reads |-> Reads(op), tx |-> <<>>, heard |-> TRUE,
                 start |-> Wallet(op)]
  /\ left' = [left EXCEPT !.sessions = @ - 1]
  /\ UNCHANGED <<pool, acc, sol, certified>>

\* One account is read, or the connection fails.
Look ==
  /\ session.busy /\ session.reads # <<>>
  /\ LET op == session.op
         read == session.reads[1]
     IN \E heard \in BOOLEAN :
          LET seen == IF heard THEN acc[read.account] ELSE 0
          IN session' = [session EXCEPT
               !.reads = Tail(@), !.heard = @ /\ heard,
               !.tx = @ \o (IF read.what = "paid" THEN HandleWrapped(op, seen)
                            ELSE HandleMissing(op, read.account, seen))]
  /\ UNCHANGED <<pool, acc, sol, certified, left>>

\* The transaction: with all its instructions, or not at all.
Send ==
  /\ session.busy /\ session.reads = <<>>
  /\ LET op == session.op
         tx == session.tx \o <<Call>> \o (IF Unwraps(op) THEN <<Unwrap>> ELSE <<>>)
         done == Transact(pool, certified, op, [acc |-> acc, sol |-> sol], tx)
     IN \/ \E w \in done : acc' = w.acc /\ sol' = w.sol /\ pool' = PoolAfter(pool, op)
        \/ done = {} /\ UNCHANGED <<pool, acc, sol>>
  /\ session' = NoSession
  /\ UNCHANGED <<certified, left>>

\* Somebody else calls the program.
CallDirectly ==
  \E c \in Calls :
    /\ pool.open /\ left.calls > 0
    /\ acc' \in After(pool, acc, certified, c[1], c[2])
    /\ pool' = PoolAfter(pool, c[2])
    /\ left' = [left EXCEPT !.calls = @ - 1]
    /\ UNCHANGED <<sol, certified, session>>

\* The trader's wallet, used elsewhere: wrapping SOL or closing an account.
UseWallet ==
  /\ session.busy /\ left.moves > 0
  /\ \E ins \in Moves :
       \E w \in Execute(pool, certified, session.op, [acc |-> acc, sol |-> sol], ins) :
         acc' = w.acc /\ sol' = w.sol
  /\ left' = [left EXCEPT !.moves = @ - 1]
  /\ UNCHANGED <<pool, certified, session>>

\* A certificate runs out, or is taken back.
Lapse ==
  /\ pool.open /\ certified # {}
  /\ \E who \in certified : certified' = certified \ {who}
  /\ UNCHANGED <<pool, acc, sol, session, left>>

Next ==
  \/ Initialize
  \/ \E op \in Ops : Begin(op)
  \/ Look \/ Send
  \/ CallDirectly
  \/ UseWallet
  \/ Lapse

-----------------------------------------------------------------------------
\* What a pool of a and b is worth, and the measure it is compared by: the product
\* grows with the square of a pool.
Worth(curve, a, b) == IF curve.type = "price" THEN a + curve.param * b ELSE a * (b + OffsetOf(curve))
\* normalized_value halves the value of a constant-price pool and drops the rest.
Normalized(curve, v) == IF curve.type = "price" THEN 2 * (v \div 2) ELSE v
Power(curve, n) == IF curve.type = "price" THEN n ELSE n * n
Value(p, ac) == Worth(p.curve, ac["pool", "A"], ac["pool", "B"])

\* Only one of the pool's sides changes: a deposit or a withdrawal of one token.
OneSided(ac, ac2) ==
  \E m \in {"A", "B"} : /\ ac2["pool", m] # ac["pool", m]
                        /\ ac2["pool", Opposite(m)] = ac["pool", Opposite(m)]
\* Fees::validate admits two trading fees that make up the whole, of which
\* pre_fee_amount makes 0: the half of a one-sided withdrawal that counts as traded is
\* then handed out for nothing.
FeesTakeAll(fees) == PreTradingFeeAmount(1, fees) = 0
Unpaid(p, ac, ac2, m) ==
  LET out == ac["pool", m] - ac2["pool", m]
  IN IF FeesTakeAll(p.fees) /\ OneSided(ac, ac2) /\ out > 0 THEN (out + 1) \div 2 ELSE 0
ValueWithUnpaid(p, ac, ac2) ==
  Worth(p.curve, ac2["pool", "A"] + Unpaid(p, ac, ac2, "A"), ac2["pool", "B"] + Unpaid(p, ac, ac2, "B"))

\* v and v2 are the pool's value before and after, s and s2 the supply of pool tokens.
ExactlyKept(curve, v, v2, s, s2) == v2 * Power(curve, s) >= Normalized(curve, v) * Power(curve, s2)
\* A one-sided call off the constant-price curve: the ratio is rounded by a part of One
\* before the root is taken, and the root by another, which of a large supply is whole
\* pool tokens.
RootKept(v, v2, s, s2) ==
  LET parts == (One * s2 + s - 1) \div s
  IN One * One * v2 + One * v >= v * (parts - 1) * (parts - 1)

\* No swap, deposit or withdrawal makes a pool token worth less than what rounding
\* explains, with the fees of curve/*.rs and the pool tokens minted for the owner.  Three
\* things it may lose: the token that halving a constant-price pool drops, the parts of
\* a one-sided call on the other curves (RootKept), and what a one-sided withdrawal does
\* not pay for when the trading fees make up the whole (Unpaid).
ValuePerShareKept ==
  [][LET v == Value(pool, acc)
         v2 == ValueWithUnpaid(pool, acc, acc')
     IN pool.open /\ pool'.open /\ Supply(acc) > 0 /\ Supply(acc') > 0
        => IF OneSided(acc, acc') /\ pool.curve.type # "price"
           THEN RootKept(v, v2, Supply(acc), Supply(acc'))
           ELSE ExactlyKept(pool.curve, v, v2, Supply(acc), Supply(acc'))]_vars

\* The accounts the client is to bring about: those it credits are there, those that
\* pay in SOL have it all wrapped.
Ideal(op) ==
  [x \in DOMAIN acc |-> IF x = <<user, "A">> /\ Paid(op) THEN Balance(acc, user, "A") + sol
                        ELSE IF x \in ToSet(Credited(op)) THEN Larger(0, acc[x])
                        ELSE acc[x]]
\* The accounts with the SOL back in the wallet's own, whatever is wrapped of it.
Together(ac, lamports) ==
  [x \in DOMAIN ac |-> IF x = <<user, "A">> THEN Balance(ac, user, "A") + lamports ELSE Larger(0, ac[x])]

\* client.ts wraps, creates and unwraps around the call: the transaction of a client
\* that could read everything, from a wallet that has not changed since and can pay,
\* lands and does what the program does for the ideal wallet, whatever the pool did.
SessionsLand ==
  [][LET op == session.op
         ideals == After(pool, Ideal(op), certified, user, op)
     IN Send /\ session.heard /\ op.named /\ session.start = Wallet(op)
          /\ ToWrap(op) <= Balance(acc, user, "A") + sol /\ ideals # {}
        => Together(acc', sol') \in {Together(ac, IF Paid(op) THEN 0 ELSE sol) : ac \in ideals}]_vars
=============================================================================
