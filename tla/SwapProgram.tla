----------------------------- MODULE SwapProgram -----------------------------
(***************************************************************************)
(* What the albus-swap and albus-transfer programs read and write: the      *)
(* accounts and arguments of their handlers and the layout of a pool.       *)
(* Names are those of the IDL, in camel case.                               *)
(***************************************************************************)
EXTENDS Borsh

\* albus-swap: state.rs
FeesInfo == Struct(
    <<<<"tradeFeeNumerator", U64>>, <<"tradeFeeDenominator", U64>>,
      <<"ownerTradeFeeNumerator", U64>>, <<"ownerTradeFeeDenominator", U64>>,
      <<"ownerWithdrawFeeNumerator", U64>>, <<"ownerWithdrawFeeDenominator", U64>>,
      <<"hostFeeNumerator", U64>>, <<"hostFeeDenominator", U64>>>>)
CurveInfo == Struct(<<<<"curveType", U8>>, <<"curveParameters", Bytes(32)>>>>)
TokenSwap == Struct(
    <<<<"isInitialized", Bool>>, <<"bumpSeed", U8>>, <<"tokenProgramId", Key>>,
      <<"tokenA", Key>>, <<"tokenB", Key>>, <<"poolMint", Key>>, <<"tokenAMint", Key>>,
      <<"tokenBMint", Key>>, <<"poolFeeAccount", Key>>, <<"fees", FeesInfo>>,
      <<"curve", CurveInfo>>, <<"swapPolicy", Option(Key)>>,
      <<"addLiquidityPolicy", Option(Key)>>, <<"reserved", Bytes(64)>>>>)
accounts == [TokenSwap |-> TokenSwap]

\* The accounts of the handlers of albus-swap and albus-transfer, in order.
ClosePool ==
    <<R("authority"), W("tokenSwap"), W("swapTokenA"), W("swapTokenB"), W("destTokenA"),
      W("destTokenB"), WS("payer"), P("tokenProgram"), P("systemProgram")>>
Initialize ==
    <<R("authority"), WS("tokenSwap"), W("poolMint"), W("tokenA"), W("tokenB"), W("poolFee"),
      W("destination"), P("tokenProgram")>>
Swap ==
    <<Opt("proofRequest"), R("tokenSwap"), R("authority"), S("userTransferAuthority"),
      W("userSource"), W("userDestination"), W("poolSource"), W("poolDestination"),
      W("poolMint"), W("poolFee"), Opt("hostFeeAccount"), P("tokenProgram")>>
DepositAllTokenTypes ==
    <<Opt("proofRequest"), R("tokenSwap"), R("authority"), S("userTransferAuthority"),
      W("userTokenA"), W("userTokenB"), W("swapTokenA"), W("swapTokenB"), W("poolMint"),
      W("destination"), P("tokenProgram")>>
DepositSingleTokenType ==
    <<Opt("proofRequest"), R("tokenSwap"), R("authority"), S("userTransferAuthority"),
      W("source"), W("swapTokenA"), W("swapTokenB"), W("poolMint"), W("destination"),
      P("tokenProgram")>>
WithdrawAllTokenTypes ==
    <<R("tokenSwap"), R("authority"), S("userTransferAuthority"), W("poolMint"), W("source"),
      W("swapTokenA"), W("swapTokenB"), W("destTokenA"), W("destTokenB"), W("poolFee"),
      P("tokenProgram")>>
WithdrawSingleTokenType ==
    <<R("tokenSwap"), R("authority"), S("userTransferAuthority"), W("poolMint"), W("source"),
      W("swapTokenA"), W("swapTokenB"), W("destination"), W("poolFee"), P("tokenProgram")>>
AlbusTransfer ==
    <<WS("sender"), W("receiver"), R("policy"), R("proofRequest"), P("systemProgram")>>
AlbusSplTransfer ==
    <<WS("sender"), W("receiver"), R("tokenMint"), W("source"), W("destination"), R("policy"),
      R("proofRequest"), P("tokenProgram"), P("systemProgram")>>

\* lib.rs: the handlers by name with their arguments, errors.rs.
instructions ==
  [initialize |-> Handler(Initialize,
     <<<<"feesInput", FeesInfo>>, <<"curveInput", CurveInfo>>, <<"swapPolicy", Option(Key)>>,
       <<"addLiquidityPolicy", Option(Key)>>>>),
   swap |-> Handler(Swap,
     <<<<"amountIn", U64>>, <<"minimumAmountOut", U64>>>>),
   depositAllTokenTypes |-> Handler(DepositAllTokenTypes,
     <<<<"poolTokenAmount", U64>>, <<"maximumTokenAAmount", U64>>,
       <<"maximumTokenBAmount", U64>>>>),
   withdrawAllTokenTypes |-> Handler(WithdrawAllTokenTypes,
     <<<<"poolTokenAmount", U64>>, <<"minimumTokenAAmount", U64>>,
       <<"minimumTokenBAmount", U64>>>>),
   depositSingleTokenType |-> Handler(DepositSingleTokenType,
     <<<<"sourceTokenAmount", U64>>, <<"minimumPoolTokenAmount", U64>>>>),
   withdrawSingleTokenType |-> Handler(WithdrawSingleTokenType,
     <<<<"destinationTokenAmount", U64>>, <<"maximumPoolTokenAmount", U64>>>>),
   close |-> Handler(ClosePool, <<>>)]
transfers == [transfer |-> Handler(AlbusTransfer, <<<<"amount", U64>>>>),
    splTransfer |-> Handler(AlbusSplTransfer, <<<<"amount", U64>>>>)]
errors == ErrorCodes(
    <<"AlreadyInUse", "InvalidProgramAddress", "InvalidOwner", "InvalidOutputOwner",
      "ExpectedMint", "ExpectedAccount", "EmptySupply", "InvalidSupply", "InvalidDelegate",
      "InvalidInput", "IncorrectSwapAccount", "IncorrectPoolMint", "InvalidOutput",
      "CalculationFailure", "InvalidInstruction", "RepeatedMint", "ExceededSlippage",
      "InvalidCloseAuthority", "InvalidFreezeAuthority", "IncorrectFeeAccount",
      "ZeroTradingTokens", "FeeCalculationFailure", "ConversionFailure", "InvalidFee",
      "IncorrectTokenProgramId", "UnsupportedCurveType", "InvalidCurve",
      "UnsupportedCurveOperation">>)
=============================================================================
