----------------------------- MODULE SwapClient ------------------------------
(***************************************************************************)
(* What the TypeScript clients of the albus-swap and albus-transfer         *)
(* programs put on the wire: packages/albus-swap-sdk/src/generated and      *)
(* packages/albus-transfer-sdk/src/generated.                               *)
(***************************************************************************)
EXTENDS Borsh

\* generated/types: what travels in accounts and arguments.
curveInfoBeet == Struct(<<<<"curveType", U8>>, <<"curveParameters", Bytes(32)>>>>)
feesInfoBeet == Struct(
    <<<<"tradeFeeNumerator", U64>>, <<"tradeFeeDenominator", U64>>,
      <<"ownerTradeFeeNumerator", U64>>, <<"ownerTradeFeeDenominator", U64>>,
      <<"ownerWithdrawFeeNumerator", U64>>, <<"ownerWithdrawFeeDenominator", U64>>,
      <<"hostFeeNumerator", U64>>, <<"hostFeeDenominator", U64>>>>)

\* generated/accounts: the layouts accounts are read with.
tokenSwapBeet == Struct(
    <<<<"isInitialized", Bool>>, <<"bumpSeed", U8>>, <<"tokenProgramId", Key>>,
      <<"tokenA", Key>>, <<"tokenB", Key>>, <<"poolMint", Key>>, <<"tokenAMint", Key>>,
      <<"tokenBMint", Key>>, <<"poolFeeAccount", Key>>, <<"fees", feesInfoBeet>>,
      <<"curve", curveInfoBeet>>, <<"swapPolicy", Option(Key)>>,
      <<"addLiquidityPolicy", Option(Key)>>, <<"reserved", Bytes(64)>>>>)
accounts == [TokenSwap |-> tokenSwapBeet]

\* generated/instructions: the accounts in the order they are listed, and the arguments.
close == Call(
    <<R("authority"), W("tokenSwap"), W("swapTokenA"), W("swapTokenB"), W("destTokenA"),
      W("destTokenB"), WS("payer"), P("tokenProgram"), P("systemProgram")>>, <<>>)
depositAllTokenTypes == Call(
    <<Opt("proofRequest"), R("tokenSwap"), R("authority"), S("userTransferAuthority"),
      W("userTokenA"), W("userTokenB"), W("swapTokenA"), W("swapTokenB"), W("poolMint"),
      W("destination"), P("tokenProgram")>>,
    <<<<"poolTokenAmount", U64>>, <<"maximumTokenAAmount", U64>>, <<"maximumTokenBAmount", U64>>>>)
depositSingleTokenType == Call(
    <<Opt("proofRequest"), R("tokenSwap"), R("authority"), S("userTransferAuthority"),
      W("source"), W("swapTokenA"), W("swapTokenB"), W("poolMint"), W("destination"),
      P("tokenProgram")>>, <<<<"sourceTokenAmount", U64>>, <<"minimumPoolTokenAmount", U64>>>>)
initialize == Call(
    <<R("authority"), WS("tokenSwap"), W("poolMint"), W("tokenA"), W("tokenB"), W("poolFee"),
      W("destination"), P("tokenProgram")>>,
    <<<<"feesInput", feesInfoBeet>>, <<"curveInput", curveInfoBeet>>,
     <<"swapPolicy", Option(Key)>>, <<"addLiquidityPolicy", Option(Key)>>>>)
swap == Call(
    <<Opt("proofRequest"), R("tokenSwap"), R("authority"), S("userTransferAuthority"),
      W("userSource"), W("userDestination"), W("poolSource"), W("poolDestination"),
      W("poolMint"), W("poolFee"), Opt("hostFeeAccount"), P("tokenProgram")>>,
    <<<<"amountIn", U64>>, <<"minimumAmountOut", U64>>>>)
withdrawAllTokenTypes == Call(
    <<R("tokenSwap"), R("authority"), S("userTransferAuthority"), W("poolMint"), W("source"),
      W("swapTokenA"), W("swapTokenB"), W("destTokenA"), W("destTokenB"), W("poolFee"),
      P("tokenProgram")>>,
    <<<<"poolTokenAmount", U64>>, <<"minimumTokenAAmount", U64>>, <<"minimumTokenBAmount", U64>>>>)
withdrawSingleTokenType == Call(
    <<R("tokenSwap"), R("authority"), S("userTransferAuthority"), W("poolMint"), W("source"),
      W("swapTokenA"), W("swapTokenB"), W("destination"), W("poolFee"), P("tokenProgram")>>,
    <<<<"destinationTokenAmount", U64>>, <<"maximumPoolTokenAmount", U64>>>>)
instructions == [
    close |-> close, depositAllTokenTypes |-> depositAllTokenTypes,
      depositSingleTokenType |-> depositSingleTokenType, initialize |-> initialize,
      swap |-> swap, withdrawAllTokenTypes |-> withdrawAllTokenTypes,
      withdrawSingleTokenType |-> withdrawSingleTokenType]

\* generated/errors: the codes from 6000 on.
errors == ErrorCodes(
    <<"AlreadyInUse", "InvalidProgramAddress", "InvalidOwner", "InvalidOutputOwner",
      "ExpectedMint", "ExpectedAccount", "EmptySupply", "InvalidSupply", "InvalidDelegate",
      "InvalidInput", "IncorrectSwapAccount", "IncorrectPoolMint", "InvalidOutput",
      "CalculationFailure", "InvalidInstruction", "RepeatedMint", "ExceededSlippage",
      "InvalidCloseAuthority", "InvalidFreezeAuthority", "IncorrectFeeAccount",
      "ZeroTradingTokens", "FeeCalculationFailure", "ConversionFailure", "InvalidFee",
      "IncorrectTokenProgramId", "UnsupportedCurveType", "InvalidCurve",
      "UnsupportedCurveOperation">>)

\* generated/instructions: the accounts in the order they are listed, and the arguments.
splTransfer == Call(
    <<WS("sender"), W("receiver"), R("tokenMint"), W("source"), W("destination"), R("policy"),
      R("proofRequest"), P("tokenProgram"), P("systemProgram")>>, <<<<"amount", U64>>>>)
transfer == Call(
    <<WS("sender"), W("receiver"), R("policy"), R("proofRequest"), P("systemProgram")>>,
    <<<<"amount", U64>>>>)
transfers == [splTransfer |-> splTransfer, transfer |-> transfer]
=============================================================================
