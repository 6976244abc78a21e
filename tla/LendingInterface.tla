-------------------------- MODULE LendingInterface --------------------------
(***************************************************************************)
(* The instructions of the lending program: how token-lending/program/src/ *)
(* instruction.rs builds, packs and unpacks them, the accounts the         *)
(* handlers of processor.rs take, and the instructions of the token        *)
(* program they call.  k reserves or extra accounts; host: an account for  *)
(* the host's fee is given.                                                *)
(***************************************************************************)
EXTENDS Wire

-----------------------------------------------------------------------------
(* Builders *)

init_lending_market == <<W("lending_market"), R("rent"), R("token"), R("oracle")>>
set_lending_market_owner == <<W("lending_market"), RS("owner")>>
init_reserve ==
    <<W("source_liquidity"), W("destination_collateral"), W("reserve"),
      R("liquidity_mint"), W("liquidity_supply"), W("fee_receiver"),
      W("collateral_mint"), W("collateral_supply"), R("pyth_product"), R("pyth_price"),
      R("lending_market"), R("authority"), RS("owner"), RS("user_transfer_authority"),
      R("clock"), R("rent"), R("token")>>
refresh_reserve == <<W("reserve"), R("oracle"), R("clock")>>
deposit_reserve_liquidity ==
    <<W("source_liquidity"), W("destination_collateral"), W("reserve"),
      W("liquidity_supply"), W("collateral_mint"), R("lending_market"), R("authority"),
      RS("user_transfer_authority"), R("clock"), R("token")>>
redeem_reserve_collateral ==
    <<W("source_collateral"), W("destination_liquidity"), W("reserve"),
      W("collateral_mint"), W("liquidity_supply"), R("lending_market"), R("authority"),
      RS("user_transfer_authority"), R("clock"), R("token")>>
init_obligation ==
    <<W("obligation"), R("lending_market"), RS("owner"), R("clock"), R("rent"), R("token")>>
refresh_obligation(k) == <<W("obligation"), R("clock")>> \o Times(k, R("reserve"))
deposit_obligation_collateral ==
    <<W("source_collateral"), W("destination_collateral"), R("reserve"), W("obligation"),
      R("lending_market"), RS("owner"), RS("user_transfer_authority"), R("clock"),
      R("token")>>
withdraw_obligation_collateral ==
    <<W("source_collateral"), W("destination_collateral"), R("reserve"), W("obligation"),
      R("lending_market"), R("authority"), RS("owner"), R("clock"), R("token")>>
borrow_obligation_liquidity(host) ==
    <<W("source_liquidity"), W("destination_liquidity"), W("reserve"),
      W("fee_receiver"), W("obligation"), R("lending_market"), R("authority"),
      RS("owner"), R("clock"), R("token")>> \o If(host, <<W("host_fee_receiver")>>)
repay_obligation_liquidity ==
    <<W("source_liquidity"), W("destination_liquidity"), W("reserve"), W("obligation"),
      R("lending_market"), RS("user_transfer_authority"), R("clock"), R("token")>>
liquidate_obligation ==
    <<W("source_liquidity"), W("destination_collateral"), W("repay_reserve"),
      W("repay_liquidity_supply"), R("withdraw_reserve"), W("withdraw_collateral_supply"),
      W("obligation"), R("lending_market"), R("authority"),
      RS("user_transfer_authority"), R("clock"), R("token")>>
\* The receiver's program and the accounts it asks for.
flash_loan(receiver) ==
    <<W("source_liquidity"), W("destination_liquidity"), W("reserve"), W("fee_receiver"),
      W("host_fee_receiver"), R("lending_market"), R("authority"), R("token"),
      R("flash_loan_receiver")>> \o receiver
Receiver == <<RS("user_transfer_authority")>>

Builders(k, host) ==
    [InitLendingMarket |-> init_lending_market,
     SetLendingMarketOwner |-> set_lending_market_owner,
     InitReserve |-> init_reserve, RefreshReserve |-> refresh_reserve,
     DepositReserveLiquidity |-> deposit_reserve_liquidity,
     RedeemReserveCollateral |-> redeem_reserve_collateral,
     InitObligation |-> init_obligation, RefreshObligation |-> refresh_obligation(k),
     DepositObligationCollateral |-> deposit_obligation_collateral,
     WithdrawObligationCollateral |-> withdraw_obligation_collateral,
     BorrowObligationLiquidity |-> borrow_obligation_liquidity(host),
     RepayObligationLiquidity |-> repay_obligation_liquidity,
     LiquidateObligation |-> liquidate_obligation, FlashLoan |-> flash_loan(Receiver)]

-----------------------------------------------------------------------------
(* Data *)

pack ==
    LET config == U8("optimal_utilization_rate") \o U8("loan_to_value_ratio")
                  \o U8("liquidation_bonus") \o U8("liquidation_threshold")
                  \o U8("min_borrow_rate") \o U8("optimal_borrow_rate")
                  \o U8("max_borrow_rate") \o U64("borrow_fee_wad")
                  \o U64("flash_loan_fee_wad") \o U8("host_fee_percentage")
    IN  [InitLendingMarket |-> Number(0) \o Key("owner") \o Bytes("quote_currency", 32),
         SetLendingMarketOwner |-> Number(1) \o Key("new_owner"),
         InitReserve |-> Number(2) \o U64("liquidity_amount") \o config,
         RefreshReserve |-> Number(3),
         DepositReserveLiquidity |-> Number(4) \o U64("liquidity_amount"),
         RedeemReserveCollateral |-> Number(5) \o U64("collateral_amount"),
         InitObligation |-> Number(6),
         RefreshObligation |-> Number(7),
         DepositObligationCollateral |-> Number(8) \o U64("collateral_amount"),
         WithdrawObligationCollateral |-> Number(9) \o U64("collateral_amount"),
         BorrowObligationLiquidity |-> Number(10) \o U64("liquidity_amount"),
         RepayObligationLiquidity |-> Number(11) \o U64("liquidity_amount"),
         LiquidateObligation |-> Number(12) \o U64("liquidity_amount"),
         FlashLoan |-> Number(13) \o U64("amount")]

unpack_u64(field) == Take(field, 8)
unpack_u8(field) == Take(field, 1)
unpack_bytes32(field) == Take(field, 32)
unpack_pubkey(field) == unpack_bytes32(field)

unpack ==
    LET liquidity == <<unpack_u64("liquidity_amount")>>
        collateral == <<unpack_u64("collateral_amount")>>
    IN  <<Entry("InitLendingMarket",
                <<unpack_pubkey("owner"), unpack_bytes32("quote_currency")>>),
          Entry("SetLendingMarketOwner", <<unpack_pubkey("new_owner")>>),
          Entry("InitReserve",
                <<unpack_u64("liquidity_amount"), unpack_u8("optimal_utilization_rate"),
                  unpack_u8("loan_to_value_ratio"), unpack_u8("liquidation_bonus"),
                  unpack_u8("liquidation_threshold"), unpack_u8("min_borrow_rate"),
                  unpack_u8("optimal_borrow_rate"), unpack_u8("max_borrow_rate"),
                  unpack_u64("borrow_fee_wad"), unpack_u64("flash_loan_fee_wad"),
                  unpack_u8("host_fee_percentage")>>),
          Entry("RefreshReserve", <<>>),
          Entry("DepositReserveLiquidity", liquidity),
          Entry("RedeemReserveCollateral", collateral),
          Entry("InitObligation", <<>>), Entry("RefreshObligation", <<>>),
          Entry("DepositObligationCollateral", collateral),
          Entry("WithdrawObligationCollateral", collateral),
          Entry("BorrowObligationLiquidity", liquidity),
          Entry("RepayObligationLiquidity", liquidity),
          Entry("LiquidateObligation", liquidity),
          Entry("FlashLoan", <<unpack_u64("amount")>>)>>

-----------------------------------------------------------------------------
(* Handlers.  The token accounts need to be writable only for the token    *)
(* program, which checks so when it is called; the authority of the market *)
(* signs with its seeds.  Fees are positive, so that every call is made.   *)

spl_token_init_account(account, mint, owner) ==
    Call("token", "InitializeAccount", <<account, mint, owner, "rent">>, {})
spl_token_init_mint(mint) == Call("token", "InitializeMint", <<mint, "rent">>, {})

\* The authority signs for itself, or with the seeds of the market.
invoke_optionally_signed(ix, roles) ==
    Call("token", ix, roles, IF Last(roles) = "authority" THEN {"authority"} ELSE {})
spl_token_transfer(source, destination, authority) ==
    invoke_optionally_signed("Transfer", <<source, destination, authority>>)
spl_token_mint_to(mint, destination, authority) ==
    invoke_optionally_signed("MintTo", <<mint, destination, authority>>)
spl_token_burn(source, mint, authority) ==
    invoke_optionally_signed("Burn", <<source, mint, authority>>)

process_init_lending_market ==
    Handler(<<W("lending_market"), R("rent"), R("token"), R("oracle")>>, <<>>)
process_set_lending_market_owner == Handler(<<W("lending_market"), RS("owner")>>, <<>>)
process_init_reserve ==
    Handler(<<R("source_liquidity"), R("destination_collateral"), W("reserve"),
              R("liquidity_mint"), R("liquidity_supply"), R("fee_receiver"),
              R("collateral_mint"), R("collateral_supply"), R("pyth_product"),
              R("pyth_price"), R("lending_market"), R("authority"), RS("owner"),
              R("user_transfer_authority"), R("clock"), R("rent"), R("token")>>,
            <<spl_token_init_account("liquidity_supply", "liquidity_mint", "authority"),
              spl_token_init_account("fee_receiver", "liquidity_mint", "authority"),
              spl_token_init_mint("collateral_mint"),
              spl_token_init_account("collateral_supply", "collateral_mint", "authority"),
              spl_token_init_account("destination_collateral", "collateral_mint",
                                     "user_transfer_authority"),
              spl_token_transfer("source_liquidity", "liquidity_supply",
                                 "user_transfer_authority"),
              spl_token_mint_to("collateral_mint", "destination_collateral", "authority")>>)
process_refresh_reserve == Handler(<<W("reserve"), R("oracle"), R("clock")>>, <<>>)
process_deposit_reserve_liquidity ==
    Handler(<<R("source_liquidity"), R("destination_collateral"), W("reserve"),
              R("liquidity_supply"), R("collateral_mint"), R("lending_market"),
              R("authority"), R("user_transfer_authority"), R("clock"), R("token")>>,
            <<spl_token_transfer("source_liquidity", "liquidity_supply",
                                 "user_transfer_authority"),
              spl_token_mint_to("collateral_mint", "destination_collateral", "authority")>>)
process_redeem_reserve_collateral ==
    Handler(<<R("source_collateral"), R("destination_liquidity"), W("reserve"),
              R("collateral_mint"), R("liquidity_supply"), R("lending_market"),
              R("authority"), R("user_transfer_authority"), R("clock"), R("token")>>,
            <<spl_token_burn("source_collateral", "collateral_mint",
                             "user_transfer_authority"),
              spl_token_transfer("liquidity_supply", "destination_liquidity", "authority")>>)
process_init_obligation ==
    Handler(<<W("obligation"), R("lending_market"), RS("owner"), R("clock"), R("rent"),
              R("token")>>, <<>>)
process_refresh_obligation(k) ==
    Handler(<<W("obligation"), R("clock")>> \o Times(k, R("reserve")), <<>>)
process_deposit_obligation_collateral ==
    Handler(<<R("source_collateral"), R("destination_collateral"), R("reserve"),
              W("obligation"), R("lending_market"), RS("owner"),
              R("user_transfer_authority"), R("clock"), R("token")>>,
            <<spl_token_transfer("source_collateral", "destination_collateral",
                                 "user_transfer_authority")>>)
process_withdraw_obligation_collateral ==
    Handler(<<R("source_collateral"), R("destination_collateral"), R("reserve"),
              W("obligation"), R("lending_market"), R("authority"), RS("owner"),
              R("clock"), R("token")>>,
            <<spl_token_transfer("source_collateral", "destination_collateral",
                                 "authority")>>)
process_borrow_obligation_liquidity(host) ==
    Handler(<<R("source_liquidity"), R("destination_liquidity"), W("reserve"),
              R("fee_receiver"), W("obligation"), R("lending_market"), R("authority"),
              RS("owner"), R("clock"), R("token")>> \o If(host, <<R("host_fee_receiver")>>),
            If(host, <<spl_token_transfer("source_liquidity", "host_fee_receiver",
                                          "authority")>>)
            \o <<spl_token_transfer("source_liquidity", "fee_receiver", "authority"),
                 spl_token_transfer("source_liquidity", "destination_liquidity",
                                    "authority")>>)
process_repay_obligation_liquidity ==
    Handler(<<R("source_liquidity"), R("destination_liquidity"), W("reserve"),
              W("obligation"), R("lending_market"), R("user_transfer_authority"),
              R("clock"), R("token")>>,
            <<spl_token_transfer("source_liquidity", "destination_liquidity",
                                 "user_transfer_authority")>>)
process_liquidate_obligation ==
    Handler(<<R("source_liquidity"), R("destination_collateral"), W("repay_reserve"),
              R("repay_liquidity_supply"), R("withdraw_reserve"),
              R("withdraw_collateral_supply"), W("obligation"), R("lending_market"),
              R("authority"), R("user_transfer_authority"), R("clock"), R("token")>>,
            <<spl_token_transfer("source_liquidity", "repay_liquidity_supply",
                                 "user_transfer_authority"),
              spl_token_transfer("withdraw_collateral_supply", "destination_collateral",
                                 "authority")>>)
\* The accounts after the receiver's program are handed on to it.
process_flash_loan(receiver) ==
    Handler(<<R("source_liquidity"), R("destination_liquidity"), W("reserve"),
              R("fee_receiver"), R("host_fee_receiver"), R("lending_market"),
              R("authority"), R("token"), R("flash_loan_receiver")>> \o receiver,
            <<spl_token_transfer("source_liquidity", "destination_liquidity", "authority"),
              Call("flash_loan_receiver", "ReceiveFlashLoan",
                   <<"destination_liquidity", "source_liquidity", "token">>
                       \o [i \in DOMAIN receiver |-> receiver[i].name], {}),
              spl_token_transfer("source_liquidity", "host_fee_receiver", "authority"),
              spl_token_transfer("source_liquidity", "fee_receiver", "authority")>>)

process_instruction(k, host) ==
    [InitLendingMarket |-> process_init_lending_market,
     SetLendingMarketOwner |-> process_set_lending_market_owner,
     InitReserve |-> process_init_reserve, RefreshReserve |-> process_refresh_reserve,
     DepositReserveLiquidity |-> process_deposit_reserve_liquidity,
     RedeemReserveCollateral |-> process_redeem_reserve_collateral,
     InitObligation |-> process_init_obligation,
     RefreshObligation |-> process_refresh_obligation(k),
     DepositObligationCollateral |-> process_deposit_obligation_collateral,
     WithdrawObligationCollateral |-> process_withdraw_obligation_collateral,
     BorrowObligationLiquidity |-> process_borrow_obligation_liquidity(host),
     RepayObligationLiquidity |-> process_repay_obligation_liquidity,
     LiquidateObligation |-> process_liquidate_obligation,
     FlashLoan |-> process_flash_loan(Receiver)]

(* The receiver of a flash loan: what process_flash_loan sends it, and the *)
(* program token-lending/flash_loan_receiver, which pays the loan back.    *)

receive_flash_loan(receiver) ==
    [ReceiveFlashLoan |-> <<W("destination_liquidity"), W("source_liquidity"), R("token")>>
                              \o receiver]
receive_flash_loan_data == [ReceiveFlashLoan |-> Number(0) \o U64("amount")]
unpack_amount == <<Entry("ReceiveFlashLoan", <<Take("amount", 8)>>)>>
receiver_process_instruction ==
    [ReceiveFlashLoan |->
        Handler(<<R("destination_liquidity"), R("source_liquidity"), R("token"),
                  R("user_transfer_authority")>>,
                <<Call("token", "Transfer", <<"destination_liquidity", "source_liquidity",
                                              "user_transfer_authority">>, {})>>)]

(* The authority of a market, an address of the program: as the builders   *)
(* find it, and as the handlers check it and sign for it.                  *)

Derived == [authority |-> <<"lending_market">>]
Expected == [authority |-> <<"lending_market">>]
=============================================================================
