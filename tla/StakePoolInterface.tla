------------------------- MODULE StakePoolInterface -------------------------
(***************************************************************************)
(* The instructions of the stake pool: the accounts stake-pool/program/    *)
(* src/instruction.rs gives them, the accounts the handlers of processor.rs *)
(* take, and the instructions of other programs they call.  k validators;  *)
(* some: the pool has an authority for deposits or withdrawals of its own. *)
(***************************************************************************)
EXTENDS Wire, FiniteSetsExt, TLC

Pairs(k, metas) == [i \in 1 .. 2 * k |-> metas[((i - 1) % 2) + 1]]

-----------------------------------------------------------------------------
(* Builders *)

initialize(some) ==
    <<W("stake_pool"), RS("manager"), R("staker"), R("withdraw_authority"),
      W("validator_list"), R("reserve_stake"), W("pool_mint"), W("manager_fee"),
      R("token")>> \o If(some, <<RS("deposit_authority")>>)
add_validator_to_pool ==
    <<W("stake_pool"), RS("staker"), WS("funder"), R("withdraw_authority"),
      W("validator_list"), W("validator_stake"), R("validator_vote"), R("rent"),
      R("clock"), R("stake_history"), R("stake_config"), R("system"), R("stake")>>
remove_validator_from_pool ==
    <<W("stake_pool"), RS("staker"), R("withdraw_authority"), R("new_stake_authority"),
      W("validator_list"), W("validator_stake"), R("transient_stake"),
      W("destination_stake"), R("clock"), R("stake")>>
decrease_validator_stake ==
    <<R("stake_pool"), RS("staker"), R("withdraw_authority"), W("validator_list"),
      W("validator_stake"), W("transient_stake"), R("clock"), R("rent"), R("system"),
      R("stake")>>
increase_validator_stake ==
    <<R("stake_pool"), RS("staker"), R("withdraw_authority"), W("validator_list"),
      W("reserve_stake"), W("transient_stake"), R("validator_stake"), R("validator_vote"),
      R("clock"), R("rent"), R("stake_history"), R("stake_config"), R("system"),
      R("stake")>>
set_preferred_validator == <<W("stake_pool"), RS("staker"), R("validator_list")>>
update_validator_list_balance(k) ==
    <<R("stake_pool"), R("withdraw_authority"), W("validator_list"), W("reserve_stake"),
      R("clock"), R("stake_history"), R("stake")>>
        \o Pairs(k, <<W("validator_stake"), W("transient_stake")>>)
update_stake_pool_balance ==
    <<W("stake_pool"), R("withdraw_authority"), W("validator_list"), R("reserve_stake"),
      W("manager_fee"), W("pool_mint"), R("token")>>
cleanup_removed_validator_entries == <<R("stake_pool"), W("validator_list")>>
StakeDeposit(authority) ==
    <<W("stake_pool"), W("validator_list"), authority, R("withdraw_authority"),
      W("deposit_stake"), W("validator_stake"), W("reserve_stake"), W("pool_tokens_to"),
      W("manager_fee"), W("referrer_fee"), W("pool_mint"), R("clock"),
      R("stake_history"), R("token"), R("stake")>>
deposit_stake == StakeDeposit(R("deposit_authority"))
deposit_stake_with_authority == StakeDeposit(RS("deposit_authority"))
deposit_sol ==
    <<W("stake_pool"), R("withdraw_authority"), W("reserve_stake"), WS("lamports_from"),
      W("pool_tokens_to"), W("manager_fee"), W("referrer_fee"), W("pool_mint"),
      R("system"), R("token")>>
deposit_sol_with_authority == deposit_sol \o <<RS("sol_deposit_authority")>>
withdraw_stake ==
    <<W("stake_pool"), W("validator_list"), R("withdraw_authority"), W("stake_to_split"),
      W("stake_to_receive"), R("user_stake_authority"), RS("user_transfer_authority"),
      W("pool_tokens_from"), W("manager_fee"), W("pool_mint"), R("clock"), R("token"),
      R("stake")>>
withdraw_sol ==
    <<W("stake_pool"), R("withdraw_authority"), RS("user_transfer_authority"),
      W("pool_tokens_from"), W("reserve_stake"), W("lamports_to"), W("manager_fee"),
      W("pool_mint"), R("clock"), R("stake_history"), R("stake"), R("token")>>
withdraw_sol_with_authority == withdraw_sol \o <<RS("sol_withdraw_authority")>>
set_manager ==
    <<W("stake_pool"), RS("manager"), RS("new_manager"), R("new_manager_fee")>>
set_fee == <<W("stake_pool"), RS("manager")>>
set_staker == <<W("stake_pool"), RS("set_staker_authority"), R("new_staker")>>
set_funding_authority(some) ==
    <<W("stake_pool"), RS("manager")>> \o If(some, <<R("new_authority")>>)

Builders(k, some) ==
    [Initialize |-> initialize(some), AddValidatorToPool |-> add_validator_to_pool,
     RemoveValidatorFromPool |-> remove_validator_from_pool,
     DecreaseValidatorStake |-> decrease_validator_stake,
     IncreaseValidatorStake |-> increase_validator_stake,
     SetPreferredValidator |-> set_preferred_validator,
     UpdateValidatorListBalance |-> update_validator_list_balance(k),
     UpdateStakePoolBalance |-> update_stake_pool_balance,
     CleanupRemovedValidatorEntries |-> cleanup_removed_validator_entries,
     DepositStake |-> IF some THEN deposit_stake_with_authority ELSE deposit_stake,
     DepositSol |-> IF some THEN deposit_sol_with_authority ELSE deposit_sol,
     WithdrawStake |-> withdraw_stake,
     WithdrawSol |-> IF some THEN withdraw_sol_with_authority ELSE withdraw_sol,
     SetManager |-> set_manager, SetFee |-> set_fee, SetStaker |-> set_staker,
     SetFundingAuthority |-> set_funding_authority(some)]

\* The depositor first hands the stake to the deposit authority.
BeforeDeposit ==
    Times(2, IxOn("stake", "authorize",
                  <<"deposit_stake", "clock", "deposit_stake_withdraw_authority">>))

\* The instructions that update a whole list: each gives the accounts of k validators,
\* those after the first from, and says where in the list they are.
update_stake_pool(count, chunk) ==
    [i \in 1 .. (count + chunk - 1) \div chunk |->
        [from |-> (i - 1) * chunk, k |-> Min({chunk, count - (i - 1) * chunk}),
         start_index |-> (i - 1) * chunk]]

-----------------------------------------------------------------------------
(* Addresses: the seeds of the accounts that belong to the program.        *)

find_deposit_authority_program_address(pool) == <<pool, "deposit">>
find_withdraw_authority_program_address(pool) == <<pool, "withdraw">>
find_stake_program_address(vote, pool) == <<vote, pool>>
find_transient_stake_program_address(vote, pool, seed) == <<"transient", vote, pool, seed>>

\* The builders that are given a vote account and compute the others.
add_validator_to_pool_with_vote ==
    [withdraw_authority |-> find_withdraw_authority_program_address("stake_pool"),
     validator_stake |-> find_stake_program_address("vote", "stake_pool")]
remove_validator_from_pool_with_vote ==
    [withdraw_authority |-> find_withdraw_authority_program_address("stake_pool"),
     validator_stake |-> find_stake_program_address("vote", "stake_pool"),
     transient_stake |-> find_transient_stake_program_address("vote", "stake_pool", "seed")]
increase_validator_stake_with_vote ==
    [withdraw_authority |-> find_withdraw_authority_program_address("stake_pool"),
     transient_stake |-> find_transient_stake_program_address("vote", "stake_pool", "seed"),
     validator_stake |-> find_stake_program_address("vote", "stake_pool")]
decrease_validator_stake_with_vote ==
    [withdraw_authority |-> find_withdraw_authority_program_address("stake_pool"),
     validator_stake |-> find_stake_program_address("vote", "stake_pool"),
     transient_stake |-> find_transient_stake_program_address("vote", "stake_pool", "seed")]

Derived(ix, some) ==
    LET authority ==
            [withdraw_authority |-> find_withdraw_authority_program_address("stake_pool")]
        deposit ==
            [deposit_authority |-> find_deposit_authority_program_address("stake_pool")]
    IN  CASE ix = "AddValidatorToPool" -> add_validator_to_pool_with_vote
          [] ix = "RemoveValidatorFromPool" -> remove_validator_from_pool_with_vote
          [] ix = "IncreaseValidatorStake" -> increase_validator_stake_with_vote
          [] ix = "DecreaseValidatorStake" -> decrease_validator_stake_with_vote
          [] ix = "UpdateValidatorListBalance" -> decrease_validator_stake_with_vote
          [] ix = "DepositStake" /\ ~some -> authority @@ deposit
          [] OTHER -> authority

\* What the handlers check and sign with: authority_signature_seeds and the seeds of
\* the accounts they create.
check_program_derived_authority(seed) == <<"stake_pool", seed>>
check_authority_withdraw == check_program_derived_authority("withdraw")
check_validator_stake_address == find_stake_program_address("vote", "stake_pool")
check_transient_stake_address ==
    find_transient_stake_program_address("vote", "stake_pool", "seed")

Expected(ix, some) ==
    LET stakes == [validator_stake |-> check_validator_stake_address,
                   transient_stake |-> check_transient_stake_address]
        authority == [withdraw_authority |-> check_authority_withdraw]
    IN  CASE ix \in {"AddValidatorToPool", "RemoveValidatorFromPool", "IncreaseValidatorStake",
                     "DecreaseValidatorStake", "UpdateValidatorListBalance"} ->
                authority @@ stakes
          [] ix = "DepositStake" /\ ~some ->
                authority @@ [deposit_authority |->
                                 find_deposit_authority_program_address("stake_pool")]
          [] OTHER -> authority

-----------------------------------------------------------------------------
(* Calls of other programs: the accounts of each stand in the order of the *)
(* instruction that is called.  seeds: those of the pool's authority.      *)

create_transient_stake_account(account) ==
    <<Call("system", "allocate", <<account>>, {account}),
      Call("system", "assign", <<account>>, {account})>>
\* A new account is created by its payer; funded: it already holds lamports, and is
\* topped up instead.
create_pda_account(payer, account, funded) ==
    IF funded
    THEN <<Call("system", "transfer", <<payer, account>>, {}),
           Call("system", "allocate", <<account>>, {account}),
           Call("system", "assign", <<account>>, {account})>>
    ELSE <<Call("system", "create_account", <<payer, account>>, {account})>>
stake_delegate(stake, authority) ==
    <<Call("stake", "delegate_stake",
           <<stake, "validator_vote", "clock", "stake_history", "stake_config", authority>>,
           {authority})>>
stake_deactivate(stake, authority) ==
    <<Call("stake", "deactivate_stake", <<stake, "clock", authority>>, {authority})>>
stake_split(stake, authority, split) ==
    <<Call("stake", "split", <<stake, split, authority>>, {authority})>>
stake_merge(source, authority, destination) ==
    <<Call("stake", "merge", <<destination, source, "clock", "stake_history", authority>>,
           {authority})>>
stake_authorize(stake, authority) ==
    Times(2, Call("stake", "authorize", <<stake, "clock", authority>>, {}))
stake_authorize_signed(stake, authority) ==
    Times(2, Call("stake", "authorize", <<stake, "clock", authority>>, {authority}))
stake_withdraw(source, authority, destination) ==
    <<Call("stake", "withdraw",
           <<source, destination, "clock", "stake_history", authority>>, {authority})>>
token_burn(account, authority) ==
    <<Call("token", "Burn", <<account, "pool_mint", authority>>, {})>>
token_mint_to(destination, authority) ==
    <<Call("token", "MintTo", <<"pool_mint", destination, authority>>, {authority})>>
token_transfer(source, destination, authority) ==
    <<Call("token", "Transfer", <<source, destination, authority>>, {})>>
sol_transfer(source, destination) ==
    <<Call("system", "transfer", <<source, destination>>, {})>>

-----------------------------------------------------------------------------
(* Handlers *)

Authority == "withdraw_authority"

check_manager == RS("manager")
check_staker == RS("staker")
\* Asked for only if the pool has such an authority.
check_sol_deposit_authority(some) == If(some, <<RS("sol_deposit_authority")>>)
check_sol_withdraw_authority(some) == If(some, <<RS("sol_withdraw_authority")>>)

process_initialize(some) ==
    Handler(<<W("stake_pool"), RS("manager"), R("staker"), R(Authority),
              W("validator_list"), R("reserve_stake"), R("pool_mint"), R("manager_fee"),
              R("token")>> \o If(some, <<R("deposit_authority")>>),
            token_mint_to("manager_fee", Authority))
process_add_validator_to_pool(funded) ==
    Handler(<<R("stake_pool"), check_staker, R("funder"), R(Authority),
              W("validator_list"), R("validator_stake"), R("validator_vote"), R("rent"),
              R("clock"), R("stake_history"), R("stake_config"), R("system"), R("stake")>>,
            create_pda_account("funder", "validator_stake", funded)
            \o <<Call("stake", "initialize", <<"validator_stake", "rent">>, {})>>
            \o stake_delegate("validator_stake", Authority))
process_remove_validator_from_pool ==
    Handler(<<W("stake_pool"), check_staker, R(Authority), R("new_stake_authority"),
              W("validator_list"), R("validator_stake"), R("transient_stake"),
              R("destination_stake"), R("clock"), R("stake")>>,
            stake_split("validator_stake", Authority, "destination_stake")
            \o stake_authorize_signed("destination_stake", Authority))
process_decrease_validator_stake ==
    Handler(<<R("stake_pool"), check_staker, R(Authority), W("validator_list"),
              R("validator_stake"), R("transient_stake"), R("clock"), R("rent"),
              R("system"), R("stake")>>,
            create_transient_stake_account("transient_stake")
            \o stake_split("validator_stake", Authority, "transient_stake")
            \o stake_deactivate("transient_stake", Authority))
process_increase_validator_stake ==
    Handler(<<R("stake_pool"), check_staker, R(Authority), W("validator_list"),
              R("reserve_stake"), R("transient_stake"), R("validator_stake"),
              R("validator_vote"), R("clock"), R("rent"), R("stake_history"),
              R("stake_config"), R("system"), R("stake")>>,
            create_transient_stake_account("transient_stake")
            \o stake_split("reserve_stake", Authority, "transient_stake")
            \o stake_delegate("transient_stake", Authority))
process_set_preferred_validator ==
    Handler(<<W("stake_pool"), check_staker, R("validator_list")>>, <<>>)
\* One of each of the calls that the state of a validator's accounts may lead to.
process_update_validator_list_balance(k) ==
    Handler(<<R("stake_pool"), R(Authority), W("validator_list"), R("reserve_stake"),
              R("clock"), R("stake_history"), R("stake")>>
                \o Pairs(k, <<R("validator_stake"), R("transient_stake")>>),
            If(k > 0, stake_merge("transient_stake", Authority, "reserve_stake")
                      \o stake_merge("transient_stake", Authority, "validator_stake")
                      \o stake_withdraw("validator_stake", Authority, "reserve_stake")
                      \o stake_merge("validator_stake", Authority, "reserve_stake")))
\* The entries of the list that such an instruction updates: of each entry and the
\* accounts that stand in its place, those that belong together.
UpdatedEntries(from, k, start_index) ==
    {start_index + j : j \in {i \in 1 .. k : start_index + i = from + i}}
process_update_stake_pool_balance ==
    Handler(<<W("stake_pool"), R(Authority), W("validator_list"), R("reserve_stake"),
              R("manager_fee"), R("pool_mint"), R("token")>>,
            token_mint_to("manager_fee", Authority))
process_cleanup_removed_validator_entries ==
    Handler(<<R("stake_pool"), W("validator_list")>>, <<>>)
\* The depositor has made the deposit authority the authority of the stake; the
\* pool signs for its own, another one signs the instruction.
process_deposit_stake(some) ==
    Handler(<<W("stake_pool"), W("validator_list"), R("deposit_authority"), R(Authority),
              R("deposit_stake"), R("validator_stake"), R("reserve_stake"),
              R("pool_tokens_to"), R("manager_fee"), R("referrer_fee"), R("pool_mint"),
              R("clock"), R("stake_history"), R("token"), R("stake")>>,
            (IF some THEN stake_authorize("deposit_stake", "deposit_authority")
             ELSE stake_authorize_signed("deposit_stake", "deposit_authority"))
            \o stake_merge("deposit_stake", Authority, "validator_stake")
            \o token_mint_to("pool_tokens_to", Authority)
            \o token_mint_to("manager_fee", Authority)
            \o token_mint_to("referrer_fee", Authority)
            \o stake_withdraw("validator_stake", Authority, "reserve_stake"))
process_deposit_sol(some) ==
    Handler(<<W("stake_pool"), R(Authority), R("reserve_stake"), R("lamports_from"),
              R("pool_tokens_to"), R("manager_fee"), R("referrer_fee"), R("pool_mint"),
              R("system"), R("token")>> \o check_sol_deposit_authority(some),
            sol_transfer("lamports_from", "reserve_stake")
            \o token_mint_to("pool_tokens_to", Authority)
            \o token_mint_to("manager_fee", Authority)
            \o token_mint_to("referrer_fee", Authority))
process_withdraw_stake ==
    Handler(<<W("stake_pool"), W("validator_list"), R(Authority), R("stake_to_split"),
              R("stake_to_receive"), R("user_stake_authority"),
              R("user_transfer_authority"), R("pool_tokens_from"), R("manager_fee"),
              R("pool_mint"), R("clock"), R("token"), R("stake")>>,
            token_burn("pool_tokens_from", "user_transfer_authority")
            \o stake_split("stake_to_split", Authority, "stake_to_receive")
            \o stake_authorize_signed("stake_to_receive", Authority)
            \o token_transfer("pool_tokens_from", "manager_fee", "user_transfer_authority"))
process_withdraw_sol(some) ==
    Handler(<<W("stake_pool"), R(Authority), R("user_transfer_authority"),
              R("pool_tokens_from"), R("reserve_stake"), R("lamports_to"),
              R("manager_fee"), R("pool_mint"), R("clock"), R("stake_history"),
              R("stake"), R("token")>> \o check_sol_withdraw_authority(some),
            token_burn("pool_tokens_from", "user_transfer_authority")
            \o token_transfer("pool_tokens_from", "manager_fee", "user_transfer_authority")
            \o stake_withdraw("reserve_stake", Authority, "lamports_to"))
process_set_manager ==
    Handler(<<W("stake_pool"), check_manager, RS("new_manager"), R("new_manager_fee")>>,
            <<>>)
process_set_fee == Handler(<<W("stake_pool"), check_manager>>, <<>>)
process_set_staker ==
    Handler(<<W("stake_pool"), RS("set_staker_authority"), R("new_staker")>>, <<>>)
process_set_funding_authority(some) ==
    Handler(<<W("stake_pool"), check_manager>> \o If(some, <<R("new_authority")>>), <<>>)

process(k, some) ==
    [Initialize |-> process_initialize(some),
     AddValidatorToPool |-> process_add_validator_to_pool(some),
     RemoveValidatorFromPool |-> process_remove_validator_from_pool,
     DecreaseValidatorStake |-> process_decrease_validator_stake,
     IncreaseValidatorStake |-> process_increase_validator_stake,
     SetPreferredValidator |-> process_set_preferred_validator,
     UpdateValidatorListBalance |-> process_update_validator_list_balance(k),
     UpdateStakePoolBalance |-> process_update_stake_pool_balance,
     CleanupRemovedValidatorEntries |-> process_cleanup_removed_validator_entries,
     DepositStake |-> process_deposit_stake(some),
     DepositSol |-> process_deposit_sol(some), WithdrawStake |-> process_withdraw_stake,
     WithdrawSol |-> process_withdraw_sol(some), SetManager |-> process_set_manager,
     SetFee |-> process_set_fee, SetStaker |-> process_set_staker,
     SetFundingAuthority |-> process_set_funding_authority(some)]
=============================================================================
