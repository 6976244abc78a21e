------------------------ MODULE GovernanceInterface -------------------------
(***************************************************************************)
(* The instructions of the governance program and of its chat program: the *)
(* accounts governance/program/src/instruction.rs and governance/chat/     *)
(* program/src/instruction.rs give them, the accounts the handlers take,   *)
(* and the instructions of other programs they call.                       *)
(*                                                                         *)
(* council: the realm has a council; addin and max: the realm takes voter  *)
(* weights and the largest voter weight from an add-in.  The instructions  *)
(* that do not depend on these use the same choices for their own: whether *)
(* a deposit is the first, a message a reply, an authority is handed over, *)
(* an address was sent lamports before it is created.                      *)
(***************************************************************************)
EXTENDS Wire, TLC

-----------------------------------------------------------------------------
(* Builders *)

with_realm_config_accounts(addin, max) ==
    <<R("realm_config")>> \o If(addin, <<R("voter_weight_record")>>)
        \o If(max, <<R("max_voter_weight_record")>>)

create_realm(council, addin, max) ==
    <<W("realm"), R("realm_authority"), R("community_token_mint"),
      W("community_token_holding"), WS("payer"), R("system"), R("token"), R("rent")>>
        \o If(council, <<R("council_token_mint"), W("council_token_holding")>>)
        \o If(addin, <<R("voter_weight_addin")>>)
        \o If(max, <<R("max_voter_weight_addin")>>)
        \o If(addin \/ max, <<W("realm_config")>>)
deposit_governing_tokens ==
    <<R("realm"), W("holding"), W("source"), RS("governing_token_owner"),
      RS("transfer_authority"), W("token_owner_record"), WS("payer"), R("system"),
      R("token")>>
withdraw_governing_tokens ==
    <<R("realm"), W("holding"), W("destination"), RS("governing_token_owner"),
      W("token_owner_record"), R("token")>>
set_governance_delegate == <<RS("governance_authority"), W("token_owner_record")>>
create_governance(addin) ==
    <<R("realm"), W("governance"), R("governed_account"), R("token_owner_record"),
      WS("payer"), R("system"), RS("create_authority")>>
        \o with_realm_config_accounts(addin, FALSE)
create_program_governance(addin) ==
    <<R("realm"), W("governance"), R("governed_program"), W("program_data"),
      RS("upgrade_authority"), R("token_owner_record"), WS("payer"), R("loader"),
      R("system"), RS("create_authority")>> \o with_realm_config_accounts(addin, FALSE)
create_mint_governance(addin) ==
    <<R("realm"), W("governance"), W("governed_mint"), RS("mint_authority"),
      R("token_owner_record"), WS("payer"), R("token"), R("system"),
      RS("create_authority")>> \o with_realm_config_accounts(addin, FALSE)
create_token_governance(addin) ==
    <<R("realm"), W("governance"), W("governed_token"), RS("token_owner"),
      R("token_owner_record"), WS("payer"), R("token"), R("system"),
      RS("create_authority")>> \o with_realm_config_accounts(addin, FALSE)
create_proposal(addin) ==
    <<R("realm"), W("proposal"), W("governance"), W("proposal_owner_record"),
      R("governing_token_mint"), RS("governance_authority"), WS("payer"), R("system")>>
        \o with_realm_config_accounts(addin, FALSE)
add_signatory ==
    <<W("proposal"), R("token_owner_record"), RS("governance_authority"),
      W("signatory_record"), WS("payer"), R("system")>>
remove_signatory ==
    <<W("proposal"), R("token_owner_record"), RS("governance_authority"),
      W("signatory_record"), W("beneficiary")>>
\* owner: the proposal has no signatories and its owner signs it off.
sign_off_proposal(owner) ==
    <<W("realm"), W("governance"), W("proposal"), RS("signatory")>>
        \o (IF owner THEN <<R("proposal_owner_record")>> ELSE <<W("signatory_record")>>)
cast_vote(addin, max) ==
    <<W("realm"), W("governance"), W("proposal"), W("proposal_owner_record"),
      W("voter_token_owner_record"), RS("governance_authority"), W("vote_record"),
      R("vote_governing_token_mint"), WS("payer"), R("system")>>
        \o with_realm_config_accounts(addin, max)
finalize_vote(max) ==
    <<W("realm"), W("governance"), W("proposal"), W("proposal_owner_record"),
      R("governing_token_mint")>> \o with_realm_config_accounts(FALSE, max)
\* voting: the vote is taken back while the proposal is voted on.
relinquish_vote(voting) ==
    <<R("realm"), R("governance"), W("proposal"), W("token_owner_record"),
      W("vote_record"), R("vote_governing_token_mint")>>
        \o If(voting, <<RS("governance_authority"), W("beneficiary")>>)
cancel_proposal ==
    <<W("realm"), W("governance"), W("proposal"), W("proposal_owner_record"),
      RS("governance_authority")>>
insert_transaction ==
    <<R("governance"), W("proposal"), R("token_owner_record"), RS("governance_authority"),
      W("proposal_transaction"), WS("payer"), R("system"), R("rent")>>
remove_transaction ==
    <<W("proposal"), R("token_owner_record"), RS("governance_authority"),
      W("proposal_transaction"), W("beneficiary")>>
execute_transaction(executed) ==
    <<R("governance"), W("proposal"), W("proposal_transaction"), R(executed.program)>>
        \o executed.accounts
set_governance_config == <<WS("governance")>>
flag_transaction_error ==
    <<W("proposal"), R("token_owner_record"), RS("governance_authority"),
      W("proposal_transaction")>>
set_realm_authority(some) ==
    <<W("realm"), RS("realm_authority")>> \o If(some, <<R("new_realm_authority")>>)
set_realm_config(council, addin, max) ==
    <<W("realm"), RS("realm_authority")>>
        \o If(council, <<R("council_token_mint"), W("council_token_holding")>>)
        \o <<R("system"), W("realm_config")>>
        \o If(addin, <<R("voter_weight_addin")>>)
        \o If(max, <<R("max_voter_weight_addin")>>)
        \o If(addin \/ max, <<WS("payer")>>)
create_token_owner_record ==
    <<R("realm"), R("governing_token_owner"), W("token_owner_record"),
      R("governing_token_mint"), WS("payer"), R("system")>>
upgrade_program_metadata == <<W("program_metadata"), WS("payer"), R("system")>>
create_native_treasury ==
    <<R("governance"), W("native_treasury"), WS("payer"), R("system")>>

\* The chat's payer is not writable: it has to be the payer of the transaction.
post_message(reply, addin) ==
    <<R("governance_program"), R("realm"), R("governance"), R("proposal"),
      R("token_owner_record"), RS("governance_authority"), WS("chat_message"),
      RS("payer"), R("system")>>
        \o If(reply, <<R("reply_to")>>) \o with_realm_config_accounts(addin, FALSE)

\* The instructions proposals execute here: a change of the governance's own
\* configuration, which calls the program itself, a payment from its treasury and a
\* transfer of its tokens.
Executed(config, treasury) ==
    CASE config ->
            [program |-> "governance", ix |-> "SetGovernanceConfig",
             accounts |-> <<W("governance")>>]
      [] ~config /\ treasury ->
            [program |-> "system", ix |-> "transfer",
             accounts |-> <<W("native_treasury"), W("recipient")>>]
      [] OTHER ->
            [program |-> "token", ix |-> "Transfer",
             accounts |-> <<W("source"), W("destination"), R("governance")>>]

Builders(council, addin, max) ==
    [CreateRealm |-> create_realm(council, addin, max),
     DepositGoverningTokens |-> deposit_governing_tokens,
     WithdrawGoverningTokens |-> withdraw_governing_tokens,
     SetGovernanceDelegate |-> set_governance_delegate,
     CreateGovernance |-> create_governance(addin),
     CreateProgramGovernance |-> create_program_governance(addin),
     CreateMintGovernance |-> create_mint_governance(addin),
     CreateTokenGovernance |-> create_token_governance(addin),
     CreateProposal |-> create_proposal(addin), AddSignatory |-> add_signatory,
     RemoveSignatory |-> remove_signatory, SignOffProposal |-> sign_off_proposal(council),
     CastVote |-> cast_vote(addin, max), FinalizeVote |-> finalize_vote(max),
     RelinquishVote |-> relinquish_vote(council), CancelProposal |-> cancel_proposal,
     InsertTransaction |-> insert_transaction, RemoveTransaction |-> remove_transaction,
     ExecuteTransaction |-> execute_transaction(Executed(council, addin)),
     SetGovernanceConfig |-> set_governance_config,
     FlagTransactionError |-> flag_transaction_error,
     SetRealmAuthority |-> set_realm_authority(council),
     SetRealmConfig |-> set_realm_config(council, addin, max),
     CreateTokenOwnerRecord |-> create_token_owner_record,
     UpdateProgramMetadata |-> upgrade_program_metadata,
     CreateNativeTreasury |-> create_native_treasury,
     PostMessage |-> post_message(council, addin)]

-----------------------------------------------------------------------------
(* Addresses: the seeds of the accounts that belong to the program.        *)

get_realm_address_seeds(name) == <<"governance", name>>
get_governing_token_holding_address_seeds(realm, mint) == <<"governance", realm, mint>>
get_realm_config_address_seeds(realm) == <<"realm-config", realm>>
get_token_owner_record_address_seeds(realm, mint, owner) ==
    <<"governance", realm, mint, owner>>
get_governance_address_seeds(realm, account) == <<"account-governance", realm, account>>
get_program_governance_address_seeds(realm, program) ==
    <<"program-governance", realm, program>>
get_mint_governance_address_seeds(realm, mint) == <<"mint-governance", realm, mint>>
get_token_governance_address_seeds(realm, token) == <<"token-governance", realm, token>>
get_proposal_address_seeds(governance, mint, index) ==
    <<"governance", governance, mint, index>>
get_signatory_record_address_seeds(proposal, signatory) ==
    <<"governance", proposal, signatory>>
get_vote_record_address_seeds(proposal, record) == <<"governance", proposal, record>>

get_proposal_transaction_address_seeds(proposal, option, index) ==
    <<"governance", proposal, option, index>>
get_native_treasury_address_seeds(governance) == <<"native-treasury", governance>>
get_program_metadata_seeds == <<"metadata">>

\* The address that the builder of each kind of governance finds for it, and the type
\* that the handler stores.
GovernanceAddress ==
    [CreateGovernance |-> get_governance_address_seeds("realm", "governed"),
     CreateProgramGovernance |-> get_program_governance_address_seeds("realm", "governed"),
     CreateMintGovernance |-> get_mint_governance_address_seeds("realm", "governed"),
     CreateTokenGovernance |-> get_token_governance_address_seeds("realm", "governed")]
account_type ==
    [CreateGovernance |-> "GovernanceV2", CreateProgramGovernance |-> "ProgramGovernanceV2",
     CreateMintGovernance |-> "MintGovernanceV2", CreateTokenGovernance |-> "TokenGovernanceV2"]

\* GovernanceV2::get_governance_address_seeds: the seeds that follow from the type.
GovernanceSeeds(type) ==
    CASE type = "GovernanceV2" -> get_governance_address_seeds("realm", "governed")
      [] type = "ProgramGovernanceV2" -> get_program_governance_address_seeds("realm", "governed")
      [] type = "MintGovernanceV2" -> get_mint_governance_address_seeds("realm", "governed")
      [] type = "TokenGovernanceV2" -> get_token_governance_address_seeds("realm", "governed")

\* The addresses a builder computes itself, or is given by those who created the
\* account; kind: how the governance of the instruction was created.
Derived(ix, kind) ==
    LET realm == get_realm_address_seeds("name")
        holding(mint) == get_governing_token_holding_address_seeds("realm", mint)
        config == [realm_config |-> get_realm_config_address_seeds("realm")]
        record == get_token_owner_record_address_seeds("realm", "mint", "owner")
        signatory ==
            [signatory_record |-> get_signatory_record_address_seeds("proposal", "signatory")]
    IN  CASE ix = "CreateRealm" ->
                config @@ [realm |-> realm,
                           community_token_holding |-> holding("community_token_mint"),
                           council_token_holding |-> holding("council_token_mint")]
          [] ix \in {"DepositGoverningTokens", "WithdrawGoverningTokens"} ->
                [realm |-> realm, holding |-> holding("mint"), token_owner_record |-> record]
          [] ix = "CreateTokenOwnerRecord" -> [token_owner_record |-> record]
          [] ix \in DOMAIN GovernanceAddress ->
                config @@ [governance |-> GovernanceAddress[ix]]
          [] ix = "CreateProposal" ->
                config @@ [proposal |-> get_proposal_address_seeds(
                                            "governance", "governing_token_mint",
                                            "proposal_index")]
          [] ix \in {"AddSignatory", "RemoveSignatory", "SignOffProposal"} -> signatory
          [] ix = "CastVote" ->
                config @@ [vote_record |-> get_vote_record_address_seeds(
                                               "proposal", "voter_token_owner_record")]
          [] ix = "InsertTransaction" ->
                [proposal_transaction |-> get_proposal_transaction_address_seeds(
                                              "proposal", "option_index", "index")]
          [] ix = "ExecuteTransaction" ->
                [governance |-> GovernanceAddress[kind],
                 native_treasury |-> get_native_treasury_address_seeds("governance")]
          [] ix = "SetRealmConfig" -> config
          [] ix = "UpdateProgramMetadata" -> [program_metadata |-> get_program_metadata_seeds]
          [] ix = "CreateNativeTreasury" ->
                [native_treasury |-> get_native_treasury_address_seeds("governance")]
          [] OTHER -> <<>>

-----------------------------------------------------------------------------
(* Calls of other programs.  Accounts that are created are addresses of    *)
(* the program, which signs for them with their seeds; funded: lamports    *)
(* were sent to the address before.                                        *)

create_and_serialize_account_signed(account, funded) ==
    IF funded
    THEN <<Call("system", "transfer", <<"payer", account>>, {}),
           Call("system", "allocate", <<account>>, {account}),
           Call("system", "assign", <<account>>, {account})>>
    ELSE <<Call("system", "create_account", <<"payer", account>>, {account})>>
create_and_serialize_account(account) ==
    <<Call("system", "create_account", <<"payer", account>>, {})>>
create_spl_token_account_signed(account, mint, owner) ==
    <<Call("system", "create_account", <<"payer", account>>, {account}),
      Call("token", "InitializeAccount", <<account, mint, owner, "rent">>, {})>>
transfer_spl_tokens(source, destination, authority) ==
    <<Call("token", "Transfer", <<source, destination, authority>>, {})>>
transfer_spl_tokens_signed(source, destination, authority) ==
    <<Call("token", "Transfer", <<source, destination, authority>>, {authority})>>
set_spl_token_account_authority(account, authority) ==
    <<Call("token", "SetAuthority", <<account, authority>>, {})>>
set_program_upgrade_authority(data, authority, new) ==
    <<Call("loader", "set_upgrade_authority", <<data, authority, new>>, {})>>

-----------------------------------------------------------------------------
(* Handlers.  Where an account is written only by the program that is      *)
(* called, that program needs it to be writable.                           *)

resolve_voter_weight(addin) == If(addin, <<R("voter_weight_record")>>)
resolve_max_voter_weight(max) == If(max, <<R("max_voter_weight_record")>>)
\* The authority that creates a governance is the owner of governing tokens.
assert_create_authority_can_create_governance(addin) ==
    <<R("realm_config")>> \o resolve_voter_weight(addin)

process_create_realm(council, addin, max) ==
    Handler(<<W("realm"), R("realm_authority"), R("community_token_mint"),
              R("community_token_holding"), R("payer"), R("system"), R("token"), R("rent")>>
                \o If(council, <<R("council_token_mint"), R("council_token_holding")>>)
                \o If(addin, <<R("voter_weight_addin")>>)
                \o If(max, <<R("max_voter_weight_addin")>>)
                \o If(addin \/ max, <<W("realm_config")>>),
            create_spl_token_account_signed("community_token_holding",
                                            "community_token_mint", "realm")
            \o If(council, create_spl_token_account_signed("council_token_holding",
                                                           "council_token_mint", "realm"))
            \o If(addin \/ max, create_and_serialize_account_signed("realm_config", max))
            \o create_and_serialize_account_signed("realm", council))
\* The record is created with the first deposit.
process_deposit_governing_tokens(first) ==
    Handler(<<R("realm"), R("holding"), R("source"),
              Meta("governing_token_owner", first, FALSE), R("transfer_authority"),
              W("token_owner_record"), R("payer"), R("system"), R("token")>>,
            transfer_spl_tokens("source", "holding", "transfer_authority")
            \o If(first, create_and_serialize_account_signed("token_owner_record", FALSE)))
process_withdraw_governing_tokens ==
    Handler(<<R("realm"), R("holding"), R("destination"), RS("governing_token_owner"),
              W("token_owner_record"), R("token")>>,
            transfer_spl_tokens_signed("holding", "destination", "realm"))
process_set_governance_delegate ==
    Handler(<<RS("governance_authority"), W("token_owner_record")>>, <<>>)
process_create_governance(addin) ==
    Handler(<<R("realm"), W("governance"), R("governed_account"), R("token_owner_record"),
              R("payer"), R("system"), RS("create_authority")>>
                \o assert_create_authority_can_create_governance(addin),
            create_and_serialize_account_signed("governance", addin))
\* transfer: the authority over what is governed is given to the governance.
process_create_program_governance(addin, transfer) ==
    Handler(<<R("realm"), W("governance"), R("governed_program"), R("program_data"),
              Meta("upgrade_authority", ~transfer, FALSE), R("token_owner_record"),
              R("payer"), R("loader"), R("system"), RS("create_authority")>>
                \o assert_create_authority_can_create_governance(addin),
            create_and_serialize_account_signed("governance", addin)
            \o If(transfer, set_program_upgrade_authority("program_data",
                                                          "upgrade_authority", "governance")))
process_create_mint_governance(addin, transfer) ==
    Handler(<<R("realm"), W("governance"), R("governed_mint"),
              Meta("mint_authority", ~transfer, FALSE), R("token_owner_record"),
              R("payer"), R("token"), R("system"), RS("create_authority")>>
                \o assert_create_authority_can_create_governance(addin),
            create_and_serialize_account_signed("governance", addin)
            \o If(transfer, set_spl_token_account_authority("governed_mint", "mint_authority")
                         \o set_spl_token_account_authority("governed_mint",
                                                            "mint_authority")))
process_create_token_governance(addin, transfer) ==
    Handler(<<R("realm"), W("governance"), R("governed_token"),
              Meta("token_owner", ~transfer, FALSE), R("token_owner_record"),
              R("payer"), R("token"), R("system"), RS("create_authority")>>
                \o assert_create_authority_can_create_governance(addin),
            create_and_serialize_account_signed("governance", addin)
            \o If(transfer, set_spl_token_account_authority("governed_token", "token_owner")
                         \o set_spl_token_account_authority("governed_token", "token_owner")))
process_create_proposal(addin) ==
    Handler(<<R("realm"), W("proposal"), W("governance"), W("proposal_owner_record"),
              R("governing_token_mint"), RS("governance_authority"), R("payer"),
              R("system"), R("realm_config")>> \o resolve_voter_weight(addin),
            create_and_serialize_account_signed("proposal", addin))
process_add_signatory ==
    Handler(<<W("proposal"), R("token_owner_record"), RS("governance_authority"),
              W("signatory_record"), R("payer"), R("system")>>,
            create_and_serialize_account_signed("signatory_record", FALSE))
process_remove_signatory ==
    Handler(<<W("proposal"), R("token_owner_record"), RS("governance_authority"),
              W("signatory_record"), W("beneficiary")>>, <<>>)
process_sign_off_proposal(owner) ==
    Handler(<<W("realm"), W("governance"), W("proposal"), RS("signatory")>>
                \o (IF owner THEN <<R("proposal_owner_record")>>
                    ELSE <<W("signatory_record")>>), <<>>)
process_cast_vote(addin, max) ==
    Handler(<<W("realm"), W("governance"), W("proposal"), W("proposal_owner_record"),
              W("voter_token_owner_record"), RS("governance_authority"), W("vote_record"),
              R("vote_governing_token_mint"), R("payer"), R("system"), R("realm_config")>>
                \o resolve_voter_weight(addin) \o resolve_max_voter_weight(max),
            create_and_serialize_account_signed("vote_record", max))
process_finalize_vote(max) ==
    Handler(<<W("realm"), W("governance"), W("proposal"), W("proposal_owner_record"),
              R("governing_token_mint"), R("realm_config")>>
                \o resolve_max_voter_weight(max), <<>>)
process_relinquish_vote(voting) ==
    Handler(<<R("realm"), R("governance"), Meta("proposal", FALSE, voting),
              W("token_owner_record"), W("vote_record"), R("vote_governing_token_mint")>>
                \o If(voting, <<RS("governance_authority"), W("beneficiary")>>), <<>>)
process_cancel_proposal ==
    Handler(<<W("realm"), W("governance"), W("proposal"), W("proposal_owner_record"),
              RS("governance_authority")>>, <<>>)
process_insert_transaction ==
    Handler(<<R("governance"), W("proposal"), R("token_owner_record"),
              RS("governance_authority"), W("proposal_transaction"), R("payer"),
              R("system"), R("rent")>>,
            create_and_serialize_account_signed("proposal_transaction", FALSE))
process_remove_transaction ==
    Handler(<<W("proposal"), R("token_owner_record"), RS("governance_authority"),
              W("proposal_transaction"), W("beneficiary")>>, <<>>)
\* The governance and its treasury sign for the instruction that is executed.
process_execute_transaction(executed) ==
    Handler(<<R("governance"), W("proposal"), W("proposal_transaction"),
              R(executed.program)>> \o executed.accounts,
            <<Call(executed.program, executed.ix,
                   [i \in DOMAIN executed.accounts |-> executed.accounts[i].name],
                   {"governance", "native_treasury"})>>)
process_set_governance_config == Handler(<<WS("governance")>>, <<>>)
process_flag_transaction_error ==
    Handler(<<W("proposal"), R("token_owner_record"), RS("governance_authority"),
              W("proposal_transaction")>>, <<>>)
process_set_realm_authority(some) ==
    Handler(<<W("realm"), RS("realm_authority")>>
                \o If(some, <<R("new_realm_authority")>>), <<>>)
process_set_realm_config(council, addin, max) ==
    Handler(<<W("realm"), RS("realm_authority")>>
                \o If(council, <<R("council_token_mint"), R("council_token_holding")>>)
                \o <<R("system"), W("realm_config")>>
                \o If(addin, <<R("voter_weight_addin")>>)
                \o If(max, <<R("max_voter_weight_addin")>>)
                \o If(addin \/ max, <<R("payer")>>),
            If(addin \/ max, create_and_serialize_account_signed("realm_config", max)))
process_create_token_owner_record ==
    Handler(<<R("realm"), R("governing_token_owner"), W("token_owner_record"),
              R("governing_token_mint"), R("payer"), R("system")>>,
            create_and_serialize_account_signed("token_owner_record", FALSE))
process_update_program_metadata(first) ==
    Handler(<<W("program_metadata"), R("payer"), R("system")>>,
            If(first, create_and_serialize_account_signed("program_metadata", FALSE)))
process_create_native_treasury(funded) ==
    Handler(<<R("governance"), R("native_treasury"), R("payer"), R("system")>>,
            create_and_serialize_account_signed("native_treasury", funded))
process_post_message(reply, addin) ==
    Handler(<<R("governance_program"), R("realm"), R("governance"), R("proposal"),
              R("token_owner_record"), RS("governance_authority"), W("chat_message"),
              R("payer"), R("system")>> \o If(reply, <<R("reply_to")>>)
                \o <<R("realm_config")>> \o resolve_voter_weight(addin),
            create_and_serialize_account("chat_message"))

process_instruction(council, addin, max) ==
    [CreateRealm |-> process_create_realm(council, addin, max),
     DepositGoverningTokens |-> process_deposit_governing_tokens(council),
     WithdrawGoverningTokens |-> process_withdraw_governing_tokens,
     SetGovernanceDelegate |-> process_set_governance_delegate,
     CreateGovernance |-> process_create_governance(addin),
     CreateProgramGovernance |-> process_create_program_governance(addin, max),
     CreateMintGovernance |-> process_create_mint_governance(addin, max),
     CreateTokenGovernance |-> process_create_token_governance(addin, max),
     CreateProposal |-> process_create_proposal(addin),
     AddSignatory |-> process_add_signatory, RemoveSignatory |-> process_remove_signatory,
     SignOffProposal |-> process_sign_off_proposal(council),
     CastVote |-> process_cast_vote(addin, max), FinalizeVote |-> process_finalize_vote(max),
     RelinquishVote |-> process_relinquish_vote(council),
     CancelProposal |-> process_cancel_proposal,
     InsertTransaction |-> process_insert_transaction,
     RemoveTransaction |-> process_remove_transaction,
     ExecuteTransaction |-> process_execute_transaction(Executed(council, addin)),
     SetGovernanceConfig |-> process_set_governance_config,
     FlagTransactionError |-> process_flag_transaction_error,
     SetRealmAuthority |-> process_set_realm_authority(council),
     SetRealmConfig |-> process_set_realm_config(council, addin, max),
     CreateTokenOwnerRecord |-> process_create_token_owner_record,
     UpdateProgramMetadata |-> process_update_program_metadata(council),
     CreateNativeTreasury |-> process_create_native_treasury(council),
     PostMessage |-> process_post_message(council, addin)]

\* The seeds with which a handler signs for an account or checks its address.  The
\* seeds of a governance that executes follow from its type and what it governs.
Expected(ix, kind) ==
    LET holding(mint) == get_governing_token_holding_address_seeds("realm", mint)
        config == get_realm_config_address_seeds("realm")
        record == get_token_owner_record_address_seeds("realm", "mint", "owner")
        signatory ==
            [signatory_record |-> get_signatory_record_address_seeds("proposal", "signatory")]
    IN  CASE ix = "CreateRealm" ->
                [realm |-> get_realm_address_seeds("name"), realm_config |-> config,
                 community_token_holding |-> holding("community_token_mint"),
                 council_token_holding |-> holding("council_token_mint")]
          [] ix = "DepositGoverningTokens" ->
                [holding |-> holding("mint"), token_owner_record |-> record]
          [] ix = "WithdrawGoverningTokens" ->
                [realm |-> get_realm_address_seeds("name"), holding |-> holding("mint"),
                 token_owner_record |-> record]
          [] ix = "CreateTokenOwnerRecord" -> [token_owner_record |-> record]
          [] ix = "CreateGovernance" ->
                [governance |-> get_governance_address_seeds("realm", "governed")]
          [] ix = "CreateProgramGovernance" ->
                [governance |-> get_program_governance_address_seeds("realm", "governed")]
          [] ix = "CreateMintGovernance" ->
                [governance |-> get_mint_governance_address_seeds("realm", "governed")]
          [] ix = "CreateTokenGovernance" ->
                [governance |-> get_token_governance_address_seeds("realm", "governed")]
          [] ix = "CreateProposal" ->
                [proposal |-> get_proposal_address_seeds("governance", "governing_token_mint",
                                                         "proposal_index")]
          [] ix \in {"AddSignatory", "RemoveSignatory", "SignOffProposal"} -> signatory
          [] ix = "CastVote" ->
                [vote_record |-> get_vote_record_address_seeds("proposal",
                                                               "voter_token_owner_record")]
          [] ix = "InsertTransaction" ->
                [proposal_transaction |-> get_proposal_transaction_address_seeds(
                                              "proposal", "option_index", "index")]
          [] ix = "ExecuteTransaction" ->
                [governance |-> GovernanceSeeds(account_type[kind]),
                 native_treasury |-> get_native_treasury_address_seeds("governance")]
          [] ix = "SetRealmConfig" -> [realm_config |-> config]
          [] ix = "UpdateProgramMetadata" -> [program_metadata |-> get_program_metadata_seeds]
          [] ix = "CreateNativeTreasury" ->
                [native_treasury |-> get_native_treasury_address_seeds("governance")]
          [] OTHER -> <<>>
=============================================================================
