------------------------------ MODULE Interface -----------------------------
(***************************************************************************)
(* Clients and programs together.  A transaction is built by one side of   *)
(* the code, the builders of the instruction.rs files or the methods of    *)
(* the token client, and executed by the other: the programs unpack the    *)
(* data, take the accounts in their own order, check their privileges and  *)
(* call each other, each with the accounts it was given.                   *)
(*                                                                         *)
(* The runtime is external: it gives an account of a transaction the       *)
(* privileges that any of the instructions asks for it, and lets a program *)
(* pass on only privileges it has or signs for with the seeds of one of    *)
(* its addresses.                                                          *)
(***************************************************************************)
EXTENDS Wire, FiniteSets

CONSTANTS
    Signers,     \* numbers of signers of a multisig, 0: the owner signs
    Counts,      \* numbers of further accounts: sources of fees, validators, types
    Validators,  \* sizes of the validator list of a pool that is updated as a whole
    MAX_VALIDATORS_TO_UPDATE,
    Disputed     \* the calls below that are made although the code refuses them

ASSUME ChunkAssumption == MAX_VALIDATORS_TO_UPDATE \in Nat \ {0}

T == INSTANCE TokenInterface
T2 == INSTANCE Token2022Interface
F == INSTANCE TransferFeeInterface
C == INSTANCE ConfidentialInterface
L == INSTANCE LendingInterface
P == INSTANCE StakePoolInterface
G == INSTANCE GovernanceInterface
K == INSTANCE TokenClient

-----------------------------------------------------------------------------
(* The programs as one table.  A family is a program or an extension of    *)
(* token-2022; old_token is the token program called with the builders of  *)
(* token-2022.  An instruction i has options i.o: n and k as above and     *)
(* three choices a, b and c; the accounts of k validators are those after  *)
(* the first from of the list, and meant for start_index.                  *)

Options ==
    [n : Signers, k : Counts, a : BOOLEAN, b : BOOLEAN, c : BOOLEAN, from : {0},
     start_index : {0}]
Plain ==
    [n |-> 0, k |-> 0, a |-> FALSE, b |-> FALSE, c |-> FALSE, from |-> 0, start_index |-> 0]

\* The instructions of other programs.
External ==
    [system |-> [transfer |-> <<WS("from"), W("to")>>,
                 create_account |-> <<WS("from"), WS("to")>>,
                 allocate |-> <<WS("account")>>, assign |-> <<WS("account")>>],
     stake |-> [initialize |-> <<W("stake"), R("rent")>>,
                delegate_stake |-> <<W("stake"), R("vote"), R("clock"), R("stake_history"),
                                     R("stake_config"), RS("authority")>>,
                deactivate_stake |-> <<W("stake"), R("clock"), RS("authority")>>,
                split |-> <<W("stake"), W("split"), RS("authority")>>,
                merge |-> <<W("destination"), W("source"), R("clock"), R("stake_history"),
                            RS("authority")>>,
                authorize |-> <<W("stake"), R("clock"), RS("authority")>>,
                withdraw |-> <<W("from"), W("to"), R("clock"), R("stake_history"),
                               RS("authority")>>],
     loader |-> [set_upgrade_authority |-> <<W("programdata"), RS("authority"), R("new")>>],
     memo |-> [memo |-> <<>>],
     proof |-> [ix \in {"VerifyCloseAccount", "VerifyWithdraw", "VerifyTransfer",
                        "VerifyTransferWithFee", "VerifyWithdrawWithheldTokens"} |-> <<>>]]

IsExternal(family) == family \in DOMAIN External

\* The accounts that a builder gives an instruction.
Accounts(family, o) ==
    CASE family = "token" -> T!Builders(o.n)
      [] family \in {"token_2022", "old_token"} -> T2!Builders(o.n)
      [] family = "transfer_fee" -> F!Builders(o.n, o.k)
      [] family = "confidential_transfer" -> C!Builders(o.n, o.k, o.a)
      [] family = "default_account_state" -> T2!DefaultAccountStateBuilders(o.n)
      [] family = "memo_transfer" -> T2!MemoTransferBuilders(o.n)
      [] family = "interest_bearing_mint" -> T2!InterestBearingMintBuilders(o.n)
      [] family = "lending" -> L!Builders(o.k, o.a)
      [] family = "flash_loan_receiver" -> L!receive_flash_loan(L!Receiver)
      [] family = "stake_pool" -> P!Builders(o.k, o.a)
      [] family = "governance" -> G!Builders(o.a, o.b, o.c)
      [] OTHER -> External[family]

AccountsOf(i) ==
    LET metas == Accounts(i.family, i.o)[i.ix]
    IN  IF i.roles = <<>> THEN metas
        ELSE [j \in DOMAIN metas |-> [metas[j] EXCEPT !.name = i.roles[j]]]

\* The bytes it gives it; stake pool and governance use Borsh on both sides.
Data(i) ==
    LET o == i.o
        packed == T2!pack(o.a, o.k)
        option(field) == T2!pack_pubkey_option(field, o.a)
    IN  CASE i.family = "token" -> T!pack(o.a)[i.ix]
          [] i.family \in {"token_2022", "old_token"} -> packed[i.ix]
          [] i.family = "transfer_fee" ->
                packed.TransferFeeExtension
                    \o F!pack(option("transfer_fee_config_authority"),
                              option("withdraw_withheld_authority"))[i.ix]
          [] i.family = "confidential_transfer" ->
                packed.ConfidentialTransferExtension \o C!Encoded[i.ix]
          [] i.family = "default_account_state" ->
                packed.DefaultAccountStateExtension \o T2!default_account_state_encode[i.ix]
          [] i.family = "memo_transfer" ->
                packed.MemoTransferExtension \o T2!memo_transfer_encode[i.ix]
          [] i.family = "interest_bearing_mint" ->
                packed.InterestBearingMintExtension \o T2!interest_bearing_mint_encode[i.ix]
          [] i.family = "lending" -> L!pack[i.ix]
          [] i.family = "flash_loan_receiver" -> L!receive_flash_loan_data[i.ix]
          [] OTHER -> <<>>

ProgramOf(family) ==
    CASE family = "old_token" -> "token"
      [] family \in {"transfer_fee", "confidential_transfer", "default_account_state",
                     "memo_transfer", "interest_bearing_mint"} -> "token_2022"
      [] OTHER -> family

\* Who reads the bytes in the end.
ReaderOf(family) == IF family = "old_token" THEN "token" ELSE family

\* What a program or an extension reads after each number.
Table(reader) ==
    CASE reader = "token" -> T!unpack
      [] reader = "token_2022" -> T2!unpack
      [] reader = "transfer_fee" -> F!unpack
      [] reader = "confidential_transfer" -> C!Decoded
      [] reader = "default_account_state" -> T2!default_account_state_decode
      [] reader = "memo_transfer" -> T2!memo_transfer_decode
      [] reader = "interest_bearing_mint" -> T2!interest_bearing_mint_decode
      [] reader = "lending" -> L!unpack
      [] reader = "flash_loan_receiver" -> L!unpack_amount
      [] OTHER -> <<>>

\* The handler of an instruction, as the program dispatches it.
Handle(reader, ix, o) ==
    LET authority == T2!validate_owner("authority", o.n)
        takes(handlers) == Handler(handlers[ix], <<>>)
    IN  CASE reader = "token" -> takes(T!process(o.n))
          [] reader = "token_2022" -> T2!process(o.n)[ix]
          [] reader = "transfer_fee" ->
                takes(F!process_instruction(authority, T2!process_transfer(TRUE, o.n), o.k))
          [] reader = "confidential_transfer" ->
                takes(C!process_instruction(authority, o.k, o.a))
          [] reader = "default_account_state" -> takes(T2!process_default_account_state(o.n))
          [] reader = "memo_transfer" -> takes(T2!process_memo_transfer(o.n))
          [] reader = "interest_bearing_mint" -> takes(T2!process_interest_bearing_mint(o.n))
          [] reader = "lending" -> L!process_instruction(o.k, o.a)[ix]
          [] reader = "flash_loan_receiver" -> L!receiver_process_instruction[ix]
          [] reader = "stake_pool" -> P!process(o.k, o.a)[ix]
          [] reader = "governance" -> G!process_instruction(o.a, o.b, o.c)[ix]

\* How the governance that executes a transaction was created.
GovernanceOf(o) ==
    CASE o.a /\ o.c -> "CreateProgramGovernance"
      [] o.a /\ ~o.c -> "CreateMintGovernance"
      [] ~o.a /\ o.c -> "CreateTokenGovernance"
      [] ~o.a /\ ~o.c -> "CreateGovernance"

\* The addresses of the programs' own accounts, as seeds: what the client derives, and
\* what the handler checks or signs with.
Derived(i) ==
    CASE i.family = "lending" -> L!Derived
      [] i.family = "stake_pool" -> P!Derived(i.ix, i.o.a)
      [] i.family = "governance" -> G!Derived(i.ix, GovernanceOf(i.o))
      [] i.family = "token_2022" -> T2!Derived
      [] OTHER -> <<>>
Expected(reader, ix, o) ==
    CASE reader = "lending" -> L!Expected
      [] reader = "stake_pool" -> P!Expected(ix, o.a)
      [] reader = "governance" -> G!Expected(ix, GovernanceOf(o))
      [] reader = "token_2022" -> T2!Expected
      [] OTHER -> <<>>

-----------------------------------------------------------------------------
(* Transactions *)

\* The options that an instruction of a family depends on.
OptionsOf(family) ==
    LET only(n, k, a, b) ==
            {o \in Options : /\ n \/ o.n = 0
                             /\ k \/ o.k = 0
                             /\ a \/ ~o.a
                             /\ b \/ ~(o.b \/ o.c)}
    IN  CASE family \in {"token", "old_token"} -> only(TRUE, FALSE, TRUE, FALSE)
          [] family \in {"token_2022", "transfer_fee", "confidential_transfer"} ->
                only(TRUE, TRUE, TRUE, FALSE)
          [] family \in {"default_account_state", "memo_transfer", "interest_bearing_mint"} ->
                only(TRUE, FALSE, FALSE, FALSE)
          [] family \in {"lending", "stake_pool"} -> only(FALSE, TRUE, TRUE, FALSE)
          [] family = "governance" -> only(FALSE, FALSE, TRUE, TRUE)

Families ==
    {"token", "old_token", "token_2022", "transfer_fee", "confidential_transfer",
     "default_account_state", "memo_transfer", "interest_bearing_mint", "lending",
     "stake_pool", "governance"}

\* Only a proposal can sign for a governance, so only it can configure one; the old
\* program has none of the instructions that token-2022 added.
Calls(family) ==
    CASE family = "old_token" -> DOMAIN T!Builders(0)
      [] family = "governance" -> DOMAIN Accounts(family, Plain) \ {"SetGovernanceConfig"}
      [] OTHER -> DOMAIN Accounts(family, Plain)

With(instructions, o) ==
    [j \in DOMAIN instructions |->
        [family |-> instructions[j].family, ix |-> instructions[j].ix,
         roles |-> instructions[j].roles, about |-> instructions[j].about, o |-> o]]

\* A builder's instruction with those it puts before it.
Built(family, ix) ==
    CASE family = "confidential_transfer" -> C!Built(ix)
      [] family = "stake_pool" /\ ix = "DepositStake" ->
            P!BeforeDeposit \o <<Ix(family, ix)>>
      [] OTHER -> <<Ix(family, ix)>>

UpdateOfPool(count) ==
    LET chunks == P!update_stake_pool(count, MAX_VALIDATORS_TO_UPDATE)
        update(j) == With(<<Ix("stake_pool", "UpdateValidatorListBalance")>>,
                          [Plain EXCEPT !.k = chunks[j].k, !.from = chunks[j].from,
                                        !.start_index = chunks[j].start_index])[1]
    IN  [j \in DOMAIN chunks |-> update(j)]
        \o With(<<Ix("stake_pool", "UpdateStakePoolBalance"),
                  Ix("stake_pool", "CleanupRemovedValidatorEntries")>>, Plain)

\* The calls that the program refuses although its client offers them.
IsDisputed(name, instructions) ==
    LET i == Last(instructions)
    IN  /\ i.family = "confidential_transfer"
        /\ \/ /\ name = "multisig_withdraws_withheld_tokens"
              /\ i.ix \in {"WithdrawWithheldTokensFromMint",
                           "WithdrawWithheldTokensFromAccounts"}
              /\ i.o.n > 0
           \/ /\ name = "client_withdraws_withheld_tokens_from_accounts"
              /\ i.ix = "WithdrawWithheldTokensFromAccounts"
              /\ \E j \in DOMAIN instructions :
                    instructions[j].about = "withheld_by_mint"

Disputes ==
    {"multisig_withdraws_withheld_tokens", "client_withdraws_withheld_tokens_from_accounts"}

Made(instructions) ==
    \A name \in Disputes : IsDisputed(name, instructions) => name \in Disputed

-----------------------------------------------------------------------------
(* Execution *)

VARIABLES
    memo,         \* the memo of the client: given for the next transaction or not
    transaction,  \* the instructions
    at,           \* the one that is executed
    stack,        \* the programs that execute it, the last called by the one before
    account,      \* the account that is created: "absent", "allocated", "initialized"
    list,         \* the length of the validator list of a pool
    updated,      \* its entries that were updated in this epoch
    outcome       \* "idle", "running", "done", "rejected"

vars == <<memo, transaction, at, stack, account, list, updated, outcome>>

Payer == "payer"

Init ==
    /\ memo = FALSE
    /\ transaction = <<>>
    /\ at = 0
    /\ stack = <<>>
    /\ account = "absent"
    /\ list = 0
    /\ updated = {}
    /\ outcome = "idle"

AllMetas(instructions) ==
    UNION {Range(AccountsOf(instructions[j])) : j \in DOMAIN instructions}
Asked(instructions) == {m.name : m \in {a \in AllMetas(instructions) : a.signer}}
Creates(i) == i.family = "system" /\ i.ix = "create_account"

\* size: of the validator list, none of which is up to date.
Begin(instructions, size, ok) ==
    /\ Made(instructions)
    /\ transaction' = instructions
    /\ at' = 1
    /\ stack' = <<>>
    /\ account' = IF \E j \in DOMAIN instructions : Creates(instructions[j])
                  THEN "absent" ELSE "allocated"
    /\ list' = size
    /\ updated' = {}
    /\ outcome' = IF ok THEN "running" ELSE "rejected"

\* A single update covers the list it is made for.
SizeFor(ix, o) == IF ix = "UpdateValidatorListBalance" THEN o.k ELSE 0

\* A transaction of one builder, signed by all that it asks for.
Submit ==
    /\ outcome = "idle"
    /\ \/ \E family \in Families : \E ix \in Calls(family), o \in OptionsOf(family) :
             Begin(With(Built(family, ix), o), SizeFor(ix, o), TRUE)
       \/ \E count \in Validators : Begin(UpdateOfPool(count), count, TRUE)
    /\ UNCHANGED memo

with_memo ==
    /\ outcome = "idle"
    /\ ~memo
    /\ memo' = TRUE
    /\ UNCHANGED <<transaction, at, stack, account, list, updated, outcome>>

\* A method of the token client, which takes the memo; b: the destination of a
\* transfer requires one.
Send ==
    /\ outcome = "idle"
    /\ \E o \in OptionsOf("token_2022"), b \in BOOLEAN : \E method \in K!Methods(o.a) :
          LET instructions == With(K!process_ixs(memo, method.instructions),
                                   [o EXCEPT !.b = b])
          IN  /\ o.n = 0
              /\ b => memo
              /\ Begin(instructions, 0,
                       K!SignaturesFit(method.keypairs, Payer, Asked(instructions)))
    /\ memo' = FALSE

\* The privileges of an account in a transaction; its payer signs and is writable.
Merged(meta) ==
    LET same == {m \in AllMetas(transaction) : m.name = meta.name}
    IN  Meta(meta.name, meta.name = Payer \/ \E m \in same : m.signer,
             meta.name = Payer \/ \E m \in same : m.writable)

Frame(i, given) ==
    [i |-> i, phase |-> "unpack", reads |-> ProgramOf(i.family), data |-> Data(i),
     ix |-> "none", fields |-> Failed, needs |-> <<>>, left |-> given, given |-> given,
     calls |-> <<>>]

Top == Last(stack)
ReplaceTop(frame) == Append(Front(stack), frame)

Reject ==
    /\ outcome' = "rejected"
    /\ UNCHANGED <<memo, transaction, at, stack, account, list, updated>>

\* The instruction is over, and the transaction with the last.
Advance ==
    /\ at' = at + 1
    /\ outcome' = IF at = Len(transaction) THEN "done" ELSE "running"

\* An instruction of another program is only executed for the account it creates.
RunExternal ==
    /\ outcome = "running"
    /\ stack = <<>>
    /\ IsExternal(transaction[at].family)
    /\ account' = IF Creates(transaction[at]) THEN "allocated" ELSE account
    /\ Advance
    /\ UNCHANGED <<memo, transaction, stack, list, updated>>

Start ==
    /\ outcome = "running"
    /\ stack = <<>>
    /\ ~IsExternal(transaction[at].family)
    /\ LET metas == AccountsOf(transaction[at])
       IN  stack' = <<Frame(transaction[at], [j \in DOMAIN metas |-> Merged(metas[j])])>>
    /\ UNCHANGED <<memo, transaction, at, account, list, updated, outcome>>

\* What the table of the program says of the first byte.
IsKnown(frame) ==
    /\ frame.data # <<>>
    /\ Head(frame.data)[1] = "number"
    /\ Head(frame.data)[2] < Len(Table(frame.reads))
EntryOf(frame) == Table(frame.reads)[Head(frame.data)[2] + 1]
IsHandedOn(frame) == IsKnown(frame) /\ EntryOf(frame).kind = "extension"

HandOn ==
    /\ outcome = "running"
    /\ stack # <<>>
    /\ Top.phase = "unpack"
    /\ IsHandedOn(Top)
    /\ stack' = ReplaceTop([Top EXCEPT !.reads = EntryOf(Top).ix, !.data = Tail(Top.data)])
    /\ UNCHANGED <<memo, transaction, at, account, list, updated, outcome>>

\* What a handler requires of the transaction around it: a memo where the account
\* that receives tokens asks for one, and the proof it relies on; and of the account
\* it initializes, and that the validator list is long enough or up to date.
MovesTokens(reader, ix) ==
    \/ reader = "token_2022" /\ ix \in {"Transfer", "TransferChecked"}
    \/ reader = "transfer_fee" /\ ix = "TransferCheckedWithFee"

check_previous_sibling_instruction_is_memo ==
    at > 1 /\ transaction[at - 1].family = "memo"

HasProof(ix) ==
    LET proof == C!decode_proof_instruction(ix)
    IN  proof # <<>> =>
            /\ at > 1
            /\ transaction[at - 1].family = "proof"
            /\ transaction[at - 1].ix = proof[1]
            /\ proof[2] \in {"anything", transaction[at - 1].about}

\* The mint or account must not be initialized yet.
Initializes(reader, ix) ==
    \/ reader \in {"token", "token_2022"} /\ ix \in {"InitializeMint", "InitializeAccount"}
Prepares(reader, ix) ==
    \/ reader = "token_2022" /\ ix = "InitializeMintCloseAuthority"
    \/ reader = "transfer_fee" /\ ix = "InitializeTransferFeeConfig"
    \/ reader = "confidential_transfer" /\ ix = "InitializeMint"
    \/ reader \in {"default_account_state", "interest_bearing_mint"} /\ ix = "Initialize"

IsReady(frame, ix) ==
    /\ MovesTokens(frame.reads, ix) /\ frame.i.o.b =>
          check_previous_sibling_instruction_is_memo
    /\ frame.reads = "confidential_transfer" => HasProof(ix)
    /\ Initializes(frame.reads, ix) \/ Prepares(frame.reads, ix) => account = "allocated"
    /\ ix = "UpdateValidatorListBalance" => frame.i.o.start_index + frame.i.o.k <= list
    /\ ix = "UpdateStakePoolBalance" => updated = 1 .. list

\* What an update of the list brings up to date.
Updates(frame, ix) ==
    LET o == frame.i.o
    IN  IF frame.reads = "stake_pool" /\ ix = "UpdateValidatorListBalance"
        THEN P!UpdatedEntries(o.from, o.k, o.start_index) ELSE {}

Dispatch(frame, ix, fields) ==
    IF IsReady(frame, ix)
    THEN LET handler == Handle(frame.reads, ix, frame.i.o)
         IN  /\ stack' = ReplaceTop([frame EXCEPT !.phase = "run", !.ix = ix,
                                                  !.fields = fields, !.needs = handler.takes,
                                                  !.calls = handler.calls])
             /\ account' = IF Initializes(frame.reads, ix) /\ Len(stack) = 1
                           THEN "initialized" ELSE account
             /\ updated' = updated \cup Updates(frame, ix)
             /\ UNCHANGED <<memo, transaction, at, list, outcome>>
    ELSE Reject

Unpack ==
    /\ outcome = "running"
    /\ stack # <<>>
    /\ Top.phase = "unpack"
    /\ ~IsHandedOn(Top)
    /\ IF Table(Top.reads) = <<>>
       THEN Dispatch(Top, Top.i.ix, Failed)
       ELSE IF ~IsKnown(Top) THEN Reject
       ELSE LET entry == EntryOf(Top)
                parsed == Parse(entry.items, Tail(Top.data))
            IN  IF parsed.ok /\ (entry.kind = "exact" => parsed.rest = <<>>)
                THEN Dispatch(Top, entry.ix, parsed)
                ELSE Reject

\* An address that the client derives is the one the handler derives.
IsAddressed(frame, name) ==
    LET given == Derived(frame.i)
        expected == Expected(frame.reads, frame.ix, frame.i.o)
    IN  name \in DOMAIN given /\ name \in DOMAIN expected => given[name] = expected[name]

\* next_account_info, and the checks of the account's address and privileges.
next_account_info ==
    /\ outcome = "running"
    /\ stack # <<>>
    /\ Top.phase = "run"
    /\ Top.needs # <<>>
    /\ IF /\ Top.left # <<>>
          /\ Suffices(Head(Top.left), Head(Top.needs))
          /\ IsAddressed(Top, Head(Top.needs).name)
       THEN /\ stack' = ReplaceTop([Top EXCEPT !.needs = Tail(Top.needs),
                                               !.left = Tail(Top.left)])
            /\ UNCHANGED <<memo, transaction, at, account, list, updated, outcome>>
       ELSE Reject

CanSign(frame, call, name) ==
    /\ name \in call.seeds
    /\ name \in DOMAIN Expected(frame.reads, frame.ix, frame.i.o)
    /\ IsAddressed(frame, name)

\* A program that is called gets accounts of its caller, and its own among them.
CanPass(frame, call, metas) ==
    /\ Len(call.roles) = Len(metas)
    /\ \A j \in DOMAIN metas :
          \E m \in Range(frame.given) :
             /\ m.name = call.roles[j]
             /\ Suffices([m EXCEPT !.signer = m.signer \/ CanSign(frame, call, m.name)],
                         metas[j])
    /\ \E m \in Range(frame.given) : m.name = call.program

invoke ==
    /\ outcome = "running"
    /\ stack # <<>>
    /\ Top.phase = "run"
    /\ Top.needs = <<>>
    /\ Top.calls # <<>>
    /\ LET call == Head(Top.calls)
           i == With(<<Ix(call.program, call.ix)>>, Plain)[1]
           rest == ReplaceTop([Top EXCEPT !.calls = Tail(Top.calls)])
       IN  IF CanPass(Top, call, AccountsOf(i))
           THEN /\ stack' = IF IsExternal(call.program) THEN rest
                            ELSE Append(rest, Frame(i, AccountsOf(i)))
                /\ UNCHANGED <<memo, transaction, at, account, list, updated, outcome>>
           ELSE Reject

Return ==
    /\ outcome = "running"
    /\ stack # <<>>
    /\ Top.phase = "run"
    /\ Top.needs = <<>>
    /\ Top.calls = <<>>
    /\ stack' = Front(stack)
    /\ IF Len(stack) = 1 THEN Advance ELSE UNCHANGED <<at, outcome>>
    /\ UNCHANGED <<memo, transaction, account, list, updated>>

Finish ==
    /\ outcome \in {"done", "rejected"}
    /\ outcome' = "idle"
    /\ transaction' = <<>>
    /\ at' = 0
    /\ stack' = <<>>
    /\ account' = "absent"
    /\ list' = 0
    /\ updated' = {}
    /\ UNCHANGED memo

Next ==
    \/ Submit \/ with_memo \/ Send \/ RunExternal \/ Start \/ HandOn \/ Unpack
    \/ next_account_info \/ invoke \/ Return \/ Finish

Spec == Init /\ [][Next]_vars
=============================================================================
