----------------------------- MODULE Governance -----------------------------
(***************************************************************************)
(* The SPL governance program: one realm with a community mint and an      *)
(* optional council mint, one governance account of that realm, the token  *)
(* owner records of the members, and the proposals they create, vote on    *)
(* and execute (governance/program/src).                                   *)
(*                                                                         *)
(* Every instruction runs alone and is rolled back when it fails, so one   *)
(* action is one successful instruction.  Signatures are not modelled: an  *)
(* action is possible whenever the account that has to sign it may do so.  *)
(* The tokens members hold outside the realm form one pool per mint,       *)
(* because a holder may transfer them to anybody.                          *)
(***************************************************************************)
EXTENDS VoteMath

CONSTANTS
    Owners,              \* token owners
    Signatories,         \* accounts that can be appointed as signatories
    MaxProposals,        \* bound on the proposals created
    MaxOptions,          \* bound on the options of a proposal
    MaxTransactions,     \* bound on the transaction indexes of an option
    MaxTime,             \* bound on the clock
    BurnFloor,           \* bound: no burning below this supply
    MintCeiling,         \* bound: no minting above this supply
    InitialSupply,       \* tokens of every mint outside the realm at start
    OutstandingLimit,    \* outstanding proposals allowed per owner
    Kinds,               \* proposal shapes [single, options, has_deny]
    GovernanceConfigs,   \* governance configs, the initial one included
    RealmConfigs,        \* realm configs, the initial one included
    AddinWeights,        \* weights the voter weight addin may report
    MaxAddinWeights,     \* weights the max voter weight addin may report
    HoldUpTimes,         \* hold up times given to transactions
    Payloads             \* what transactions do when they are executed

Mints     == {"community", "council"}
TORs      == Mints \X Owners          \* token owner record addresses
Proposals == 1 .. MaxProposals        \* seeds: Governance.proposals_count
Options   == 1 .. MaxOptions
Slots     == Options \X (0 .. MaxTransactions - 1)  \* transaction addresses

NoOwner == <<>>  \* owner of a proposal that does not exist
None == -1       \* an Option<UnixTimestamp> or Option<u64> that is None

ProposalStates ==
    {"Draft", "SigningOff", "Voting", "Succeeded", "Executing", "Completed",
     "Cancelled", "Defeated", "ExecutingWithErrors", "Vetoed"}

\* "Absent": the account has not been created yet.
UndecidedStates == {"Draft", "SigningOff", "Voting"}
ApprovedStates  == {"Succeeded", "Executing", "ExecutingWithErrors"}

PayloadKinds ==
    {"Program", "SetGovernanceConfig", "SetRealmConfig", "ExecuteTransaction"}

\* SetGovernanceConfig and the governance constructors only store configs
\* that assert_is_valid_governance_config accepts.
IsValidGovernanceConfig(c) ==
    /\ c.community_vote_threshold \in VoteThresholds
    /\ c.council_vote_threshold \in VoteThresholds
    /\ c.council_veto_vote_threshold \in VoteThresholds
    /\ ~(/\ c.community_vote_threshold = Disabled
         /\ c.council_vote_threshold = Disabled)

\* assert_valid_realm_config_args
IsValidRealmConfig(c) ==
    c.community_mint_max_vote_weight_fraction \in 1 .. FractionBase

ASSUME GovernanceAssumption ==
    /\ IsFiniteSet(Owners) /\ IsFiniteSet(Signatories)
    /\ MaxProposals \in Nat /\ MaxOptions \in Nat /\ MaxTransactions \in Nat
    /\ MaxTime \in Nat /\ BurnFloor \in Nat /\ MintCeiling \in Nat
    /\ InitialSupply \in [Mints -> Nat]
    /\ OutstandingLimit \in Nat
    /\ AddinWeights \subseteq Nat /\ MaxAddinWeights \subseteq Nat
    /\ HoldUpTimes \subseteq Nat
    /\ Kinds # {}
    /\ \A k \in Kinds :
          /\ k.single \in BOOLEAN /\ k.has_deny \in BOOLEAN
          /\ k.options \subseteq Options /\ k.options # {}
    /\ \A c \in GovernanceConfigs :
          /\ IsValidGovernanceConfig(c)
          /\ c.vote_tipping \in VoteTippings
          /\ c.max_voting_time \in Nat
          /\ c.min_transaction_hold_up_time \in Nat
          /\ c.min_community_weight_to_create_proposal \in Nat
          /\ c.min_council_weight_to_create_proposal \in Nat
    /\ \A c \in RealmConfigs :
          /\ IsValidRealmConfig(c)
          /\ c.council_mint \in BOOLEAN
          /\ c.use_community_voter_weight_addin \in BOOLEAN
          /\ c.use_max_community_voter_weight_addin \in BOOLEAN
    /\ \A l \in Payloads :
          /\ l.kind \in PayloadKinds
          /\ l.kind = "SetGovernanceConfig" => l.config \in GovernanceConfigs
          /\ l.kind = "SetRealmConfig" => l.config \in RealmConfigs
          /\ l.kind = "ExecuteTransaction" => l.target \in Slots

VARIABLES
    now,              \* Clock.unix_timestamp
    config,           \* GovernanceV2.config
    realm,            \* RealmV2.config, council_mint reduced to its presence
    proposals_count,        \* GovernanceV2.proposals_count
    voting_proposal_count   \* of the realm and, with one governance, of it

realmVars == <<config, realm, proposals_count, voting_proposal_count>>

VARIABLES
    free,             \* tokens of a mint held outside the realm
    holding,          \* balance of the realm's holding account of a mint
    records,          \* token owner records that exist
    deposit,          \* governing_token_deposit_amount
    unrelinquished,   \* unrelinquished_votes_count
    total_votes,      \* total_votes_count
    outstanding       \* outstanding_proposal_count

tokenVars == <<free, holding>>
recordVars == <<records, deposit, unrelinquished, total_votes, outstanding>>

VARIABLES
    state,            \* ProposalV2.state, or "Absent"
    owner,            \* ProposalV2.token_owner_record
    mint,             \* ProposalV2.governing_token_mint
    kind,             \* vote_type, the option indexes and whether deny exists
    signatories_count,
    signatories_signed_off_count,
    signatory         \* signatory record: "Absent", "Pending" or "SignedOff"

draftVars == <<owner, mint, kind>>
signVars == <<signatories_count, signatories_signed_off_count, signatory>>

VARIABLES
    weight,           \* options[o].vote_weight
    deny,             \* deny_vote_weight
    veto,             \* veto_vote_weight
    result,           \* options[o].vote_result
    voting_at,
    voting_completed_at,
    max_vote_weight,  \* captured when the vote is decided
    vote_threshold,   \* captured when the vote is decided
    vote_record       \* vote record of a token owner record on a proposal

tallyVars == <<weight, deny, veto>>
outcomeVars == <<result, voting_completed_at, max_vote_weight, vote_threshold>>
voteVars == <<tallyVars, outcomeVars, voting_at, vote_record>>

VARIABLES
    transactions_count,           \* of every option
    transactions_executed_count,
    transactions_next_index,
    transaction                   \* proposal transaction at an address

txVars == <<transactions_count, transactions_executed_count,
            transactions_next_index, transaction>>

vars == <<now, realmVars, tokenVars, recordVars, state, draftVars, signVars,
          voteVars, txVars>>

\* Vote records and transactions that do not exist.
NoVote == [kind |-> "None", choices |-> {}, weight |-> 0, relinquished |-> FALSE]
NoTransaction ==
    [status |-> "Absent", hold_up_time |-> 0, executed_at |-> None,
     payload |-> [kind |-> "Program"]]

Init ==
    /\ now = 0
    /\ config \in GovernanceConfigs
    /\ realm \in RealmConfigs
    /\ proposals_count = 0
    /\ voting_proposal_count = 0
    /\ free = InitialSupply
    /\ holding = [m \in Mints |-> 0]
    /\ records = {}
    /\ deposit = [t \in TORs |-> 0]
    /\ unrelinquished = [t \in TORs |-> 0]
    /\ total_votes = [t \in TORs |-> 0]
    /\ outstanding = [t \in TORs |-> 0]
    /\ state = [p \in Proposals |-> "Absent"]
    /\ owner = [p \in Proposals |-> NoOwner]
    /\ mint = [p \in Proposals |-> "community"]
    /\ kind = [p \in Proposals |-> CHOOSE k \in Kinds : TRUE]
    /\ signatories_count = [p \in Proposals |-> 0]
    /\ signatories_signed_off_count = [p \in Proposals |-> 0]
    /\ signatory = [p \in Proposals |-> [s \in Signatories |-> "Absent"]]
    /\ weight = [p \in Proposals |-> [o \in Options |-> 0]]
    /\ deny = [p \in Proposals |-> 0]
    /\ veto = [p \in Proposals |-> 0]
    /\ result = [p \in Proposals |-> [o \in Options |-> "None"]]
    /\ voting_at = [p \in Proposals |-> None]
    /\ voting_completed_at = [p \in Proposals |-> None]
    /\ max_vote_weight = [p \in Proposals |-> None]
    /\ vote_threshold = [p \in Proposals |-> Disabled]
    /\ vote_record = [p \in Proposals |-> [t \in TORs |-> NoVote]]
    /\ transactions_count = [p \in Proposals |-> [o \in Options |-> 0]]
    /\ transactions_executed_count = [p \in Proposals |-> [o \in Options |-> 0]]
    /\ transactions_next_index = [p \in Proposals |-> [o \in Options |-> 0]]
    /\ transaction = [p \in Proposals |-> [x \in Slots |-> NoTransaction]]

-----------------------------------------------------------------------------
(* Realm and token owner records *)

\* assert_is_valid_governing_token_mint: the council mint may be removed.
IsGoverningMint(m) == m = "community" \/ realm.council_mint

MintOf(t) == t[1]

Supply(m) == free[m] + holding[m]

UsesVoterWeightAddin(m) ==
    m = "community" /\ realm.use_community_voter_weight_addin

UsesMaxVoterWeightAddin(m) ==
    m = "community" /\ realm.use_max_community_voter_weight_addin

\* resolve_voter_weight: the deposit, or what the addin reports.
VoterWeights(t) ==
    IF UsesVoterWeightAddin(MintOf(t)) THEN AddinWeights ELSE {deposit[t]}

CreateTokenOwnerRecord(t) ==
    /\ IsGoverningMint(MintOf(t))
    /\ t \notin records
    /\ records' = records \cup {t}
    /\ UNCHANGED <<now, realmVars, tokenVars, deposit, unrelinquished,
                   total_votes, outstanding, state, draftVars, signVars,
                   voteVars, txVars>>

\* Transfers the tokens to the holding account, and creates the record with
\* the first deposit.
DepositGoverningTokens(t, amount) ==
    /\ IsGoverningMint(MintOf(t))
    /\ ~UsesVoterWeightAddin(MintOf(t))
    /\ amount <= free[MintOf(t)]
    /\ free' = [free EXCEPT ![MintOf(t)] = @ - amount]
    /\ holding' = [holding EXCEPT ![MintOf(t)] = @ + amount]
    /\ records' = records \cup {t}
    /\ deposit' = [deposit EXCEPT ![t] = @ + amount]
    /\ UNCHANGED <<now, realmVars, unrelinquished, total_votes, outstanding,
                   state, draftVars, signVars, voteVars, txVars>>

\* Variant: votes do not hold the deposit.
CanWithdrawWithVotes(t) == outstanding[t] = 0

\* assert_can_withdraw_governing_tokens
CanWithdraw(t) == unrelinquished[t] = 0 /\ outstanding[t] = 0

\* Always the whole deposit.
WithdrawGoverningTokens(t) ==
    /\ IsGoverningMint(MintOf(t))
    /\ t \in records
    /\ CanWithdraw(t)
    /\ deposit[t] <= holding[MintOf(t)]
    /\ holding' = [holding EXCEPT ![MintOf(t)] = @ - deposit[t]]
    /\ free' = [free EXCEPT ![MintOf(t)] = @ + deposit[t]]
    /\ deposit' = [deposit EXCEPT ![t] = 0]
    /\ UNCHANGED <<now, realmVars, records, unrelinquished, total_votes,
                   outstanding, state, draftVars, signVars, voteVars, txVars>>

\* decrease_outstanding_proposal_count: no effect on a count that is 0.
DecreaseOutstanding(t) ==
    [outstanding EXCEPT ![t] = IF @ # 0 THEN @ - 1 ELSE 0]

-----------------------------------------------------------------------------
(* Drafting a proposal *)

\* resolve_vote_threshold, with Disabled where it returns an error.
VoteThreshold(m, vote_kind) ==
    CASE m = "community" /\ vote_kind = "Electorate"
            -> config.community_vote_threshold
      [] m = "council" /\ realm.council_mint /\ vote_kind = "Electorate"
            -> config.council_vote_threshold
      [] m = "council" /\ realm.council_mint /\ vote_kind = "Veto"
            -> config.council_veto_vote_threshold
      [] OTHER -> Disabled

MinWeightToCreateProposal(m) ==
    IF m = "community" THEN config.min_community_weight_to_create_proposal
                       ELSE config.min_council_weight_to_create_proposal

\* The record of the owner and the mint of the proposal need not agree: a
\* council member may open a proposal for the community.
CreateProposal(t, m, k) ==
    LET p == proposals_count + 1
    IN  /\ p <= MaxProposals
        /\ IsGoverningMint(m)
        /\ VoteThreshold(m, "Electorate") # Disabled
        /\ t \in records
        /\ IsGoverningMint(MintOf(t))
        /\ \E w \in VoterWeights(t) : w >= MinWeightToCreateProposal(MintOf(t))
        /\ outstanding[t] < OutstandingLimit
        /\ outstanding' = [outstanding EXCEPT ![t] = @ + 1]
        /\ proposals_count' = p
        /\ state' = [state EXCEPT ![p] = "Draft"]
        /\ owner' = [owner EXCEPT ![p] = t]
        /\ mint' = [mint EXCEPT ![p] = m]
        /\ kind' = [kind EXCEPT ![p] = k]
        /\ UNCHANGED <<now, config, realm, voting_proposal_count, tokenVars,
                       records, deposit, unrelinquished, total_votes, signVars,
                       voteVars, txVars>>

\* Variant: signatories can still be appointed while others sign off.
CanEditSignatoriesLate(p) == state[p] \in {"Draft", "SigningOff", "Voting"}

CanEditSignatories(p) == state[p] = "Draft"

AddSignatory(p, s) ==
    /\ CanEditSignatories(p)
    /\ signatory[p][s] = "Absent"
    /\ signatory' = [signatory EXCEPT ![p][s] = "Pending"]
    /\ signatories_count' = [signatories_count EXCEPT ![p] = @ + 1]
    /\ UNCHANGED <<now, realmVars, tokenVars, recordVars, state, draftVars,
                   signatories_signed_off_count, voteVars, txVars>>

RemoveSignatory(p, s) ==
    /\ CanEditSignatories(p)
    /\ signatory[p][s] = "Pending"
    /\ signatories_count[p] > 0
    /\ signatory' = [signatory EXCEPT ![p][s] = "Absent"]
    /\ signatories_count' = [signatories_count EXCEPT ![p] = @ - 1]
    /\ UNCHANGED <<now, realmVars, tokenVars, recordVars, state, draftVars,
                   signatories_signed_off_count, voteVars, txVars>>

CanEditInstructions(p) == state[p] = "Draft" /\ kind[p].has_deny

\* An index below transactions_next_index fills the place of a transaction
\* that was removed.
InsertTransaction(p, x, hold_up_time, payload) ==
    LET o == x[1]
    IN  /\ transaction[p][x].status = "Absent"
        /\ hold_up_time >= config.min_transaction_hold_up_time
        /\ CanEditInstructions(p)
        /\ o \in kind[p].options
        /\ x[2] <= transactions_next_index[p][o]
        /\ transactions_next_index' =
              [transactions_next_index EXCEPT
                  ![p][o] = IF x[2] = @ THEN @ + 1 ELSE @]
        /\ transactions_count' = [transactions_count EXCEPT ![p][o] = @ + 1]
        /\ transaction' = [transaction EXCEPT
              ![p][x] = [status |-> "None", hold_up_time |-> hold_up_time,
                         executed_at |-> None, payload |-> payload]]
        /\ UNCHANGED <<now, realmVars, tokenVars, recordVars, state, draftVars,
                       signVars, voteVars, transactions_executed_count>>

RemoveTransaction(p, x) ==
    /\ CanEditInstructions(p)
    /\ transaction[p][x].status # "Absent"
    /\ transactions_count[p][x[1]] > 0
    /\ transaction' = [transaction EXCEPT ![p][x] = NoTransaction]
    /\ transactions_count' = [transactions_count EXCEPT ![p][x[1]] = @ - 1]
    /\ UNCHANGED <<now, realmVars, tokenVars, recordVars, state, draftVars,
                   signVars, voteVars, transactions_executed_count,
                   transactions_next_index>>

-----------------------------------------------------------------------------
(* Signing off *)

CanSignOff(p) == state[p] \in {"Draft", "SigningOff"}

\* Every successful sign off increases voting_proposal_count, whether or not
\* it is the one that starts the vote.
SignOff(p, signed_off_count, before) ==
    LET starts == signed_off_count = signatories_count[p]
    IN  /\ signatories_signed_off_count' =
              [signatories_signed_off_count EXCEPT ![p] = signed_off_count]
        /\ state' = [state EXCEPT ![p] = IF starts THEN "Voting" ELSE before]
        /\ voting_at' = [voting_at EXCEPT ![p] = IF starts THEN now ELSE @]
        /\ voting_proposal_count' = voting_proposal_count + 1
        /\ UNCHANGED <<now, config, realm, proposals_count, tokenVars,
                       recordVars, draftVars, signatories_count, tallyVars,
                       outcomeVars, vote_record, txVars>>

\* Without signatories the owner signs off the proposal.
SignOffByOwner(p) ==
    /\ CanSignOff(p)
    /\ signatories_count[p] = 0
    /\ SignOff(p, signatories_signed_off_count[p], state[p])
    /\ UNCHANGED signatory

\* The first signature moves the proposal to SigningOff.
SignOffBySignatory(p, s) ==
    /\ CanSignOff(p)
    /\ signatories_count[p] # 0
    /\ signatory[p][s] = "Pending"
    /\ signatory' = [signatory EXCEPT ![p][s] = "SignedOff"]
    /\ SignOff(p, signatories_signed_off_count[p] + 1,
               IF signatories_signed_off_count[p] = 0 THEN "SigningOff"
                                                      ELSE state[p])

-----------------------------------------------------------------------------
(* Voting *)

Ballot(p) ==
    [single   |-> kind[p].single,
     options  |-> kind[p].options,
     has_deny |-> kind[p].has_deny,
     weight   |-> weight[p],
     deny     |-> deny[p],
     veto     |-> veto[p]]

HasVoteTimeEnded(p) == voting_at[p] + config.max_voting_time < now

\* Variant: votes count as long as the voting time lasts.
CanCastVoteInTime(p) == voting_at[p] # None /\ ~HasVoteTimeEnded(p)

CanCastVote(p) == state[p] = "Voting" /\ ~HasVoteTimeEnded(p)

\* Approve carries the options given 100% of the weight.  Abstain is refused.
Votes ==
    [kind : {"Approve"}, choices : SUBSET Options]
        \cup [kind : {"Deny", "Veto"}, choices : {{}}]

GetVoteKind(vote) == IF vote.kind = "Veto" THEN "Veto" ELSE "Electorate"

\* assert_valid_vote
IsValidVote(p, vote) ==
    CASE vote.kind = "Approve" ->
            /\ vote.choices \subseteq kind[p].options
            /\ vote.choices # {}
            /\ kind[p].single => \E o \in vote.choices : vote.choices = {o}
      [] vote.kind = "Deny" -> kind[p].has_deny
      [] vote.kind = "Veto" -> TRUE

\* Variant: the council can veto its own proposals.
VetoesAny(m, vote_kind, p) ==
    IF vote_kind = "Electorate" THEN mint[p] = m
    ELSE m = "council" /\ realm.council_mint

\* get_proposal_governing_token_mint_for_vote: the council may veto community
\* proposals, the community may veto nothing.
VotesOn(m, vote_kind, p) ==
    IF vote_kind = "Electorate" THEN mint[p] = m
    ELSE m = "council" /\ realm.council_mint /\ mint[p] = "community"

\* The tallies after adding a vote of the given weight.
AddVote(p, vote, w) ==
    [Ballot(p) EXCEPT
        !.weight = [o \in Options |-> IF o \in vote.choices THEN @[o] + w
                                                            ELSE @[o]],
        !.deny = IF vote.kind = "Deny" THEN @ + w ELSE @,
        !.veto = IF vote.kind = "Veto" THEN @ + w ELSE @]

\* Variant: vetoes are not taken back.
RemoveElectorateVote(p, record) ==
    [Ballot(p) EXCEPT
        !.weight = [o \in Options |->
                        IF o \in record.choices THEN @[o] - record.weight
                                                ELSE @[o]],
        !.deny = IF record.kind = "Deny" THEN @ - record.weight ELSE @]

RemoveVote(p, record) ==
    [Ballot(p) EXCEPT
        !.weight = [o \in Options |->
                        IF o \in record.choices THEN @[o] - record.weight
                                                ELSE @[o]],
        !.deny = IF record.kind = "Deny" THEN @ - record.weight ELSE @,
        !.veto = IF record.kind = "Veto" THEN @ - record.weight ELSE @]

\* The tallies are u64, changed with checked_add and checked_sub.
FitsU64(b) ==
    /\ \A o \in Options : b.weight[o] \in 0 .. MaxU64
    /\ b.deny \in 0 .. MaxU64
    /\ b.veto \in 0 .. MaxU64

\* coerce_max_voter_weight adds the option and deny weights with checked_add.
CoercionFitsU64(b, m, vote_kind) ==
    \/ CastWeight(b, vote_kind) <= MaxU64
    \/ /\ ~UsesMaxVoterWeightAddin(m)
       /\ \/ m = "council"
          \/ realm.community_mint_max_vote_weight_fraction = FractionBase

\* resolve_max_voter_weight, a set because the addin's answer is external.
MaxVoterWeights(b, m, vote_kind) ==
    IF UsesMaxVoterWeightAddin(m)
    THEN {CoerceMaxVoterWeight(b, w, vote_kind) : w \in MaxAddinWeights}
    ELSE {GetMaxVoterWeightFromMintSupply(
              b, m = "council", realm.community_mint_max_vote_weight_fraction,
              Supply(m), vote_kind)}

\* Variant: the owner's outstanding proposals are not updated.
DecideKeepingOutstanding(p, new_state, new_result, max, threshold) ==
    /\ state' = [state EXCEPT ![p] = new_state]
    /\ result' = [result EXCEPT ![p] = new_result]
    /\ voting_completed_at' = [voting_completed_at EXCEPT ![p] = now]
    /\ max_vote_weight' = [max_vote_weight EXCEPT ![p] = max]
    /\ vote_threshold' = [vote_threshold EXCEPT ![p] = threshold]
    /\ voting_proposal_count' = SaturatingSub(voting_proposal_count, 1)
    /\ UNCHANGED outstanding

\* What deciding a vote writes, by tipping or by finalization.
Decide(p, new_state, new_result, max, threshold) ==
    /\ state' = [state EXCEPT ![p] = new_state]
    /\ result' = [result EXCEPT ![p] = new_result]
    /\ voting_completed_at' = [voting_completed_at EXCEPT ![p] = now]
    /\ max_vote_weight' = [max_vote_weight EXCEPT ![p] = max]
    /\ vote_threshold' = [vote_threshold EXCEPT ![p] = threshold]
    /\ outstanding' = DecreaseOutstanding(owner[p])
    /\ voting_proposal_count' = SaturatingSub(voting_proposal_count, 1)

SetTallies(p, b) ==
    /\ weight' = [weight EXCEPT ![p] = b.weight]
    /\ deny' = [deny EXCEPT ![p] = b.deny]
    /\ veto' = [veto EXCEPT ![p] = b.veto]

\* A vote counts with the weight of this moment, which the record remembers,
\* and may decide the proposal.
CastVote(p, t, vote) ==
    LET m         == MintOf(t)
        vote_kind == GetVoteKind(vote)
        threshold == VoteThreshold(m, vote_kind)
    IN  /\ vote_record[p][t] = NoVote
        /\ IsGoverningMint(m)
        /\ VotesOn(m, vote_kind, p)
        /\ CanCastVote(p)
        /\ t \in records
        /\ IsValidVote(p, vote)
        /\ threshold # Disabled
        /\ \E w \in VoterWeights(t) :
           LET b == AddVote(p, vote, w)
           IN  /\ FitsU64(b)
               /\ CoercionFitsU64(b, m, vote_kind)
               /\ \E max \in MaxVoterWeights(b, m, vote_kind) :
                  LET tipped == TryGetTippedVoteState(
                          b, max, config.vote_tipping, threshold, vote_kind)
                  IN  IF tipped = "Voting"
                      THEN UNCHANGED <<state, outcomeVars, outstanding,
                                       voting_proposal_count>>
                      ELSE Decide(p, tipped, TippedResult(b, result[p], tipped),
                                  max, threshold)
               /\ SetTallies(p, b)
               /\ vote_record' = [vote_record EXCEPT
                     ![p][t] = [kind |-> vote.kind, choices |-> vote.choices,
                                weight |-> w, relinquished |-> FALSE]]
        /\ unrelinquished' = [unrelinquished EXCEPT ![t] = @ + 1]
        /\ total_votes' = [total_votes EXCEPT ![t] = @ + 1]
        /\ UNCHANGED <<now, config, realm, proposals_count, tokenVars, records,
                       deposit, draftVars, signVars, voting_at, txVars>>

\* Variant: a vote nobody took part in is not finalized.
CanFinalizeCastVote(p) ==
    /\ state[p] = "Voting"
    /\ HasVoteTimeEnded(p)
    /\ \E t \in TORs : vote_record[p][t] # NoVote

\* assert_can_finalize_vote
CanFinalizeVote(p) == state[p] = "Voting" /\ HasVoteTimeEnded(p)

\* Anybody may finalize a vote whose time is over.
FinalizeVote(p) ==
    LET threshold == VoteThreshold(mint[p], "Electorate")
    IN  /\ IsGoverningMint(mint[p])
        /\ threshold # Disabled
        /\ CanFinalizeVote(p)
        /\ CoercionFitsU64(Ballot(p), mint[p], "Electorate")
        /\ \E max \in MaxVoterWeights(Ballot(p), mint[p], "Electorate") :
              Decide(p, ResolveFinalVoteState(Ballot(p), max, threshold),
                     ResolvedResult(Ballot(p), result[p], max, threshold),
                     max, threshold)
        /\ UNCHANGED <<now, config, realm, proposals_count, tokenVars, records,
                       deposit, unrelinquished, total_votes, draftVars,
                       signVars, tallyVars, voting_at, vote_record, txVars>>

\* Variant: a vote can be relinquished again.
CanRelinquishAgain(p, t) ==
    /\ IsGoverningMint(MintOf(t))
    /\ vote_record[p][t] # NoVote
    /\ VotesOn(MintOf(t), GetVoteKind(vote_record[p][t]), p)
    /\ unrelinquished[t] > 0

\* The checks every relinquish instruction makes on the vote record.
CanRelinquish(p, t) ==
    /\ IsGoverningMint(MintOf(t))
    /\ vote_record[p][t] # NoVote
    /\ VotesOn(MintOf(t), GetVoteKind(vote_record[p][t]), p)
    /\ ~vote_record[p][t].relinquished
    /\ unrelinquished[t] > 0

\* While the vote is open the vote is taken back and its record disposed.
TakeVoteBack(p, t) ==
    LET b == RemoveVote(p, vote_record[p][t])
    IN  /\ CanRelinquish(p, t)
        /\ CanCastVote(p)
        /\ FitsU64(b)
        /\ SetTallies(p, b)
        /\ vote_record' = [vote_record EXCEPT ![p][t] = NoVote]
        /\ total_votes[t] > 0
        /\ total_votes' = [total_votes EXCEPT ![t] = @ - 1]

\* Once the vote is decided the record stays and is marked.  Between the end
\* of the voting time and FinalizeVote neither is possible.
MarkRelinquished(p, t) ==
    /\ CanRelinquish(p, t)
    /\ state[p] # "Voting"
    /\ vote_record' = [vote_record EXCEPT
          ![p][t] = [@ EXCEPT !.relinquished = TRUE]]
    /\ UNCHANGED <<tallyVars, total_votes>>

RelinquishVote(p, t) ==
    /\ TakeVoteBack(p, t) \/ MarkRelinquished(p, t)
    /\ unrelinquished' = [unrelinquished EXCEPT ![t] = @ - 1]
    /\ UNCHANGED <<now, realmVars, tokenVars, records, deposit, outstanding,
                   state, draftVars, signVars, outcomeVars, voting_at, txVars>>

\* Variant: the end of the voting time is not looked at.
CanCancelExpired(p) == state[p] \in UndecidedStates

\* A proposal whose voting time is over can no longer be cancelled.
CanCancel(p) ==
    \/ state[p] \in {"Draft", "SigningOff"}
    \/ state[p] = "Voting" /\ ~HasVoteTimeEnded(p)

CancelProposal(p) ==
    /\ CanCancel(p)
    /\ outstanding' = DecreaseOutstanding(owner[p])
    /\ voting_proposal_count' =
          IF state[p] = "Voting" THEN SaturatingSub(voting_proposal_count, 1)
                                 ELSE voting_proposal_count
    /\ state' = [state EXCEPT ![p] = "Cancelled"]
    /\ UNCHANGED <<now, config, realm, proposals_count, tokenVars, records,
                   deposit, unrelinquished, total_votes, draftVars, signVars,
                   voteVars, txVars>>

-----------------------------------------------------------------------------
(* Executing transactions *)

\* Variants: the result of the option, or a former execution, is ignored.
CanExecuteAnyOption(p, x) ==
    /\ transaction[p][x].status # "Absent"
    /\ state[p] \in ApprovedStates
    /\ voting_completed_at[p] + transaction[p][x].hold_up_time < now
    /\ transaction[p][x].executed_at = None

CanExecuteAgain(p, x) ==
    /\ transaction[p][x].status # "Absent"
    /\ state[p] \in ApprovedStates
    /\ result[p][x[1]] = "Succeeded"
    /\ voting_completed_at[p] + transaction[p][x].hold_up_time < now

\* assert_can_execute_transaction
CanExecute(p, x) ==
    /\ transaction[p][x].status # "Absent"
    /\ state[p] \in ApprovedStates
    /\ result[p][x[1]] = "Succeeded"
    /\ voting_completed_at[p] + transaction[p][x].hold_up_time < now
    /\ transaction[p][x].executed_at = None

\* A transaction may itself execute another transaction of the proposal (the
\* runtime lets a program call itself); one such level is modelled.
Nests(p, x) == transaction[p][x].payload.kind = "ExecuteTransaction"

Nested(p, x) == transaction[p][x].payload.target

NestingAllowed(p, x) ==
    Nests(p, x) => /\ Nested(p, x) # x
                   /\ CanExecute(p, Nested(p, x))
                   /\ ~Nests(p, Nested(p, x))

\* The transaction whose instructions finally run.
Innermost(p, x) == IF Nests(p, x) THEN Nested(p, x) ELSE x

SetGovernanceConfig(payload) ==
    config' = IF payload.kind = "SetGovernanceConfig" THEN payload.config
                                                      ELSE config

\* A removed council mint cannot be brought back.
SetRealmConfig(payload) ==
    /\ payload.kind = "SetRealmConfig" /\ payload.config.council_mint
          => realm.council_mint
    /\ realm' = IF payload.kind = "SetRealmConfig" THEN payload.config
                                                   ELSE realm

\* What the instructions of a transaction do to the realm.  Payloads that call
\* other programs leave it alone.
Invoke(payload) == SetGovernanceConfig(payload) /\ SetRealmConfig(payload)

Executed(tx) == [tx EXCEPT !.status = "Success", !.executed_at = now]

\* Variant: one finished option is enough.
SomeOptionExecuted(p, executed) ==
    \E q \in kind[p].options :
        result[p][q] = "Succeeded" /\ executed[q] = transactions_count[p][q]

AllExecuted(p, executed) ==
    \A q \in kind[p].options :
        result[p][q] = "Succeeded" => executed[q] = transactions_count[p][q]

\* The proposal is read before the instructions are invoked and written from
\* that copy afterwards: what a nested execution wrote to it is lost, what it
\* wrote to its own transaction is not.
ExecuteTransaction(p, x) ==
    LET o        == x[1]
        executed == [transactions_executed_count[p] EXCEPT ![o] = @ + 1]
    IN  /\ CanExecute(p, x)
        /\ NestingAllowed(p, x)
        /\ Invoke(transaction[p][Innermost(p, x)].payload)
        /\ transactions_executed_count' =
              [transactions_executed_count EXCEPT ![p] = executed]
        /\ state' = [state EXCEPT
              ![p] = IF AllExecuted(p, executed) THEN "Completed"
                     ELSE IF @ = "Succeeded" THEN "Executing" ELSE @]
        /\ transaction' = [transaction EXCEPT
              ![p] = [y \in Slots |-> IF y \in {x, Innermost(p, x)}
                                      THEN Executed(@[y]) ELSE @[y]]]
        /\ UNCHANGED <<now, proposals_count, voting_proposal_count, tokenVars,
                       recordVars, draftVars, signVars, voteVars,
                       transactions_count, transactions_next_index>>

FlagTransactionError(p, x) ==
    /\ CanExecute(p, x)
    /\ transaction[p][x].status # "Error"
    /\ state' = [state EXCEPT ![p] = "ExecutingWithErrors"]
    /\ transaction' = [transaction EXCEPT ![p][x].status = "Error"]
    /\ UNCHANGED <<now, realmVars, tokenVars, recordVars, draftVars, signVars,
                   voteVars, transactions_count, transactions_executed_count,
                   transactions_next_index>>

-----------------------------------------------------------------------------
(* Environment *)

Tick ==
    /\ now < MaxTime
    /\ now' = now + 1
    /\ UNCHANGED <<realmVars, tokenVars, recordVars, state, draftVars,
                   signVars, voteVars, txVars>>

\* The governing mints are ordinary SPL mints: supply changes at any time.  The
\* supply of a mint that does not govern the realm is never read.
MintTokens(m) ==
    /\ IsGoverningMint(m)
    /\ Supply(m) < MintCeiling
    /\ free' = [free EXCEPT ![m] = @ + 1]
    /\ UNCHANGED <<now, realmVars, holding, recordVars, state, draftVars,
                   signVars, voteVars, txVars>>

BurnTokens(m) ==
    /\ IsGoverningMint(m)
    /\ free[m] > 0
    /\ Supply(m) > BurnFloor
    /\ free' = [free EXCEPT ![m] = @ - 1]
    /\ UNCHANGED <<now, realmVars, holding, recordVars, state, draftVars,
                   signVars, voteVars, txVars>>

-----------------------------------------------------------------------------
RealmNext ==
    \E t \in TORs :
        \/ CreateTokenOwnerRecord(t)
        \/ \E amount \in 1 .. free[MintOf(t)] : DepositGoverningTokens(t, amount)
        \/ WithdrawGoverningTokens(t)
        \/ \E m \in Mints, k \in Kinds : CreateProposal(t, m, k)

DraftNext ==
    \E p \in Proposals :
        \/ \E s \in Signatories : AddSignatory(p, s)
        \/ \E s \in Signatories : RemoveSignatory(p, s)
        \/ \E x \in Slots, h \in HoldUpTimes, l \in Payloads :
              InsertTransaction(p, x, h, l)
        \/ \E x \in Slots : RemoveTransaction(p, x)
        \/ SignOffByOwner(p)
        \/ \E s \in Signatories : SignOffBySignatory(p, s)

VoteNext ==
    \E p \in Proposals :
        \/ \E t \in TORs, vote \in Votes : CastVote(p, t, vote)
        \/ \E t \in TORs : RelinquishVote(p, t)
        \/ FinalizeVote(p)
        \/ CancelProposal(p)

ExecuteNext ==
    \E p \in Proposals, x \in Slots :
        \/ ExecuteTransaction(p, x)
        \/ FlagTransactionError(p, x)

EnvironmentNext ==
    \/ Tick
    \/ \E m \in Mints : MintTokens(m)
    \/ \E m \in Mints : BurnTokens(m)

Next == RealmNext \/ DraftNext \/ VoteNext \/ ExecuteNext \/ EnvironmentNext

Spec == Init /\ [][Next]_vars

\* Time passes, and FinalizeVote needs no signature of any member: whoever
\* wants the outcome of an expired vote can send it.
Fairness == WF_vars(Tick) /\ \A p \in Proposals : WF_vars(FinalizeVote(p))

FairSpec == Spec /\ Fairness

=============================================================================
