---------------------------- MODULE MCGovernance ----------------------------
(* Instances of Governance for TLC. *)
EXTENDS GovernanceRefinement, TLC

YesNo       == [single |-> TRUE,  options |-> {1},    has_deny |-> TRUE]
Survey      == [single |-> TRUE,  options |-> {1},    has_deny |-> FALSE]
OneOfTwo    == [single |-> TRUE,  options |-> {1, 2}, has_deny |-> TRUE]
AnyOfTwo    == [single |-> FALSE, options |-> {1, 2}, has_deny |-> TRUE]

GovernanceConfig(tipping, community, council, veto_threshold) ==
    [community_vote_threshold |-> community,
     council_vote_threshold |-> council,
     council_veto_vote_threshold |-> veto_threshold,
     vote_tipping |-> tipping,
     max_voting_time |-> 1,
     min_transaction_hold_up_time |-> 0,
     min_community_weight_to_create_proposal |-> 1,
     min_council_weight_to_create_proposal |-> 1]

RealmConfig(council, fraction) ==
    [council_mint |-> council,
     community_mint_max_vote_weight_fraction |-> fraction,
     use_community_voter_weight_addin |-> FALSE,
     use_max_community_voter_weight_addin |-> FALSE]

OwnerSymmetry == Permutations(Owners)

Supplies(community, council) ==
    [m \in Mints |-> IF m = "community" THEN community ELSE council]

ShortVote(tipping, veto_threshold) ==
    [GovernanceConfig(tipping, 60, 60, veto_threshold) EXCEPT
        !.max_voting_time = 0]

OneYesNo == {YesNo}

\* Voting: members pass tokens on, vote with their deposits on one community
\* proposal of any kind, and the supply or the max voter weight addin changes
\* what a vote is measured against.
VotingKinds == {YesNo, Survey, OneOfTwo, AnyOfTwo}
VotingConfigs == {ShortVote(t, 60) : t \in {"Strict", "Early"}}
VotingRealms ==
    {RealmConfig(FALSE, FractionBase), RealmConfig(FALSE, 5),
     [RealmConfig(FALSE, 5) EXCEPT
         !.use_max_community_voter_weight_addin = TRUE]}
VotingSupply == Supplies(2, 0)

\* Electorates: a council that may veto, or voter weights from an addin, which
\* are not backed by deposits and reach the range of u64.
ElectorateRealms ==
    {RealmConfig(TRUE, FractionBase)} \cup
    {[RealmConfig(FALSE, fraction) EXCEPT
         !.use_community_voter_weight_addin = TRUE,
         !.use_max_community_voter_weight_addin = b]
        : fraction \in {5, FractionBase}, b \in BOOLEAN}
ElectorateConfigs == {ShortVote(t, 100) : t \in {"Strict", "Disabled"}}
ElectorateSupply == Supplies(1, 2)

\* Reform: of two proposals at a time one removes the council and lowers the
\* max voter weight.
ReformRealms == {RealmConfig(TRUE, FractionBase), RealmConfig(FALSE, 5)}
ReformConfigs == {ShortVote("Strict", 60)}
ReformPayloads ==
    {[kind |-> "SetRealmConfig", config |-> RealmConfig(FALSE, 5)]}
ReformSupply == Supplies(1, 1)

\* Execution: the whole life of a proposal.  One member decides alone; what
\* runs may change the config the other steps read.
LongVote ==
    [GovernanceConfig("Strict", 60, 60, 60) EXCEPT
        !.max_voting_time = 2, !.min_transaction_hold_up_time = 2]
ExecutionKinds == {AnyOfTwo}
ExecutionConfigs == {ShortVote("Strict", 60), LongVote}
ExecutionRealms == {RealmConfig(FALSE, FractionBase)}
ExecutionSupply == Supplies(1, 0)
ExecutionPayloads ==
    {[kind |-> "SetGovernanceConfig", config |-> LongVote],
     [kind |-> "ExecuteTransaction", target |-> <<1, 0>>]}
=============================================================================
