------------------------ MODULE GovernanceProperties ------------------------
(***************************************************************************)
(* What the governance program promises, stated over the state of          *)
(* Governance.                                                             *)
(***************************************************************************)
EXTENDS Governance, Functions

VoteRecords ==
    [kind : {"None", "Approve", "Deny", "Veto"}, choices : SUBSET Options,
     weight : Nat, relinquished : BOOLEAN]

Transactions ==
    [status : {"Absent", "None", "Success", "Error"},
     hold_up_time : Nat, executed_at : Nat \cup {None},
     payload : Payloads \cup {NoTransaction.payload}]

RealmTypeOK ==
    /\ now \in Nat
    /\ config \in GovernanceConfigs
    /\ realm \in RealmConfigs
    /\ proposals_count \in 0 .. MaxProposals
    /\ voting_proposal_count \in Nat

RecordTypeOK ==
    /\ free \in [Mints -> Nat]
    /\ holding \in [Mints -> Nat]
    /\ records \subseteq TORs
    /\ deposit \in [TORs -> Nat]
    /\ unrelinquished \in [TORs -> Nat]
    /\ total_votes \in [TORs -> Nat]
    /\ outstanding \in [TORs -> Nat]

ProposalTypeOK ==
    /\ state \in [Proposals -> ProposalStates \cup {"Absent"}]
    /\ owner \in [Proposals -> TORs \cup {NoOwner}]
    /\ mint \in [Proposals -> Mints]
    /\ kind \in [Proposals -> Kinds]
    /\ signatories_count \in [Proposals -> Nat]
    /\ signatories_signed_off_count \in [Proposals -> Nat]
    /\ signatory \in
          [Proposals -> [Signatories -> {"Absent", "Pending", "SignedOff"}]]

VoteTypeOK ==
    /\ weight \in [Proposals -> [Options -> 0 .. MaxU64]]
    /\ deny \in [Proposals -> 0 .. MaxU64]
    /\ veto \in [Proposals -> 0 .. MaxU64]
    /\ result \in [Proposals -> [Options -> OptionVoteResults]]
    /\ voting_at \in [Proposals -> Nat \cup {None}]
    /\ voting_completed_at \in [Proposals -> Nat \cup {None}]
    /\ max_vote_weight \in [Proposals -> Nat \cup {None}]
    /\ vote_threshold \in [Proposals -> VoteThresholds]
    /\ vote_record \in [Proposals -> [TORs -> VoteRecords]]

TransactionTypeOK ==
    /\ transactions_count \in [Proposals -> [Options -> Nat]]
    /\ transactions_executed_count \in [Proposals -> [Options -> Nat]]
    /\ transactions_next_index \in [Proposals -> [Options -> Nat]]
    /\ transaction \in [Proposals -> [Slots -> Transactions]]

\* Every account holds values of its declared types, and no tally leaves the
\* range of u64.
TypeOK ==
    /\ RealmTypeOK
    /\ RecordTypeOK
    /\ ProposalTypeOK
    /\ VoteTypeOK
    /\ TransactionTypeOK

-----------------------------------------------------------------------------
(* Token owner records *)

\* The realm never takes voter weights from an addin.
WeightsFromDeposits ==
    \A c \in RealmConfigs : ~c.use_community_voter_weight_addin

HasVoted(p, t) == vote_record[p][t] # NoVote

IsLive(p, t) == HasVoted(p, t) /\ ~vote_record[p][t].relinquished

\* unrelinquished_votes_count and total_votes_count are exactly the votes a
\* member has not relinquished and the vote records that exist, whatever mix
\* of casting, taking back and relinquishing led here.
VotesCounted ==
    \A t \in TORs :
        /\ unrelinquished[t] = Cardinality({p \in Proposals : IsLive(p, t)})
        /\ total_votes[t] = Cardinality({p \in Proposals : HasVoted(p, t)})

\* outstanding_proposal_count is exactly the number of undecided proposals of
\* the member: decrease_outstanding_proposal_count never skips one.
OutstandingCounted ==
    \A t \in TORs :
        outstanding[t] =
            Cardinality({p \in Proposals :
                            owner[p] = t /\ state[p] \in UndecidedStates})

\* The weight of a vote that is not relinquished stays deposited: the same
\* tokens can not leave the realm and vote again for somebody else.  It is
\* about realms that take voter weights from deposits.
LiveVotesBacked ==
    WeightsFromDeposits
        => \A p \in Proposals, t \in TORs :
              IsLive(p, t) => vote_record[p][t].weight <= deposit[t]

-----------------------------------------------------------------------------
(* Tallies *)

\* What each member gave to option o, or by a vote of kind k.
OptionWeights(r, o) ==
    [t \in TORs |-> IF o \in r[t].choices THEN r[t].weight ELSE 0]

KindWeights(r, k) == [t \in TORs |-> IF r[t].kind = k THEN r[t].weight ELSE 0]

\* Every tally of a proposal is the sum of the votes recorded for it, so a
\* vote can always be taken back without underflow.
TalliesMatchRecords ==
    \A p \in Proposals :
        LET r == vote_record[p]
        IN  /\ \A o \in Options :
                  weight[p][o] = SumFunctionOnSet(OptionWeights(r, o), TORs)
            /\ deny[p] = SumFunctionOnSet(KindWeights(r, "Deny"), TORs)
            /\ veto[p] = SumFunctionOnSet(KindWeights(r, "Veto"), TORs)

\* While a vote is open, approvals of any one option and rejections together
\* are weights of tokens that sit in the holding account of the mint.
OpenTallyBackedBySupply ==
    WeightsFromDeposits
        => \A p \in Proposals : state[p] = "Voting" =>
              /\ \A o \in Options : weight[p][o] + deny[p] <= holding[mint[p]]
              /\ veto[p] <= holding["council"]

\* A proposal only succeeds with at least the threshold weight of the captured
\* max voter weight and more approval than rejection, whether it was tipped by
\* any of the tipping rules or finalized.  (With a max voter weight of
\* zero the comparison with the whole weight holds for a vote of weight zero.)
SucceededMeansWon ==
    WeightsFromDeposits =>
        \A p \in Proposals, o \in Options :
            (result[p][o] = "Succeeded" /\ max_vote_weight[p] > 0) =>
                /\ 100 * weight[p][o] >= vote_threshold[p] * max_vote_weight[p]
                /\ weight[p][o] > deny[p]

\* Only the council stops a proposal by veto, only one of the community, and
\* only with the threshold weight of the captured max voter weight.
VetoHasQuorum ==
    \A p \in Proposals :
        state[p] = "Vetoed" =>
            /\ mint[p] = "community"
            /\ 100 * veto[p] >= vote_threshold[p] * max_vote_weight[p]
            /\ \A o \in Options : result[p][o] = "None"

-----------------------------------------------------------------------------
(* Signing off *)

\* The signatory counters are exact, and a proposal is only voted on after
\* everyone appointed to it has signed off.
VotingRequiresAllSignatures ==
    \A p \in Proposals :
        /\ signatories_count[p] =
              Cardinality({s \in Signatories : signatory[p][s] # "Absent"})
        /\ signatories_signed_off_count[p] =
              Cardinality({s \in Signatories : signatory[p][s] = "SignedOff"})
        /\ voting_at[p] # None =>
              \A s \in Signatories : signatory[p][s] # "Pending"

-----------------------------------------------------------------------------
(* Transactions *)

Existing(p, o) ==
    {x \in Slots : x[1] = o /\ transaction[p][x].status # "Absent"}

Ran(p) == {x \in Slots : transaction[p][x].status = "Success"}

\* A transaction only runs when its own option succeeded in a vote that was
\* decided more than its hold up time earlier.
ExecutedOnlyIfApproved ==
    \A p \in Proposals, x \in Slots :
        transaction[p][x].executed_at # None =>
            /\ result[p][x[1]] = "Succeeded"
            /\ state[p] \in {"Executing", "ExecutingWithErrors", "Completed"}
            /\ transaction[p][x].executed_at >
                  voting_completed_at[p] + transaction[p][x].hold_up_time

\* An executable proposal is Completed only when every transaction of every
\* option that succeeded has run.
CompletedMeansAllExecuted ==
    \A p \in Proposals :
        state[p] = "Completed" /\ kind[p].has_deny =>
            \A x \in Slots :
                (/\ result[p][x[1]] = "Succeeded"
                 /\ transaction[p][x].status # "Absent") => x \in Ran(p)

-----------------------------------------------------------------------------
(* Steps *)

OutcomeUnchanged(p) ==
    UNCHANGED <<weight[p], deny[p], veto[p], result[p], voting_completed_at[p],
                max_vote_weight[p], vote_threshold[p]>>

\* Once a vote is decided nothing changes its tallies, the results of the
\* options or the parameters captured for display, whatever happens to
\* deposits, records, supply and configuration afterwards.
DecidedIsFinal ==
    [][\A p \in Proposals :
          voting_completed_at[p] # None => OutcomeUnchanged(p)]_vars

\* A vote whose time is over has entered an implicit finalizing state: its
\* tallies are frozen, it can be neither cancelled nor vetoed, and the only
\* step it can take is the resolution of those tallies.
ExpiredVoteOnlyResolves ==
    [][\A p \in Proposals :
          state[p] = "Voting" /\ HasVoteTimeEnded(p) =>
              /\ UNCHANGED <<weight[p], deny[p], veto[p], vote_record[p]>>
              /\ state'[p] \in {"Voting", "Succeeded", "Defeated",
                                "Completed"}]_vars

\* A vote that can run out of time before the clock bound is decided or
\* cancelled in the end: an expired vote never stays open.
VoteIsDecided ==
    \A p \in Proposals :
        state[p] = "Voting" /\ voting_at[p] + config.max_voting_time < MaxTime
            ~> state[p] # "Voting"

=============================================================================
