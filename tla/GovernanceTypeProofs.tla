------------------------ MODULE GovernanceTypeProofs ------------------------
(***************************************************************************)
(* Type correctness of Governance for every value of its constants.        *)
(***************************************************************************)
EXTENDS GovernanceProperties, WellFoundedInduction, TLAPS

-----------------------------------------------------------------------------
(* Vote resolution *)

\* A non-empty set of weights with an upper bound has a greatest element.
LEMMA MaxExists ==
  ASSUME NEW S, S \subseteq Nat, S # {}, NEW n \in Nat, \A w \in S : w <= n
  PROVE  \E w \in S : \A v \in S : v <= w
<1> DEFINE T == {k \in Nat : n - k \in S}
           R == OpToRel(<, Nat)
<1>1. T \subseteq Nat /\ T # {}
  <2>1. PICK w \in S : TRUE
    BY Zenon
  <2>2. n - w \in Nat /\ n - (n - w) = w
    OBVIOUS
  <2> QED
    BY Zenon, <2>1, <2>2
<1>2. IsWellFoundedOn(R, Nat)
  BY Zenon, NatLessThanWellFounded
<1>3. PICK x \in T : \A y \in T : ~(<<y, x>> \in R)
  <2> HIDE DEF T, R
  <2> QED BY Zenon, <1>1, <1>2, WFMin
<1>4. \A y \in T : ~(y < x)
  BY Zenon, <1>1, <1>3 DEF OpToRel
<1>5. ASSUME NEW v \in S PROVE v <= n - x
  <2>1. n - v \in Nat /\ n - (n - v) = v
    OBVIOUS
  <2>2. n - v \in T
    BY <2>1
  <2> QED
    BY <1>1, <1>4, <2>1, <2>2
<1> QED
  BY <1>5

-----------------------------------------------------------------------------
(* Tipping *)

\* What the resolution reads of a proposal, with u64 weights.
IsBallot(b, Opts) ==
    /\ b.options \subseteq Opts /\ b.options # {}
    /\ b.weight \in [Opts -> 0 .. MaxU64]
    /\ b.deny \in 0 .. MaxU64
    /\ b.veto \in 0 .. MaxU64

\* The greatest option weight is the weight of an option.
LEMMA MaxOptionWeightIsMax ==
  ASSUME NEW b, NEW Opts, IsBallot(b, Opts)
  PROVE  /\ MaxOptionWeight(b) \in 0 .. MaxU64
         /\ \E o \in b.options : MaxOptionWeight(b) = b.weight[o]
         /\ \A o \in b.options : b.weight[o] <= MaxOptionWeight(b)
<1> DEFINE S == {b.weight[o] : o \in b.options}
<1>1. S \subseteq Nat /\ S # {} /\ \A w \in S : w <= MaxU64
  BY VoteMathAssumption DEF IsBallot
<1>2. PICK w \in S : \A v \in S : v <= w
  BY Zenon, <1>1, MaxExists, VoteMathAssumption
<1>3. \E u \in S : \A o \in b.options : b.weight[o] <= u
  BY <1>2
<1>4. /\ MaxOptionWeight(b) \in S
      /\ \A o \in b.options : b.weight[o] <= MaxOptionWeight(b)
  BY <1>3 DEF MaxOptionWeight
<1> QED
  BY <1>4 DEF IsBallot

\* Products of weights and percentages are weights.
LEMMA ProductIsNat ==
  ASSUME NEW m \in Nat, NEW n \in Nat
  PROVE  m * n \in Nat
  OBVIOUS

\* Quotients of weights are weights.
LEMMA QuotientIsNat ==
  ASSUME NEW m \in Nat, NEW n \in Nat \ {0}
  PROVE  m \div n \in Nat
  OBVIOUS

\* coerce_max_voter_weight returns a weight.
LEMMA CoerceMaxVoterWeightType ==
  ASSUME NEW b, NEW Opts, IsBallot(b, Opts), NEW max \in Nat, NEW k
  PROVE  CoerceMaxVoterWeight(b, max, k) \in Nat
  BY MaxOptionWeightIsMax, VoteMathAssumption
  DEF CoerceMaxVoterWeight, CastWeight, IsBallot

\* get_max_voter_weight_from_mint_supply returns a weight.
LEMMA MaxVoterWeightFromSupplyType ==
  ASSUME NEW b, NEW Opts, IsBallot(b, Opts), NEW is_council, NEW k,
         NEW fraction \in 1 .. FractionBase, NEW supply \in Nat
  PROVE  GetMaxVoterWeightFromMintSupply(b, is_council, fraction, supply, k)
            \in Nat
<1>1. (supply * fraction) \div FractionBase \in Nat
  BY ProductIsNat, QuotientIsNat, VoteMathAssumption
<1>2. CoerceMaxVoterWeight(b, (supply * fraction) \div FractionBase, k) \in Nat
  BY <1>1, CoerceMaxVoterWeightType
<1> QED
  BY <1>2 DEF GetMaxVoterWeightFromMintSupply

\* The states resolve_final_vote_state can return.
LEMMA ResolveFinalVoteStateType ==
  ASSUME NEW b, b.has_deny \in BOOLEAN, NEW max, NEW pct
  PROVE  ResolveFinalVoteState(b, max, pct) \in
             {"Completed", "Defeated", "Succeeded"}
BY DEF ResolveFinalVoteState

\* Every option gets a result.
LEMMA ResolvedResultType ==
  ASSUME NEW b, NEW max, NEW pct, NEW Opts,
         NEW r \in [Opts -> OptionVoteResults]
  PROVE  ResolvedResult(b, r, max, pct) \in [Opts -> OptionVoteResults]
BY DEF ResolvedResult, FinalResult, OptionVoteResults

\* The states try_get_tipped_vote_state can return.
LEMMA TippedVoteStateType ==
  ASSUME NEW b, NEW max, NEW tipping, NEW pct, NEW k
  PROVE  TryGetTippedVoteState(b, max, tipping, pct, k) \in
             {"Voting", "Vetoed", "Succeeded", "Defeated"}
BY DEF TryGetTippedVoteState

\* Tipping writes results only.
LEMMA TippedResultType ==
  ASSUME NEW b, NEW tipped, NEW Opts, NEW r \in [Opts -> OptionVoteResults]
  PROVE  TippedResult(b, r, tipped) \in [Opts -> OptionVoteResults]
BY DEF TippedResult, OptionVoteResults
-----------------------------------------------------------------------------
(* The constants *)

\* The bounds are numbers.
LEMMA Bounds ==
  /\ MaxProposals \in Nat /\ MaxOptions \in Nat /\ MaxTransactions \in Nat
  /\ MaxTime \in Nat /\ BurnFloor \in Nat /\ MintCeiling \in Nat
  BY GovernanceAssumption

\* A proposal has at least one option, within the bound.
LEMMA KindsType ==
  \A k \in Kinds : /\ k.single \in BOOLEAN /\ k.has_deny \in BOOLEAN
                   /\ k.options \subseteq Options /\ k.options # {}
  BY Zenon, GovernanceAssumption

\* A token owner record is one of a governing mint, a slot lies in an option.
LEMMA Addresses ==
  /\ \A t \in TORs : MintOf(t) \in Mints
  /\ \A x \in Slots : x[1] \in Options /\ x[2] \in Nat
  BY Bounds DEF TORs, MintOf, Slots

\* Writing a value of the right type to one place of a table keeps its type.
LEMMA Updated ==
  ASSUME NEW S, NEW T, NEW f \in [S -> T], NEW i, NEW v \in T
  PROVE  [f EXCEPT ![i] = v] \in [S -> T]
<1>1. [f EXCEPT ![i] = v] = [x \in S |-> IF x = i THEN v ELSE f[x]]
  BY Zenon
<1> QED
  BY Zenon, <1>1

\* The same for a table of tables.
LEMMA UpdatedWithin ==
  ASSUME NEW S, NEW A, NEW T, NEW f \in [S -> [A -> T]], NEW i \in S, NEW j,
         NEW v \in T
  PROVE  [f EXCEPT ![i][j] = v] \in [S -> [A -> T]]
<1>1. [f[i] EXCEPT ![j] = v] \in [A -> T]
  BY Zenon, Updated
<1> QED
  BY Zenon, <1>1, Updated

-----------------------------------------------------------------------------
(* Types *)

\* A fresh realm is well typed.
LEMMA InitType == Init => TypeOK
<1> SUFFICES ASSUME Init PROVE TypeOK
  OBVIOUS
<1>1. RealmTypeOK
  BY Bounds DEF Init, RealmTypeOK
<1>2. RecordTypeOK
  <2>1. InitialSupply \in [Mints -> Nat]
    BY Zenon, GovernanceAssumption
  <2> QED
    BY <2>1 DEF Init, RecordTypeOK
<1>3. ProposalTypeOK
  <2>1. (CHOOSE k \in Kinds : TRUE) \in Kinds
    BY Zenon, GovernanceAssumption
  <2> QED
    BY <2>1 DEF Init, ProposalTypeOK, Mints
<1>4. VoteTypeOK
  <2>1. NoVote \in VoteRecords
    BY DEF NoVote, VoteRecords
  <2>2. Disabled \in VoteThresholds
    BY DEF VoteThresholds, Disabled
  <2> QED
    BY <2>1, <2>2, VoteMathAssumption DEF Init, VoteTypeOK, OptionVoteResults
<1>5. TransactionTypeOK
  <2>1. NoTransaction \in Transactions
    BY DEF NoTransaction, Transactions
  <2> QED
    BY <2>1 DEF Init, TransactionTypeOK
<1> QED
  BY Zenon, <1>1, <1>2, <1>3, <1>4, <1>5 DEF TypeOK

\* A step keeps the types when what it changes is well typed.
LEMMA TypesAfter ==
  ASSUME TypeOK,
         UNCHANGED <<now, realmVars>> \/ RealmTypeOK',
         UNCHANGED <<tokenVars, recordVars>> \/ RecordTypeOK',
         UNCHANGED <<state, draftVars, signVars>> \/ ProposalTypeOK',
         UNCHANGED voteVars \/ VoteTypeOK',
         UNCHANGED txVars \/ TransactionTypeOK'
  PROVE  TypeOK'
<1>1. UNCHANGED <<now, realmVars>> => RealmTypeOK'
  BY Zenon DEF TypeOK, RealmTypeOK, realmVars
<1>2. UNCHANGED <<tokenVars, recordVars>> => RecordTypeOK'
  BY Zenon DEF TypeOK, RecordTypeOK, tokenVars, recordVars
<1>3. UNCHANGED <<state, draftVars, signVars>> => ProposalTypeOK'
  BY Zenon DEF TypeOK, ProposalTypeOK, draftVars, signVars
<1>4. UNCHANGED voteVars => VoteTypeOK'
  BY Zenon DEF TypeOK, VoteTypeOK, voteVars, tallyVars, outcomeVars
<1>5. UNCHANGED txVars => TransactionTypeOK'
  BY Zenon DEF TypeOK, TransactionTypeOK, txVars
<1> QED
  BY Zenon, <1>1, <1>2, <1>3, <1>4, <1>5 DEF TypeOK

\* Records, deposits, withdrawals and new proposals keep the types.
LEMMA RealmNextType ==
  ASSUME TypeOK, RealmNext
  PROVE  TypeOK'
<1>1. ASSUME NEW t \in TORs, CreateTokenOwnerRecord(t)
      PROVE  TypeOK'
  <2>1. UNCHANGED <<now, realmVars, state, draftVars, signVars, voteVars, txVars>>
    BY Zenon, <1>1 DEF CreateTokenOwnerRecord
  <2>2. /\ records' = records \cup {t}
        /\ UNCHANGED <<free, holding, deposit, unrelinquished, total_votes,
                       outstanding>>
    BY Zenon, <1>1 DEF CreateTokenOwnerRecord, tokenVars
  <2>3. RecordTypeOK'
    BY <2>2 DEF TypeOK, RecordTypeOK
  <2> QED
    BY Zenon, <2>1, <2>3, TypesAfter
<1>2. ASSUME NEW t \in TORs, NEW n \in Nat, DepositGoverningTokens(t, n)
      PROVE  TypeOK'
  <2>1. UNCHANGED <<now, realmVars, state, draftVars, signVars, voteVars, txVars>>
    BY Zenon, <1>2 DEF DepositGoverningTokens
  <2>2. /\ n <= free[MintOf(t)]
        /\ free' = [free EXCEPT ![MintOf(t)] = @ - n]
        /\ holding' = [holding EXCEPT ![MintOf(t)] = @ + n]
        /\ records' = records \cup {t}
        /\ deposit' = [deposit EXCEPT ![t] = @ + n]
        /\ UNCHANGED <<unrelinquished, total_votes, outstanding>>
    BY Zenon, <1>2 DEF DepositGoverningTokens
  <2>3. RecordTypeOK'
    BY <2>2, Addresses DEF TypeOK, RecordTypeOK
  <2> QED
    BY Zenon, <2>1, <2>3, TypesAfter
<1>3. ASSUME NEW t \in TORs, WithdrawGoverningTokens(t)
      PROVE  TypeOK'
  <2>1. UNCHANGED <<now, realmVars, state, draftVars, signVars, voteVars, txVars>>
    BY Zenon, <1>3 DEF WithdrawGoverningTokens
  <2>2. /\ deposit[t] <= holding[MintOf(t)]
        /\ holding' = [holding EXCEPT ![MintOf(t)] = @ - deposit[t]]
        /\ free' = [free EXCEPT ![MintOf(t)] = @ + deposit[t]]
        /\ deposit' = [deposit EXCEPT ![t] = 0]
        /\ UNCHANGED <<records, unrelinquished, total_votes, outstanding>>
    BY Zenon, <1>3 DEF WithdrawGoverningTokens
  <2>3. RecordTypeOK'
    BY <2>2, Addresses DEF TypeOK, RecordTypeOK
  <2> QED
    BY Zenon, <2>1, <2>3, TypesAfter
<1>4. ASSUME NEW t \in TORs, NEW m \in Mints, NEW k \in Kinds, CreateProposal(t, m, k)
      PROVE  TypeOK'
  <2>1. UNCHANGED <<signVars, voteVars, txVars>>
    BY Zenon, <1>4 DEF CreateProposal
  <2>2. /\ proposals_count + 1 <= MaxProposals
        /\ proposals_count' = proposals_count + 1
        /\ UNCHANGED <<now, config, realm, voting_proposal_count>>
    BY Zenon, <1>4 DEF CreateProposal
  <2>3. RealmTypeOK'
    BY <2>2, Bounds DEF TypeOK, RealmTypeOK
  <2>4. /\ outstanding' = [outstanding EXCEPT ![t] = @ + 1]
        /\ UNCHANGED <<free, holding, records, deposit, unrelinquished, total_votes>>
    BY Zenon, <1>4 DEF CreateProposal, tokenVars
  <2>5. RecordTypeOK'
    BY <2>4 DEF TypeOK, RecordTypeOK
  <2>6. /\ state' = [state EXCEPT ![proposals_count + 1] = "Draft"]
        /\ owner' = [owner EXCEPT ![proposals_count + 1] = t]
        /\ mint' = [mint EXCEPT ![proposals_count + 1] = m]
        /\ kind' = [kind EXCEPT ![proposals_count + 1] = k]
    BY Zenon, <1>4 DEF CreateProposal
  <2>7. ProposalTypeOK'
    <3>1. "Draft" \in ProposalStates
      BY DEF ProposalStates
    <3>2. /\ state' \in [Proposals -> ProposalStates \cup {"Absent"}]
          /\ owner' \in [Proposals -> TORs \cup {NoOwner}]
          /\ mint' \in [Proposals -> Mints]
          /\ kind' \in [Proposals -> Kinds]
      BY Zenon, <2>6, <3>1, Updated DEF TypeOK, ProposalTypeOK
    <3> QED
      BY Zenon, <2>1, <3>2 DEF TypeOK, ProposalTypeOK, signVars
  <2> QED
    BY Zenon, <2>1, <2>3, <2>5, <2>7, TypesAfter
<1>5. \A t \in TORs : \A n \in 1 .. free[MintOf(t)] : n \in Nat
  BY Addresses DEF TypeOK, RecordTypeOK
<1> QED
  BY Zenon, <1>1, <1>2, <1>3, <1>4, <1>5 DEF RealmNext

\* Drafting and signing off keep the types.
LEMMA DraftNextType ==
  ASSUME TypeOK, DraftNext
  PROVE  TypeOK'
<1> USE DEF TypeOK
<1>1. ASSUME NEW p \in Proposals, NEW s \in Signatories,
             AddSignatory(p, s) \/ RemoveSignatory(p, s)
      PROVE  TypeOK'
  <2>1. UNCHANGED <<now, realmVars, tokenVars, recordVars, state, draftVars,
                    signatories_signed_off_count, voteVars, txVars>>
    BY Zenon, <1>1 DEF AddSignatory, RemoveSignatory
  <2>2. \E v \in {"Absent", "Pending"} : signatory' = [signatory EXCEPT ![p][s] = v]
    BY Zenon, <1>1 DEF AddSignatory, RemoveSignatory
  <2>3. signatory' \in
          [Proposals -> [Signatories -> {"Absent", "Pending", "SignedOff"}]]
    BY <2>2, UpdatedWithin DEF ProposalTypeOK
  <2>4. \/ signatories_count' = [signatories_count EXCEPT ![p] = @ + 1]
        \/ /\ signatories_count[p] > 0
           /\ signatories_count' = [signatories_count EXCEPT ![p] = @ - 1]
    BY Zenon, <1>1 DEF AddSignatory, RemoveSignatory
  <2>5. signatories_count' \in [Proposals -> Nat]
    BY <2>4 DEF ProposalTypeOK
  <2>6. ProposalTypeOK'
    BY Zenon, <2>1, <2>3, <2>5 DEF ProposalTypeOK, draftVars
  <2> QED
    BY Zenon, <2>1, <2>6, TypesAfter
<1>2. ASSUME NEW p \in Proposals, NEW x \in Slots, NEW h \in HoldUpTimes,
             NEW l \in Payloads, InsertTransaction(p, x, h, l)
      PROVE  TypeOK'
  <2> DEFINE tx == [status |-> "None", hold_up_time |-> h, executed_at |-> None,
                    payload |-> l]
  <2>1. UNCHANGED <<now, realmVars, tokenVars, recordVars, state, draftVars,
                    signVars, voteVars, transactions_executed_count>>
    BY Zenon, <1>2 DEF InsertTransaction
  <2>2. /\ transactions_next_index' =
              [transactions_next_index EXCEPT
                  ![p][x[1]] = IF x[2] = @ THEN @ + 1 ELSE @]
        /\ transactions_count' = [transactions_count EXCEPT ![p][x[1]] = @ + 1]
        /\ transaction' = [transaction EXCEPT ![p][x] = tx]
    BY Zenon, <1>2 DEF InsertTransaction
  <2>3. tx \in Transactions
    <3>1. HoldUpTimes \subseteq Nat
      BY Zenon, GovernanceAssumption
    <3> QED
      BY <3>1 DEF Transactions
  <2>4. transaction' \in [Proposals -> [Slots -> Transactions]]
    BY Zenon, <2>2, <2>3, UpdatedWithin DEF TransactionTypeOK
  <2>5. /\ transactions_next_index' \in [Proposals -> [Options -> Nat]]
        /\ transactions_count' \in [Proposals -> [Options -> Nat]]
    BY <2>2, Addresses DEF TransactionTypeOK
  <2>6. TransactionTypeOK'
    BY Zenon, <2>1, <2>4, <2>5 DEF TransactionTypeOK
  <2> QED
    BY Zenon, <2>1, <2>6, TypesAfter
<1>3. ASSUME NEW p \in Proposals, NEW x \in Slots, RemoveTransaction(p, x)
      PROVE  TypeOK'
  <2>1. UNCHANGED <<now, realmVars, tokenVars, recordVars, state, draftVars,
                    signVars, voteVars, transactions_executed_count,
                    transactions_next_index>>
    BY Zenon, <1>3 DEF RemoveTransaction
  <2>2. /\ transactions_count[p][x[1]] > 0
        /\ transaction' = [transaction EXCEPT ![p][x] = NoTransaction]
        /\ transactions_count' = [transactions_count EXCEPT ![p][x[1]] = @ - 1]
    BY Zenon, <1>3 DEF RemoveTransaction
  <2>3. NoTransaction \in Transactions
    BY DEF NoTransaction, Transactions
  <2>4. transaction' \in [Proposals -> [Slots -> Transactions]]
    BY Zenon, <2>2, <2>3, UpdatedWithin DEF TransactionTypeOK
  <2>5. transactions_count' \in [Proposals -> [Options -> Nat]]
    BY <2>2, Addresses DEF TransactionTypeOK
  <2>6. TransactionTypeOK'
    BY Zenon, <2>1, <2>4, <2>5 DEF TransactionTypeOK
  <2> QED
    BY Zenon, <2>1, <2>6, TypesAfter
<1>4. ASSUME NEW p \in Proposals, NEW n \in Nat,
             NEW b \in ProposalStates \cup {"Absent"}, SignOff(p, n, b),
             signatory' \in
               [Proposals -> [Signatories -> {"Absent", "Pending", "SignedOff"}]]
      PROVE  TypeOK'
  <2>1. /\ UNCHANGED <<tokenVars, recordVars, txVars, draftVars,
                       signatories_count, tallyVars, outcomeVars, vote_record>>
        /\ UNCHANGED <<now, config, realm, proposals_count>>
    BY Zenon, <1>4 DEF SignOff
  <2>2. /\ signatories_signed_off_count' =
              [signatories_signed_off_count EXCEPT ![p] = n]
        /\ \E v \in {"Voting", b} : state' = [state EXCEPT ![p] = v]
        /\ \E v \in {now, voting_at[p]} : voting_at' = [voting_at EXCEPT ![p] = v]
        /\ voting_proposal_count' = voting_proposal_count + 1
    BY Zenon, <1>4 DEF SignOff
  <2>3. RealmTypeOK'
    BY <2>1, <2>2 DEF RealmTypeOK
  <2>4. ProposalTypeOK'
    <3>1. \A v \in {"Voting", b} : v \in ProposalStates \cup {"Absent"}
      BY DEF ProposalStates
    <3>2. state' \in [Proposals -> ProposalStates \cup {"Absent"}]
      <4>1. PICK v \in {"Voting", b} : state' = [state EXCEPT ![p] = v]
        BY Zenon, <2>2
      <4> QED
        BY Zenon, <3>1, <4>1, Updated DEF ProposalTypeOK
    <3>3. signatories_signed_off_count' \in [Proposals -> Nat]
      BY Zenon, <2>2, Updated DEF ProposalTypeOK
    <3> QED
      BY Zenon, <1>4, <2>1, <3>2, <3>3 DEF ProposalTypeOK, draftVars
  <2>5. VoteTypeOK'
    <3>1. voting_at' \in [Proposals -> Nat \cup {None}]
      BY <2>2 DEF RealmTypeOK, VoteTypeOK
    <3> QED
      BY Zenon, <2>1, <3>1 DEF VoteTypeOK, tallyVars, outcomeVars
  <2> QED
    BY Zenon, <2>1, <2>3, <2>4, <2>5, TypesAfter
<1>5. ASSUME NEW p \in Proposals, SignOffByOwner(p)
      PROVE  TypeOK'
  <2>1. /\ SignOff(p, signatories_signed_off_count[p], state[p])
        /\ UNCHANGED signatory
    BY Zenon, <1>5 DEF SignOffByOwner
  <2>2. /\ signatories_signed_off_count[p] \in Nat
        /\ state[p] \in ProposalStates \cup {"Absent"}
    BY Zenon DEF ProposalTypeOK
  <2> QED
    BY Zenon, <1>4, <2>1, <2>2 DEF ProposalTypeOK
<1>6. ASSUME NEW p \in Proposals, NEW s \in Signatories, SignOffBySignatory(p, s)
      PROVE  TypeOK'
  <2>1. /\ \E b \in {"SigningOff", state[p]} :
              SignOff(p, signatories_signed_off_count[p] + 1, b)
        /\ signatory' = [signatory EXCEPT ![p][s] = "SignedOff"]
    BY Zenon, <1>6 DEF SignOffBySignatory
  <2>2. /\ signatories_signed_off_count[p] + 1 \in Nat
        /\ \A b \in {"SigningOff", state[p]} : b \in ProposalStates \cup {"Absent"}
    BY DEF ProposalTypeOK, ProposalStates
  <2>3. signatory' \in
          [Proposals -> [Signatories -> {"Absent", "Pending", "SignedOff"}]]
    BY Zenon, <2>1, UpdatedWithin DEF ProposalTypeOK
  <2> QED
    BY Zenon, <1>4, <2>1, <2>2, <2>3
<1> QED
  BY Zenon, <1>1, <1>2, <1>3, <1>5, <1>6 DEF DraftNext

-----------------------------------------------------------------------------
(* Types: voting *)

\* What the vote resolution reads of a proposal is a ballot.
LEMMA BallotType ==
  ASSUME TypeOK, NEW p \in Proposals
  PROVE  IsBallot(Ballot(p), Options) /\ Ballot(p).has_deny \in BOOLEAN
<1>1. kind[p] \in Kinds
  BY Zenon DEF TypeOK, ProposalTypeOK
<1>2. /\ weight[p] \in [Options -> 0 .. MaxU64]
      /\ deny[p] \in 0 .. MaxU64 /\ veto[p] \in 0 .. MaxU64
  BY Zenon DEF TypeOK, VoteTypeOK
<1> QED
  BY <1>1, <1>2, KindsType DEF Ballot, IsBallot

\* A tally change that passes the u64 checks leaves a well formed ballot.
LEMMA AddVoteType ==
  ASSUME TypeOK, NEW p \in Proposals, NEW vote \in Votes, NEW w \in Nat,
         FitsU64(AddVote(p, vote, w))
  PROVE  /\ IsBallot(AddVote(p, vote, w), Options)
         /\ AddVote(p, vote, w).has_deny \in BOOLEAN
<1> DEFINE b == AddVote(p, vote, w)
<1>1. /\ b.options = kind[p].options
      /\ b.has_deny = kind[p].has_deny
      /\ b.weight = [o \in Options |-> b.weight[o]]
  BY DEF AddVote, Ballot
<1>2. kind[p] \in Kinds
  BY Zenon DEF TypeOK, ProposalTypeOK
<1> HIDE DEF b
<1>3. b.weight \in [Options -> 0 .. MaxU64]
  BY <1>1 DEF FitsU64, b
<1> QED
  BY Zenon, <1>1, <1>2, <1>3, KindsType DEF FitsU64, IsBallot, b

\* A vote taken back within the u64 checks leaves a well formed ballot.
LEMMA RemoveVoteType ==
  ASSUME TypeOK, NEW p \in Proposals, NEW r, FitsU64(RemoveVote(p, r))
  PROVE  IsBallot(RemoveVote(p, r), Options)
<1> DEFINE b == RemoveVote(p, r)
<1>1. /\ b.options = kind[p].options
      /\ b.weight = [o \in Options |-> b.weight[o]]
  BY DEF RemoveVote, Ballot
<1>2. kind[p] \in Kinds
  BY Zenon DEF TypeOK, ProposalTypeOK
<1> HIDE DEF b
<1>3. b.weight \in [Options -> 0 .. MaxU64]
  BY <1>1 DEF FitsU64, b
<1> QED
  BY Zenon, <1>1, <1>2, <1>3, KindsType DEF FitsU64, IsBallot, b

\* resolve_voter_weight returns weights.
LEMMA VoterWeightsType ==
  ASSUME TypeOK, NEW t \in TORs
  PROVE  VoterWeights(t) \subseteq Nat
<1>1. AddinWeights \subseteq Nat /\ deposit[t] \in Nat
  BY Zenon, GovernanceAssumption DEF TypeOK, RecordTypeOK
<1> QED
  BY Zenon, <1>1 DEF VoterWeights

\* resolve_max_voter_weight returns weights.
LEMMA MaxVoterWeightsType ==
  ASSUME TypeOK, NEW b, IsBallot(b, Options), NEW m \in Mints, NEW vote_kind
  PROVE  MaxVoterWeights(b, m, vote_kind) \subseteq Nat
<1>1. MaxAddinWeights \subseteq Nat
  BY Zenon, GovernanceAssumption
<1>2. \A w \in MaxAddinWeights : CoerceMaxVoterWeight(b, w, vote_kind) \in Nat
  BY Zenon, <1>1, CoerceMaxVoterWeightType
<1>3. Supply(m) \in Nat
  BY DEF Supply, TypeOK, RecordTypeOK
<1>4. realm.community_mint_max_vote_weight_fraction \in 1 .. FractionBase
  BY Zenon, GovernanceAssumption DEF TypeOK, RealmTypeOK, IsValidRealmConfig
<1>5. GetMaxVoterWeightFromMintSupply(
          b, m = "council", realm.community_mint_max_vote_weight_fraction,
          Supply(m), vote_kind) \in Nat
  BY Zenon, <1>3, <1>4, MaxVoterWeightFromSupplyType
<1> QED
  BY Zenon, <1>2, <1>5 DEF MaxVoterWeights

\* resolve_vote_threshold returns a threshold.
LEMMA VoteThresholdType ==
  ASSUME TypeOK, NEW m, NEW vote_kind
  PROVE  VoteThreshold(m, vote_kind) \in VoteThresholds
<1>1. IsValidGovernanceConfig(config)
  BY Zenon, GovernanceAssumption DEF TypeOK, RealmTypeOK
<1>2. /\ config.community_vote_threshold \in VoteThresholds
      /\ config.council_vote_threshold \in VoteThresholds
      /\ config.council_veto_vote_threshold \in VoteThresholds
  BY Zenon, <1>1 DEF IsValidGovernanceConfig
<1>3. Disabled \in VoteThresholds
  BY DEF Disabled, VoteThresholds
<1> QED
  BY <1>2, <1>3 DEF VoteThreshold

\* decrease_outstanding_proposal_count returns counts.
LEMMA DecreaseOutstandingType ==
  ASSUME TypeOK, NEW t
  PROVE  DecreaseOutstanding(t) \in [TORs -> Nat]
<1>1. outstanding \in [TORs -> Nat]
  BY Zenon DEF TypeOK, RecordTypeOK
<1>2. DecreaseOutstanding(t) =
        [u \in TORs |-> IF u = t THEN IF outstanding[t] # 0 THEN outstanding[t] - 1
                                                            ELSE 0
                                 ELSE outstanding[u]]
  BY Zenon, <1>1 DEF DecreaseOutstanding
<1> QED
  BY <1>1, <1>2

\* What Decide writes is well typed.
LEMMA DecideType ==
  ASSUME TypeOK, NEW p \in Proposals, NEW s \in ProposalStates,
         NEW r \in [Options -> OptionVoteResults], NEW max \in Nat,
         NEW th \in VoteThresholds, Decide(p, s, r, max, th)
  PROVE  /\ state' \in [Proposals -> ProposalStates \cup {"Absent"}]
         /\ result' \in [Proposals -> [Options -> OptionVoteResults]]
         /\ voting_completed_at' \in [Proposals -> Nat \cup {None}]
         /\ max_vote_weight' \in [Proposals -> Nat \cup {None}]
         /\ vote_threshold' \in [Proposals -> VoteThresholds]
         /\ outstanding' \in [TORs -> Nat]
         /\ voting_proposal_count' \in Nat
<1>1. /\ state' = [state EXCEPT ![p] = s]
      /\ result' = [result EXCEPT ![p] = r]
      /\ voting_completed_at' = [voting_completed_at EXCEPT ![p] = now]
      /\ max_vote_weight' = [max_vote_weight EXCEPT ![p] = max]
      /\ vote_threshold' = [vote_threshold EXCEPT ![p] = th]
      /\ outstanding' = DecreaseOutstanding(owner[p])
      /\ voting_proposal_count' = SaturatingSub(voting_proposal_count, 1)
  BY Zenon DEF Decide
<1>2. outstanding' \in [TORs -> Nat]
  BY Zenon, <1>1, DecreaseOutstandingType
<1>3. voting_proposal_count \in Nat /\ now \in Nat
  BY Zenon DEF TypeOK, RealmTypeOK
<1>4. voting_proposal_count' \in Nat
  BY <1>1, <1>3 DEF SaturatingSub
<1>5. state' \in [Proposals -> ProposalStates \cup {"Absent"}]
  BY Zenon, <1>1, Updated DEF TypeOK, ProposalTypeOK
<1>6. /\ result' \in [Proposals -> [Options -> OptionVoteResults]]
      /\ voting_completed_at' \in [Proposals -> Nat \cup {None}]
      /\ max_vote_weight' \in [Proposals -> Nat \cup {None}]
      /\ vote_threshold' \in [Proposals -> VoteThresholds]
  BY Zenon, <1>1, <1>3, Updated DEF TypeOK, VoteTypeOK
<1> QED
  BY Zenon, <1>2, <1>4, <1>5, <1>6

\* A well formed ballot is written back as well typed tallies.
LEMMA SetTalliesType ==
  ASSUME TypeOK, NEW p \in Proposals, NEW b, IsBallot(b, Options),
         SetTallies(p, b)
  PROVE  /\ weight' \in [Proposals -> [Options -> 0 .. MaxU64]]
         /\ deny' \in [Proposals -> 0 .. MaxU64]
         /\ veto' \in [Proposals -> 0 .. MaxU64]
  BY Zenon, Updated DEF SetTallies, IsBallot, TypeOK, VoteTypeOK

\* Casting a vote, decisive or not, keeps the types.
LEMMA CastVoteType ==
  ASSUME TypeOK, NEW p \in Proposals, NEW t \in TORs, NEW vote \in Votes,
         CastVote(p, t, vote)
  PROVE  TypeOK'
<1> DEFINE m == MintOf(t)
           vote_kind == GetVoteKind(vote)
           threshold == VoteThreshold(m, vote_kind)
<1>1. PICK w \in VoterWeights(t) :
         LET b == AddVote(p, vote, w)
         IN  /\ FitsU64(b)
             /\ \E max \in MaxVoterWeights(b, m, vote_kind) :
                LET tipped == TryGetTippedVoteState(
                        b, max, config.vote_tipping, threshold, vote_kind)
                IN  IF tipped = "Voting"
                    THEN UNCHANGED <<state, outcomeVars, outstanding,
                                     voting_proposal_count>>
                    ELSE Decide(p, tipped, TippedResult(b, result[p], tipped),
                                max, threshold)
             /\ SetTallies(p, b)
             /\ vote_record' = [vote_record EXCEPT
                   ![p][t] = [kind |-> vote.kind, choices |-> vote.choices,
                              weight |-> w, relinquished |-> FALSE]]
  BY Zenon DEF CastVote
<1>2. /\ UNCHANGED <<now, config, realm, proposals_count>>
      /\ UNCHANGED <<tokenVars, records, deposit>>
      /\ UNCHANGED <<draftVars, signVars, voting_at, txVars>>
      /\ unrelinquished' = [unrelinquished EXCEPT ![t] = @ + 1]
      /\ total_votes' = [total_votes EXCEPT ![t] = @ + 1]
  BY DEF CastVote
<1> DEFINE b == AddVote(p, vote, w)
           cast == [kind |-> vote.kind, choices |-> vote.choices,
                    weight |-> w, relinquished |-> FALSE]
<1>3. w \in Nat /\ m \in Mints
  BY Zenon, VoterWeightsType, Addresses
<1>4. IsBallot(b, Options)
  BY Zenon, <1>1, <1>3, AddVoteType
<1>5. PICK max \in MaxVoterWeights(b, m, vote_kind) :
         LET tipped == TryGetTippedVoteState(
                 b, max, config.vote_tipping, threshold, vote_kind)
         IN  IF tipped = "Voting"
             THEN UNCHANGED <<state, outcomeVars, outstanding,
                              voting_proposal_count>>
             ELSE Decide(p, tipped, TippedResult(b, result[p], tipped),
                         max, threshold)
  BY Zenon, <1>1
<1> DEFINE tipped == TryGetTippedVoteState(
                 b, max, config.vote_tipping, threshold, vote_kind)
           new == TippedResult(b, result[p], tipped)
<1>6. max \in Nat /\ threshold \in VoteThresholds
  BY Zenon, <1>3, <1>4, MaxVoterWeightsType, VoteThresholdType
<1>7. tipped = "Voting" \/ tipped \in ProposalStates
  BY TippedVoteStateType DEF ProposalStates
<1>8. new \in [Options -> OptionVoteResults]
  BY Zenon, TippedResultType DEF TypeOK, VoteTypeOK
<1>9. \/ UNCHANGED <<state, outcomeVars, outstanding, voting_proposal_count>>
      \/ tipped \in ProposalStates /\ Decide(p, tipped, new, max, threshold)
  BY Zenon, <1>5, <1>7
<1>10. /\ SetTallies(p, b)
       /\ vote_record' = [vote_record EXCEPT ![p][t] = cast]
  BY Zenon, <1>1
<1> HIDE DEF tipped, new, threshold, b
<1>11. /\ state' \in [Proposals -> ProposalStates \cup {"Absent"}]
       /\ result' \in [Proposals -> [Options -> OptionVoteResults]]
       /\ voting_completed_at' \in [Proposals -> Nat \cup {None}]
       /\ max_vote_weight' \in [Proposals -> Nat \cup {None}]
       /\ vote_threshold' \in [Proposals -> VoteThresholds]
       /\ outstanding' \in [TORs -> Nat]
       /\ voting_proposal_count' \in Nat
  <2>1. CASE UNCHANGED <<state, outcomeVars, outstanding, voting_proposal_count>>
    BY Zenon, <2>1 DEF TypeOK, RealmTypeOK, RecordTypeOK, ProposalTypeOK,
                       VoteTypeOK, outcomeVars
  <2>2. CASE tipped \in ProposalStates /\ Decide(p, tipped, new, max, threshold)
    BY Zenon, <1>6, <1>8, <2>2, DecideType
  <2> QED
    BY Zenon, <1>9, <2>1, <2>2
<1>12. /\ weight' \in [Proposals -> [Options -> 0 .. MaxU64]]
       /\ deny' \in [Proposals -> 0 .. MaxU64]
       /\ veto' \in [Proposals -> 0 .. MaxU64]
  BY Zenon, <1>4, <1>10, SetTalliesType
<1>13. vote_record' \in [Proposals -> [TORs -> VoteRecords]]
  <2>1. cast \in VoteRecords
    BY <1>3 DEF VoteRecords, Votes
  <2> QED
    BY Zenon, <1>10, <2>1, UpdatedWithin DEF TypeOK, VoteTypeOK
<1>14. RealmTypeOK'
  BY Zenon, <1>2, <1>11 DEF TypeOK, RealmTypeOK
<1>15. ProposalTypeOK'
  BY Zenon, <1>2, <1>11 DEF TypeOK, ProposalTypeOK, draftVars, signVars
<1>16. RecordTypeOK'
  <2>1. unrelinquished' \in [TORs -> Nat] /\ total_votes' \in [TORs -> Nat]
    BY <1>2 DEF TypeOK, RecordTypeOK
  <2> QED
    BY Zenon, <1>2, <1>11, <2>1 DEF TypeOK, RecordTypeOK, tokenVars
<1>17. VoteTypeOK'
  BY Zenon, <1>2, <1>11, <1>12, <1>13 DEF TypeOK, VoteTypeOK
<1> QED
  BY Zenon, <1>2, <1>14, <1>15, <1>16, <1>17, TypesAfter

\* Finalizing a vote keeps the types.
LEMMA FinalizeVoteType ==
  ASSUME TypeOK, NEW p \in Proposals, FinalizeVote(p)
  PROVE  TypeOK'
<1> DEFINE b == Ballot(p)
           threshold == VoteThreshold(mint[p], "Electorate")
<1>1. PICK max \in MaxVoterWeights(b, mint[p], "Electorate") :
         Decide(p, ResolveFinalVoteState(b, max, threshold),
                ResolvedResult(b, result[p], max, threshold), max, threshold)
  BY Zenon DEF FinalizeVote
<1>2. /\ UNCHANGED <<now, config, realm, proposals_count>>
      /\ UNCHANGED <<tokenVars, records, deposit, unrelinquished, total_votes>>
      /\ UNCHANGED <<draftVars, signVars, tallyVars, voting_at, vote_record, txVars>>
  BY Zenon DEF FinalizeVote
<1>3. IsBallot(b, Options) /\ b.has_deny \in BOOLEAN /\ mint[p] \in Mints
  BY Zenon, BallotType DEF TypeOK, ProposalTypeOK
<1> DEFINE final == ResolveFinalVoteState(b, max, threshold)
           new == ResolvedResult(b, result[p], max, threshold)
<1> HIDE DEF b
<1>4. max \in Nat /\ threshold \in VoteThresholds
  BY Zenon, <1>3, MaxVoterWeightsType, VoteThresholdType
<1>5. final \in ProposalStates
  BY <1>3, ResolveFinalVoteStateType DEF ProposalStates
<1>6. new \in [Options -> OptionVoteResults]
  BY Zenon, ResolvedResultType DEF TypeOK, VoteTypeOK
<1>7. /\ state' \in [Proposals -> ProposalStates \cup {"Absent"}]
      /\ result' \in [Proposals -> [Options -> OptionVoteResults]]
      /\ voting_completed_at' \in [Proposals -> Nat \cup {None}]
      /\ max_vote_weight' \in [Proposals -> Nat \cup {None}]
      /\ vote_threshold' \in [Proposals -> VoteThresholds]
      /\ outstanding' \in [TORs -> Nat]
      /\ voting_proposal_count' \in Nat
  <2> HIDE DEF threshold, final, new
  <2> QED
    BY Zenon, <1>1, <1>4, <1>5, <1>6, DecideType DEF final, new
<1>8. RealmTypeOK'
  BY Zenon, <1>2, <1>7 DEF TypeOK, RealmTypeOK
<1>9. ProposalTypeOK'
  BY Zenon, <1>2, <1>7 DEF TypeOK, ProposalTypeOK, draftVars, signVars
<1>10. RecordTypeOK'
  BY Zenon, <1>2, <1>7 DEF TypeOK, RecordTypeOK, tokenVars
<1>11. VoteTypeOK'
  BY Zenon, <1>2, <1>7 DEF TypeOK, VoteTypeOK, tallyVars
<1> QED
  BY Zenon, <1>2, <1>8, <1>9, <1>10, <1>11, TypesAfter

\* A vote record that is marked is a vote record.
LEMMA MarkedRecord ==
  ASSUME NEW r \in VoteRecords
  PROVE  [r EXCEPT !.relinquished = TRUE] \in VoteRecords
  BY Zenon DEF VoteRecords

\* Relinquishing a vote, open or decided, keeps the types.
LEMMA RelinquishVoteType ==
  ASSUME TypeOK, NEW p \in Proposals, NEW t \in TORs, RelinquishVote(p, t)
  PROVE  TypeOK'
<1>1. /\ UNCHANGED <<now, realmVars, state, draftVars, signVars, txVars>>
      /\ UNCHANGED <<tokenVars, records, deposit, outstanding>>
      /\ UNCHANGED <<outcomeVars, voting_at>>
      /\ unrelinquished' = [unrelinquished EXCEPT ![t] = @ - 1]
      /\ TakeVoteBack(p, t) \/ MarkRelinquished(p, t)
  BY Zenon DEF RelinquishVote
<1>2. unrelinquished[t] > 0
  BY Zenon, <1>1 DEF TakeVoteBack, MarkRelinquished, CanRelinquish
<1>3. \/ total_votes[t] > 0 /\ total_votes' = [total_votes EXCEPT ![t] = @ - 1]
      \/ UNCHANGED total_votes
  BY Zenon, <1>1 DEF TakeVoteBack, MarkRelinquished
<1>4. total_votes' \in [TORs -> Nat] /\ unrelinquished' \in [TORs -> Nat]
  BY <1>1, <1>2, <1>3 DEF TypeOK, RecordTypeOK
<1>5. RecordTypeOK'
  BY Zenon, <1>1, <1>4 DEF TypeOK, RecordTypeOK, tokenVars
<1>6. /\ weight' \in [Proposals -> [Options -> 0 .. MaxU64]]
      /\ deny' \in [Proposals -> 0 .. MaxU64]
      /\ veto' \in [Proposals -> 0 .. MaxU64]
  <2>1. CASE TakeVoteBack(p, t)
    BY Zenon, <2>1, RemoveVoteType, SetTalliesType DEF TakeVoteBack
  <2>2. CASE MarkRelinquished(p, t)
    BY Zenon, <2>2 DEF MarkRelinquished, TypeOK, VoteTypeOK, tallyVars
  <2> QED
    BY Zenon, <1>1, <2>1, <2>2
<1>7. vote_record' \in [Proposals -> [TORs -> VoteRecords]]
  <2> DEFINE marked == [vote_record[p][t] EXCEPT !.relinquished = TRUE]
  <2>1. NoVote \in VoteRecords
    BY DEF NoVote, VoteRecords
  <2>2. marked \in VoteRecords
    BY Zenon, MarkedRecord DEF TypeOK, VoteTypeOK
  <2>3. \/ vote_record' = [vote_record EXCEPT ![p][t] = NoVote]
        \/ vote_record' = [vote_record EXCEPT ![p][t] = marked]
    BY Zenon, <1>1 DEF TakeVoteBack, MarkRelinquished
  <2>4. PICK r \in VoteRecords : vote_record' = [vote_record EXCEPT ![p][t] = r]
    BY Zenon, <2>1, <2>2, <2>3
  <2> QED
    BY Zenon, <2>4, UpdatedWithin DEF TypeOK, VoteTypeOK
<1>8. VoteTypeOK'
  BY Zenon, <1>1, <1>6, <1>7 DEF TypeOK, VoteTypeOK, outcomeVars
<1> QED
  BY Zenon, <1>1, <1>5, <1>8, TypesAfter

\* Cancelling a proposal keeps the types.
LEMMA CancelProposalType ==
  ASSUME TypeOK, NEW p \in Proposals, CancelProposal(p)
  PROVE  TypeOK'
<1>1. /\ UNCHANGED <<now, config, realm, proposals_count>>
      /\ UNCHANGED <<tokenVars, records, deposit, unrelinquished, total_votes>>
      /\ UNCHANGED <<draftVars, signVars, voteVars, txVars>>
      /\ outstanding' = DecreaseOutstanding(owner[p])
      /\ state' = [state EXCEPT ![p] = "Cancelled"]
      /\ voting_proposal_count' \in
           {SaturatingSub(voting_proposal_count, 1), voting_proposal_count}
  BY Zenon DEF CancelProposal
<1>2. RealmTypeOK'
  BY <1>1 DEF TypeOK, RealmTypeOK, SaturatingSub
<1>3. RecordTypeOK'
  BY Zenon, <1>1, DecreaseOutstandingType DEF TypeOK, RecordTypeOK, tokenVars
<1>4. ProposalTypeOK'
  <2>1. "Cancelled" \in ProposalStates
    BY DEF ProposalStates
  <2>2. state' \in [Proposals -> ProposalStates \cup {"Absent"}]
    BY Zenon, <1>1, <2>1, Updated DEF TypeOK, ProposalTypeOK
  <2> QED
    BY Zenon, <1>1, <2>2 DEF TypeOK, ProposalTypeOK, draftVars, signVars
<1> QED
  BY Zenon, <1>1, <1>2, <1>3, <1>4, TypesAfter

-----------------------------------------------------------------------------
(* Types: execution and environment *)

\* What a transaction finally runs is a stored payload, and its configs are
\* ones the constants allow.
LEMMA PayloadFacts ==
  ASSUME TypeOK, NEW p \in Proposals, NEW x \in Slots, NestingAllowed(p, x)
  PROVE  /\ Innermost(p, x) \in Slots
         /\ LET l == transaction[p][Innermost(p, x)].payload
            IN  /\ l.kind = "SetGovernanceConfig" => l.config \in GovernanceConfigs
                /\ l.kind = "SetRealmConfig" => l.config \in RealmConfigs
<1>1. \A y \in Slots :
          LET l == transaction[p][y].payload
          IN  /\ l.kind = "SetGovernanceConfig" => l.config \in GovernanceConfigs
              /\ l.kind = "SetRealmConfig" => l.config \in RealmConfigs
              /\ l.kind = "ExecuteTransaction" => l.target \in Slots
  <2> TAKE y \in Slots
  <2>1. transaction[p][y] \in Transactions
    BY Zenon DEF TypeOK, TransactionTypeOK
  <2>2. transaction[p][y].payload \in Payloads \cup {NoTransaction.payload}
    BY <2>1 DEF Transactions
  <2>3. NoTransaction.payload.kind = "Program"
    BY DEF NoTransaction
  <2>4. \A l \in Payloads :
          /\ l.kind = "SetGovernanceConfig" => l.config \in GovernanceConfigs
          /\ l.kind = "SetRealmConfig" => l.config \in RealmConfigs
          /\ l.kind = "ExecuteTransaction" => l.target \in Slots
    BY Zenon, GovernanceAssumption
  <2> QED
    BY <2>2, <2>3, <2>4
<1>2. Innermost(p, x) \in Slots
  BY <1>1 DEF Innermost, Nests, Nested
<1> QED
  BY <1>1, <1>2

\* Flagging and executing a transaction leave a transaction.
LEMMA TransactionUpdates ==
  ASSUME NEW tx \in Transactions, NEW n \in Nat
  PROVE  /\ [tx EXCEPT !.status = "Error"] \in Transactions
         /\ [tx EXCEPT !.status = "Success", !.executed_at = n] \in Transactions
<1>1. n \in Nat \cup {None}
  BY Zenon
<1> QED
  BY Zenon, <1>1 DEF Transactions

\* Executing a transaction, whatever its payload, keeps the types.
LEMMA ExecuteTransactionType ==
  ASSUME TypeOK, NEW p \in Proposals, NEW x \in Slots,
         ExecuteTransaction(p, x)
  PROVE  TypeOK'
<1> DEFINE row == [y \in Slots |-> IF y \in {x, Innermost(p, x)}
                                   THEN Executed(transaction[p][y])
                                   ELSE transaction[p][y]]
           counts == [transactions_executed_count[p] EXCEPT ![x[1]] = @ + 1]
           payload == transaction[p][Innermost(p, x)].payload
<1>1. /\ UNCHANGED <<now, proposals_count, voting_proposal_count>>
      /\ UNCHANGED <<tokenVars, recordVars, draftVars, signVars, voteVars>>
      /\ UNCHANGED <<transactions_count, transactions_next_index>>
      /\ NestingAllowed(p, x)
      /\ Invoke(payload)
      /\ transactions_executed_count' =
            [transactions_executed_count EXCEPT ![p] = counts]
      /\ transaction' = [transaction EXCEPT ![p] = row]
      /\ \E s \in {"Completed", "Executing", state[p]} :
            state' = [state EXCEPT ![p] = s]
  BY Zenon DEF ExecuteTransaction
<1>2. RealmTypeOK'
  <2>1. config' \in GovernanceConfigs
    BY Zenon, <1>1, PayloadFacts DEF TypeOK, RealmTypeOK, Invoke, SetGovernanceConfig
  <2>2. realm' \in RealmConfigs
    BY Zenon, <1>1, PayloadFacts DEF TypeOK, RealmTypeOK, Invoke, SetRealmConfig
  <2> QED
    BY Zenon, <1>1, <2>1, <2>2 DEF TypeOK, RealmTypeOK
<1>3. ProposalTypeOK'
  <2>1. PICK s \in {"Completed", "Executing", state[p]} :
           state' = [state EXCEPT ![p] = s]
    BY Zenon, <1>1
  <2>2. s \in ProposalStates \cup {"Absent"}
    BY DEF TypeOK, ProposalTypeOK, ProposalStates
  <2>3. state' \in [Proposals -> ProposalStates \cup {"Absent"}]
    BY Zenon, <2>1, <2>2, Updated DEF TypeOK, ProposalTypeOK
  <2> QED
    BY Zenon, <1>1, <2>3 DEF TypeOK, ProposalTypeOK, draftVars, signVars
<1>4. TransactionTypeOK'
  <2>1. \A y \in Slots : /\ transaction[p][y] \in Transactions
                         /\ Executed(transaction[p][y]) \in Transactions
    <3> TAKE y \in Slots
    <3>1. transaction[p][y] \in Transactions /\ now \in Nat
      BY Zenon DEF TypeOK, TransactionTypeOK, RealmTypeOK
    <3> QED
      BY Zenon, <3>1, TransactionUpdates DEF Executed
  <2>2. row \in [Slots -> Transactions]
    BY Zenon, <2>1
  <2>3. counts \in [Options -> Nat]
    BY Addresses DEF TypeOK, TransactionTypeOK
  <2> HIDE DEF row, counts
  <2>4. /\ transaction' \in [Proposals -> [Slots -> Transactions]]
        /\ transactions_executed_count' \in [Proposals -> [Options -> Nat]]
    BY Zenon, <1>1, <2>2, <2>3, Updated DEF TypeOK, TransactionTypeOK
  <2> QED
    BY Zenon, <1>1, <2>4 DEF TypeOK, TransactionTypeOK
<1> QED
  BY Zenon, <1>1, <1>2, <1>3, <1>4, TypesAfter

\* Executing and flagging transactions keep the types.
LEMMA ExecuteNextType ==
  ASSUME TypeOK, ExecuteNext
  PROVE  TypeOK'
<1>1. ASSUME NEW p \in Proposals, NEW x \in Slots, FlagTransactionError(p, x)
      PROVE  TypeOK'
  <2> DEFINE flagged == [transaction[p][x] EXCEPT !.status = "Error"]
  <2>1. /\ UNCHANGED <<now, realmVars, tokenVars, recordVars, draftVars, signVars>>
        /\ UNCHANGED <<voteVars, transactions_count, transactions_executed_count,
                       transactions_next_index>>
        /\ state' = [state EXCEPT ![p] = "ExecutingWithErrors"]
        /\ transaction' = [transaction EXCEPT ![p][x] = flagged]
    BY Zenon, <1>1 DEF FlagTransactionError
  <2>2. ProposalTypeOK'
    <3>1. "ExecutingWithErrors" \in ProposalStates
      BY DEF ProposalStates
    <3>2. state' \in [Proposals -> ProposalStates \cup {"Absent"}]
      BY Zenon, <2>1, <3>1, Updated DEF TypeOK, ProposalTypeOK
    <3> QED
      BY Zenon, <2>1, <3>2 DEF TypeOK, ProposalTypeOK, draftVars, signVars
  <2>3. flagged \in Transactions
    BY Zenon, TransactionUpdates DEF TypeOK, TransactionTypeOK, RealmTypeOK
  <2> HIDE DEF flagged
  <2>4. transaction' \in [Proposals -> [Slots -> Transactions]]
    BY Zenon, <2>1, <2>3, UpdatedWithin DEF TypeOK, TransactionTypeOK
  <2>5. TransactionTypeOK'
    BY Zenon, <2>1, <2>4 DEF TypeOK, TransactionTypeOK
  <2> QED
    BY Zenon, <2>1, <2>2, <2>5, TypesAfter
<1> QED
  BY Zenon, <1>1, ExecuteTransactionType DEF ExecuteNext

\* Time and supply keep the types.
LEMMA EnvironmentNextType ==
  ASSUME TypeOK, EnvironmentNext
  PROVE  TypeOK'
<1>1. CASE Tick
  <2>1. /\ now' = now + 1 /\ UNCHANGED realmVars
        /\ UNCHANGED <<tokenVars, recordVars, state, draftVars, signVars,
                       voteVars, txVars>>
    BY Zenon, <1>1 DEF Tick
  <2>2. RealmTypeOK'
    BY <2>1 DEF TypeOK, RealmTypeOK, realmVars
  <2> QED
    BY Zenon, <2>1, <2>2, TypesAfter
<1>2. ASSUME NEW m \in Mints, MintTokens(m) \/ BurnTokens(m)
      PROVE  TypeOK'
  <2>1. /\ UNCHANGED <<now, realmVars, holding, recordVars, state, draftVars,
                       signVars, voteVars, txVars>>
        /\ \/ free' = [free EXCEPT ![m] = @ + 1]
           \/ free[m] > 0 /\ free' = [free EXCEPT ![m] = @ - 1]
    BY Zenon, <1>2 DEF MintTokens, BurnTokens
  <2>2. free' \in [Mints -> Nat]
    BY <2>1 DEF TypeOK, RecordTypeOK
  <2>3. RecordTypeOK'
    BY Zenon, <2>1, <2>2 DEF TypeOK, RecordTypeOK, recordVars
  <2> QED
    BY Zenon, <2>1, <2>3, TypesAfter
<1> QED
  BY Zenon, <1>1, <1>2 DEF EnvironmentNext

\* Every instruction, and every step of the environment, keeps the types.
LEMMA NextType == TypeOK /\ [Next]_vars => TypeOK'
<1> SUFFICES ASSUME TypeOK, [Next]_vars PROVE TypeOK'
  OBVIOUS
<1>1. CASE VoteNext
  BY Zenon, <1>1, CastVoteType, RelinquishVoteType, FinalizeVoteType,
     CancelProposalType DEF VoteNext
<1>2. CASE UNCHANGED vars
  BY Zenon, <1>2, TypesAfter DEF vars
<1> QED
  BY Zenon, <1>1, <1>2, RealmNextType, DraftNextType, ExecuteNextType,
     EnvironmentNextType DEF Next

\* Every reachable state of the governance accounts is well typed; the checked
\* arithmetic keeps every tally in the range of u64.
THEOREM TypeCorrect == Spec => []TypeOK
  BY InitType, NextType, PTL DEF Spec
=============================================================================
