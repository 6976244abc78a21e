-------------------------- MODULE GovernanceProofs --------------------------
(***************************************************************************)
(* Safety of Governance for every value of its constants: the outstanding  *)
(* proposals of an owner and the votes of a member are counted, a decision *)
(* is final, and deposits behind votes that still count can not be         *)
(* withdrawn.                                                              *)
(***************************************************************************)
EXTENDS GovernanceTypeProofs, FiniteSetTheorems

-----------------------------------------------------------------------------
(* What a group of instructions leaves alone *)

\* Deposits, withdrawals, new records and new proposals touch no vote.
LEMMA RealmFrame ==
  ASSUME RealmNext
  PROVE  /\ UNCHANGED <<unrelinquished, total_votes, vote_record>>
         /\ UNCHANGED <<weight, deny, veto, result, voting_completed_at,
                        max_vote_weight, vote_threshold>>
<1>1. UNCHANGED <<unrelinquished, total_votes, voteVars>>
  BY Zenon DEF RealmNext, CreateTokenOwnerRecord, DepositGoverningTokens,
               WithdrawGoverningTokens, CreateProposal
<1> QED
  BY Zenon, <1>1 DEF voteVars, tallyVars, outcomeVars

\* Preparing and signing off a proposal touches no vote and no deposit.
LEMMA DraftFrame ==
  ASSUME DraftNext
  PROVE  /\ UNCHANGED <<unrelinquished, total_votes, vote_record, deposit, holding>>
         /\ UNCHANGED <<weight, deny, veto, result, voting_completed_at,
                        max_vote_weight, vote_threshold>>
<1> DEFINE Quiet ==
        UNCHANGED <<recordVars, tokenVars, tallyVars, outcomeVars, vote_record>>
<1>1. \A p \in Proposals, s \in Signatories :
         AddSignatory(p, s) \/ RemoveSignatory(p, s) => Quiet
  BY Zenon DEF AddSignatory, RemoveSignatory, voteVars
<1>2. ASSUME NEW p \in Proposals, NEW x \in Slots, NEW h \in HoldUpTimes,
             NEW l \in Payloads, InsertTransaction(p, x, h, l)
      PROVE  Quiet
  BY Zenon, <1>2 DEF InsertTransaction, voteVars
<1>3. \A p \in Proposals, x \in Slots : RemoveTransaction(p, x) => Quiet
  BY Zenon DEF RemoveTransaction, voteVars
<1>4. \A p \in Proposals : SignOffByOwner(p) => Quiet
  BY Zenon DEF SignOffByOwner, SignOff
<1>5. \A p \in Proposals, s \in Signatories : SignOffBySignatory(p, s) => Quiet
  BY Zenon DEF SignOffBySignatory, SignOff
<1>6. Quiet
  BY Zenon, <1>1, <1>2, <1>3, <1>4, <1>5 DEF DraftNext
<1> QED
  BY Zenon, <1>6 DEF recordVars, tokenVars, tallyVars, outcomeVars

\* Executing and flagging transactions touches no vote and no deposit.
LEMMA ExecuteFrame ==
  ASSUME ExecuteNext
  PROVE  /\ UNCHANGED <<unrelinquished, total_votes, vote_record, deposit, holding>>
         /\ UNCHANGED <<weight, deny, veto, result, voting_completed_at,
                        max_vote_weight, vote_threshold>>
<1>1. UNCHANGED <<recordVars, tokenVars, voteVars>>
  BY Zenon DEF ExecuteNext, ExecuteTransaction, FlagTransactionError
<1> QED
  BY Zenon, <1>1 DEF recordVars, tokenVars, voteVars, tallyVars, outcomeVars

\* Time and supply touch nothing the program stores about votes.
LEMMA EnvironmentFrame ==
  ASSUME EnvironmentNext
  PROVE  /\ UNCHANGED <<unrelinquished, total_votes, vote_record, deposit, holding>>
         /\ UNCHANGED <<weight, deny, veto, result, voting_completed_at,
                        max_vote_weight, vote_threshold>>
<1>1. UNCHANGED <<recordVars, holding, voteVars>>
  BY Zenon DEF EnvironmentNext, Tick, MintTokens, BurnTokens, tokenVars
<1> QED
  BY Zenon, <1>1 DEF recordVars, voteVars, tallyVars, outcomeVars

\* Counting proposals makes sense: there are finitely many.
LEMMA ProposalsFinite ==
  ASSUME NEW S, S \subseteq Proposals
  PROVE  IsFiniteSet(S)
<1>1. 1 \in Int /\ MaxProposals \in Int
  BY Bounds
<1>2. IsFiniteSet(Proposals)
  BY Zenon, <1>1, FS_Interval DEF Proposals
<1> QED
  BY Zenon, <1>2, FS_Subset

\* A realm has finitely many token owner records.
LEMMA TORsFinite == IsFiniteSet(TORs)
<1>1. IsFiniteSet(Owners)
  BY Zenon, GovernanceAssumption
<1>2. IsFiniteSet({"community"} \cup {"council"})
  BY Zenon, FS_Singleton, FS_AddElement
<1>3. Mints = {"community"} \cup {"council"}
  BY DEF Mints
<1> QED
  BY Zenon, <1>1, <1>2, <1>3, FS_Product DEF TORs

\* The state of proposals is a table, and so are their vote records.
LEMMA Tables ==
  ASSUME TypeOK
  PROVE  /\ state \in [Proposals -> ProposalStates \cup {"Absent"}]
         /\ owner \in [Proposals -> TORs \cup {NoOwner}]
         /\ vote_record \in [Proposals -> [TORs -> VoteRecords]]
         /\ proposals_count \in Nat
         /\ \A q \in Proposals : q \in Nat
<1>1. proposals_count \in Nat /\ \A q \in Proposals : q \in Nat
  BY Bounds DEF TypeOK, RealmTypeOK, Proposals
<1> QED
  BY Zenon, <1>1 DEF TypeOK, ProposalTypeOK, VoteTypeOK

\* A table that is written at one place keeps the others.
LEMMA Elsewhere ==
  ASSUME NEW S, NEW T, NEW f \in [S -> T], NEW i, NEW v, NEW j \in S
  PROVE  [f EXCEPT ![i] = v][j] = IF j = i THEN v ELSE f[j]
  BY Zenon

\* Writing one vote record keeps the others.
LEMMA VoteRecordWrite ==
  ASSUME TypeOK, NEW p \in Proposals, NEW t \in TORs, NEW v,
         vote_record' = [vote_record EXCEPT ![p][t] = v]
  PROVE  \A q \in Proposals, u \in TORs :
            q # p \/ u # t => vote_record'[q][u] = vote_record[q][u]
<1>1. vote_record \in [Proposals -> [TORs -> VoteRecords]]
  BY Zenon, Tables
<1> QED
  BY Zenon, <1>1

-----------------------------------------------------------------------------
(* The life of a proposal *)

\* What the instructions do to the state of a proposal and to the accounts
\* that follow it.
CreateStep(t) ==
    LET p == proposals_count + 1
    IN  /\ p \in Proposals
        /\ proposals_count' = p
        /\ state' = [state EXCEPT ![p] = "Draft"]
        /\ owner' = [owner EXCEPT ![p] = t]
        /\ outstanding' = [outstanding EXCEPT ![t] = @ + 1]
        /\ \A q \in Proposals \ {p} : mint'[q] = mint[q] /\ kind'[q] = kind[q]
        /\ UNCHANGED voting_completed_at

SignStep(p) ==
    /\ state[p] \in {"Draft", "SigningOff"}
    /\ \E s \in {"Draft", "SigningOff", "Voting"} :
          state' = [state EXCEPT ![p] = s]
    /\ UNCHANGED <<proposals_count, owner, mint, kind, outstanding,
                   voting_completed_at>>

DecideStep(p) ==
    /\ state[p] \in UndecidedStates
    /\ \E s \in ProposalStates \ UndecidedStates :
          state' = [state EXCEPT ![p] = s]
    /\ outstanding' = DecreaseOutstanding(owner[p])
    /\ \A q \in Proposals \ {p} :
          voting_completed_at'[q] = voting_completed_at[q]
    /\ UNCHANGED <<proposals_count, owner, mint, kind>>

Executes(p) ==
    \E x \in Slots : ExecuteTransaction(p, x) \/ FlagTransactionError(p, x)

ExecuteStep(p) ==
    /\ Executes(p)
    /\ state[p] \in ApprovedStates
    /\ \E s \in ApprovedStates \cup {"Completed"} :
          state' = [state EXCEPT ![p] = s]
    /\ UNCHANGED <<proposals_count, owner, mint, kind, outstanding,
                   voting_completed_at>>

OtherStep ==
    UNCHANGED <<state, proposals_count, owner, mint, kind, outstanding,
                voting_completed_at>>

\* A cast vote either leaves its proposal in Voting or decides it, as try_tip_vote
\* does, and touches no other proposal.
LEMMA CastVoteDecides ==
  ASSUME TypeOK, NEW p \in Proposals, NEW t \in TORs, NEW vote \in Votes,
         CastVote(p, t, vote)
  PROVE  DecideStep(p) \/ OtherStep
<1> DEFINE threshold == VoteThreshold(MintOf(t), GetVoteKind(vote))
           Tipped(b, max) == TryGetTippedVoteState(
               b, max, config.vote_tipping, threshold, GetVoteKind(vote))
<1>1. PICK b, max :
         IF Tipped(b, max) = "Voting"
         THEN UNCHANGED <<state, outcomeVars, outstanding, voting_proposal_count>>
         ELSE Decide(p, Tipped(b, max), TippedResult(b, result[p], Tipped(b, max)),
                     max, threshold)
  BY Zenon DEF CastVote
<1>2. state[p] = "Voting" /\ UNCHANGED <<proposals_count, owner, mint, kind>>
  BY Zenon DEF CastVote, CanCastVote, draftVars
<1>3. CASE Tipped(b, max) = "Voting"
  BY Zenon, <1>1, <1>2, <1>3 DEF OtherStep, outcomeVars
<1>4. CASE Tipped(b, max) # "Voting"
  <2> DEFINE tipped == Tipped(b, max)
  <2>1. tipped \in ProposalStates \ UndecidedStates
    BY <1>4, TippedVoteStateType DEF ProposalStates, UndecidedStates
  <2>2. PICK r : Decide(p, tipped, r, max, threshold)
    BY Zenon, <1>1, <1>4
  <2> HIDE DEF tipped
  <2>3. state[p] \in UndecidedStates
    BY <1>2 DEF UndecidedStates
  <2> QED
    BY Zenon, <1>2, <2>1, <2>2, <2>3
       DEF DecideStep, Decide, TypeOK, VoteTypeOK
<1> QED
  BY Zenon, <1>3, <1>4

\* process_finalize_vote decides exactly the proposal it is called for.
LEMMA FinalizeVoteDecides ==
  ASSUME TypeOK, NEW p \in Proposals, FinalizeVote(p)
  PROVE  DecideStep(p)
<1> DEFINE threshold == VoteThreshold(mint[p], "Electorate")
           Final(max) == ResolveFinalVoteState(Ballot(p), max, threshold)
<1>1. PICK max, r : Decide(p, Final(max), r, max, threshold)
  BY Zenon DEF FinalizeVote
<1>2. Final(max) \in ProposalStates \ UndecidedStates
  BY BallotType, ResolveFinalVoteStateType DEF ProposalStates, UndecidedStates
<1>3. state[p] = "Voting" /\ UNCHANGED <<proposals_count, owner, mint, kind>>
  BY Zenon DEF FinalizeVote, CanFinalizeVote, draftVars
<1>4. state[p] \in UndecidedStates
  BY <1>3 DEF UndecidedStates
<1> HIDE DEF Final
<1> QED
  BY Zenon, <1>1, <1>2, <1>3, <1>4 DEF DecideStep, Decide, TypeOK, VoteTypeOK

\* What does not belong to a vote opens a proposal, signs one off, executes one,
\* or leaves the life of proposals alone.
LEMMA QuietSteps ==
  ASSUME TypeOK, [Next]_vars, ~VoteNext
  PROVE  \/ \E t \in TORs : CreateStep(t)
         \/ \E p \in Proposals : SignStep(p) \/ ExecuteStep(p)
         \/ OtherStep
<1>1. CASE RealmNext
  <2>1. \A t \in TORs, m \in Mints, k \in Kinds :
            CreateProposal(t, m, k) => CreateStep(t)
    <3> SUFFICES ASSUME NEW t \in TORs, NEW m \in Mints, NEW k \in Kinds,
                        CreateProposal(t, m, k)
                 PROVE  CreateStep(t)
      BY Zenon
    <3>1. proposals_count + 1 \in Proposals
      BY Tables, Bounds DEF CreateProposal, Proposals
    <3>2. \A q \in Proposals \ {proposals_count + 1} :
             mint'[q] = mint[q] /\ kind'[q] = kind[q]
      BY Zenon DEF CreateProposal, TypeOK, ProposalTypeOK
    <3> QED
      BY Zenon, <3>1, <3>2 DEF CreateProposal, CreateStep, voteVars, outcomeVars
  <2>2. \A t \in TORs : CreateTokenOwnerRecord(t) => OtherStep
    BY Zenon DEF CreateTokenOwnerRecord, OtherStep, realmVars, draftVars,
                 voteVars, outcomeVars
  <2>3. \A t \in TORs : \A n : DepositGoverningTokens(t, n) => OtherStep
    BY Zenon DEF DepositGoverningTokens, OtherStep, realmVars, draftVars,
                 voteVars, outcomeVars
  <2>4. \A t \in TORs : WithdrawGoverningTokens(t) => OtherStep
    BY Zenon DEF WithdrawGoverningTokens, OtherStep, realmVars, draftVars,
                 voteVars, outcomeVars
  <2> QED
    BY Zenon, <1>1, <2>1, <2>2, <2>3, <2>4 DEF RealmNext
<1>2. CASE DraftNext
  <2>1. \A p \in Proposals : SignOffByOwner(p) => SignStep(p)
    BY Zenon DEF SignOffByOwner, CanSignOff, SignOff, SignStep, recordVars,
                 draftVars, outcomeVars
  <2>2. \A p \in Proposals, s \in Signatories :
            SignOffBySignatory(p, s) => SignStep(p)
    BY Zenon DEF SignOffBySignatory, CanSignOff, SignOff, SignStep, recordVars,
                 draftVars, outcomeVars
  <2>3. \A p \in Proposals, s \in Signatories :
            AddSignatory(p, s) \/ RemoveSignatory(p, s) => OtherStep
    BY Zenon DEF AddSignatory, RemoveSignatory, OtherStep, realmVars, recordVars,
                 draftVars, voteVars, outcomeVars
  <2>4. \A p \in Proposals, x \in Slots :
            RemoveTransaction(p, x) => OtherStep
    BY Zenon DEF RemoveTransaction, OtherStep, realmVars, recordVars, draftVars,
                 voteVars, outcomeVars
  <2>5. ASSUME NEW p \in Proposals, NEW x \in Slots, NEW h \in HoldUpTimes,
               NEW l \in Payloads, InsertTransaction(p, x, h, l)
        PROVE  OtherStep
    BY Zenon, <2>5 DEF InsertTransaction, OtherStep, realmVars, recordVars,
                       draftVars, voteVars, outcomeVars
  <2> QED
    BY Zenon, <1>2, <2>1, <2>2, <2>3, <2>4, <2>5 DEF DraftNext
<1>3. CASE ExecuteNext
  <2>1. \A p \in Proposals, x \in Slots : ExecuteTransaction(p, x) => ExecuteStep(p)
    <3> SUFFICES ASSUME NEW p \in Proposals, NEW x \in Slots,
                        ExecuteTransaction(p, x)
                 PROVE  ExecuteStep(p)
      BY Zenon
    <3>1. /\ state[p] \in ApprovedStates
          /\ UNCHANGED <<proposals_count, owner, mint, kind, outstanding,
                         voting_completed_at>>
      BY Zenon DEF ExecuteTransaction, CanExecute, recordVars, draftVars, voteVars,
                   outcomeVars
    <3>2. \E s \in {"Completed", "Executing", state[p]} :
             state' = [state EXCEPT ![p] = s]
      BY Zenon DEF ExecuteTransaction
    <3>3. \A s \in {"Completed", "Executing", state[p]} :
             s \in ApprovedStates \cup {"Completed"}
      BY <3>1 DEF ApprovedStates
    <3> QED
      BY Zenon, <3>1, <3>2, <3>3 DEF ExecuteStep, Executes
  <2>2. \A p \in Proposals, x \in Slots :
            FlagTransactionError(p, x) => ExecuteStep(p)
    <3> SUFFICES ASSUME NEW p \in Proposals, NEW x \in Slots,
                        FlagTransactionError(p, x)
                 PROVE  ExecuteStep(p)
      BY Zenon
    <3>1. Executes(p)
      BY Zenon DEF Executes
    <3> QED
      BY Zenon, <3>1
         DEF FlagTransactionError, CanExecute, ExecuteStep, ApprovedStates,
             realmVars, recordVars, draftVars, voteVars, outcomeVars
  <2> QED
    BY Zenon, <1>3, <2>1, <2>2 DEF ExecuteNext
<1>4. CASE EnvironmentNext
  <2>1. UNCHANGED <<realmVars, recordVars, state, draftVars, voteVars>>
    BY Zenon, <1>4 DEF EnvironmentNext, Tick, MintTokens, BurnTokens
  <2> QED
    BY Zenon, <2>1 DEF OtherStep, realmVars, recordVars, draftVars, voteVars,
                       outcomeVars
<1>5. CASE UNCHANGED vars
  BY Zenon, <1>5 DEF vars, OtherStep, realmVars, recordVars, draftVars, voteVars,
                     outcomeVars
<1> QED
  BY Zenon, <1>1, <1>2, <1>3, <1>4, <1>5 DEF Next

\* Seen from the life of proposals every step opens one, signs one off, decides
\* or cancels one, executes one, or leaves all of them alone.
LEMMA LifeSteps ==
  ASSUME TypeOK, [Next]_vars
  PROVE  \/ \E t \in TORs : CreateStep(t)
         \/ \E p \in Proposals : SignStep(p) \/ DecideStep(p) \/ ExecuteStep(p)
         \/ OtherStep
<1>1. \A p \in Proposals : CancelProposal(p) => DecideStep(p)
  BY Zenon DEF CancelProposal, CanCancel, DecideStep, UndecidedStates,
               ProposalStates, draftVars, voteVars, outcomeVars
<1>2. \A p \in Proposals, t \in TORs : RelinquishVote(p, t) => OtherStep
  BY Zenon DEF RelinquishVote, OtherStep, realmVars, draftVars, outcomeVars
<1>3. CASE VoteNext
  BY Zenon, <1>1, <1>2, <1>3, CastVoteDecides, FinalizeVoteDecides DEF VoteNext
<1> QED
  BY Zenon, <1>3, QuietSteps

\* Proposals are created in the order of their seeds, have an owner, and carry
\* no completion time before they are decided.
Lifecycle ==
    \A p \in Proposals :
        /\ p > proposals_count => state[p] = "Absent"
        /\ state[p] # "Absent" => owner[p] \in TORs
        /\ state[p] \in UndecidedStates \cup {"Absent"} =>
              voting_completed_at[p] = None

\* Every step keeps the states, owners and completion times consistent.
LEMMA NextLifecycle ==
  TypeOK /\ Lifecycle /\ [Next]_vars => Lifecycle'
<1> SUFFICES ASSUME TypeOK, Lifecycle, [Next]_vars, NEW q \in Proposals
             PROVE  /\ q > proposals_count' => state'[q] = "Absent"
                    /\ state'[q] # "Absent" => owner'[q] \in TORs
                    /\ state'[q] \in UndecidedStates \cup {"Absent"} =>
                          voting_completed_at'[q] = None
  BY DEF Lifecycle
<1>1. /\ q > proposals_count => state[q] = "Absent"
      /\ state[q] # "Absent" => owner[q] \in TORs
      /\ state[q] \in UndecidedStates \cup {"Absent"} =>
            voting_completed_at[q] = None
  BY DEF Lifecycle
<1>2. /\ state \in [Proposals -> ProposalStates \cup {"Absent"}]
      /\ owner \in [Proposals -> TORs \cup {NoOwner}]
      /\ proposals_count \in Nat /\ q \in Nat
  BY Zenon, Tables
<1>3. ASSUME NEW t \in TORs, CreateStep(t)
      PROVE  /\ q > proposals_count' => state'[q] = "Absent"
             /\ state'[q] # "Absent" => owner'[q] \in TORs
             /\ state'[q] \in UndecidedStates \cup {"Absent"} =>
                   voting_completed_at'[q] = None
  <2>1. CASE q = proposals_count + 1
    BY <1>1, <1>2, <1>3, <2>1 DEF CreateStep
  <2>2. CASE q # proposals_count + 1
    BY <1>1, <1>2, <1>3, <2>2 DEF CreateStep
  <2> QED
    BY <2>1, <2>2
<1>4. ASSUME NEW p \in Proposals, SignStep(p)
      PROVE  /\ q > proposals_count' => state'[q] = "Absent"
             /\ state'[q] # "Absent" => owner'[q] \in TORs
             /\ state'[q] \in UndecidedStates \cup {"Absent"} =>
                   voting_completed_at'[q] = None
  BY <1>1, <1>2, <1>4 DEF SignStep, UndecidedStates
<1>5. ASSUME NEW p \in Proposals, DecideStep(p)
      PROVE  /\ q > proposals_count' => state'[q] = "Absent"
             /\ state'[q] # "Absent" => owner'[q] \in TORs
             /\ state'[q] \in UndecidedStates \cup {"Absent"} =>
                   voting_completed_at'[q] = None
  BY <1>1, <1>2, <1>5 DEF DecideStep, UndecidedStates, ProposalStates
<1>6. ASSUME NEW p \in Proposals, ExecuteStep(p)
      PROVE  /\ q > proposals_count' => state'[q] = "Absent"
             /\ state'[q] # "Absent" => owner'[q] \in TORs
             /\ state'[q] \in UndecidedStates \cup {"Absent"} =>
                   voting_completed_at'[q] = None
  BY <1>1, <1>2, <1>6 DEF ExecuteStep, UndecidedStates, ApprovedStates,
                          ProposalStates
<1>7. CASE OtherStep
  BY <1>1, <1>7 DEF OtherStep
<1> QED
  BY Zenon, <1>3, <1>4, <1>5, <1>6, <1>7, LifeSteps

\* In every reachable state the lifecycle facts hold together with the types.
LEMMA LifecycleInvariant == Spec => [](TypeOK /\ Lifecycle)
<1>1. Init => Lifecycle
  BY DEF Init, Lifecycle
<1> QED
  BY <1>1, NextLifecycle, TypeCorrect, PTL DEF Spec

\* The undecided proposals of a token owner record.
Owned(t) == {p \in Proposals : owner[p] = t /\ state[p] \in UndecidedStates}

\* Every step keeps outstanding_proposal_count equal to the undecided proposals
\* of the owner.
LEMMA NextOutstandingCounted ==
  TypeOK /\ Lifecycle /\ OutstandingCounted /\ [Next]_vars
      => OutstandingCounted'
<1> SUFFICES ASSUME TypeOK, Lifecycle, OutstandingCounted, [Next]_vars,
                    NEW u \in TORs
             PROVE  outstanding'[u] = Cardinality(Owned(u)')
  BY DEF OutstandingCounted, Owned
<1>1. outstanding[u] = Cardinality(Owned(u)) /\ IsFiniteSet(Owned(u))
  BY ProposalsFinite DEF OutstandingCounted, Owned
<1>2. /\ state \in [Proposals -> ProposalStates \cup {"Absent"}]
      /\ owner \in [Proposals -> TORs \cup {NoOwner}]
      /\ outstanding \in [TORs -> Nat]
  BY Zenon DEF TypeOK, ProposalTypeOK, RecordTypeOK
<1>3. ASSUME NEW t \in TORs, CreateStep(t)
      PROVE  outstanding'[u] = Cardinality(Owned(u)')
  <2> DEFINE p == proposals_count + 1
  <2>1. p \in Proposals /\ state[p] = "Absent"
    <3>1. p > proposals_count
      BY Tables
    <3> QED
      BY Zenon, <1>3, <3>1 DEF CreateStep, Lifecycle
  <2>2. p \notin Owned(u)
    BY <2>1 DEF Owned, UndecidedStates
  <2>3. Owned(u)' = IF u = t THEN Owned(u) \cup {p} ELSE Owned(u)
    BY <1>2, <1>3, <2>1 DEF CreateStep, Owned, UndecidedStates
  <2>4. outstanding'[u] = IF u = t THEN outstanding[u] + 1 ELSE outstanding[u]
    BY <1>2, <1>3 DEF CreateStep
  <2> QED
    <3>1. Cardinality(Owned(u) \cup {p}) = Cardinality(Owned(u)) + 1
      BY Zenon, <1>1, <2>2, FS_AddElement
    <3> QED
      BY Zenon, <1>1, <2>3, <2>4, <3>1
<1>4. ASSUME NEW p \in Proposals, SignStep(p) \/ ExecuteStep(p) \/ OtherStep
      PROVE  outstanding'[u] = Cardinality(Owned(u)')
  <2>1. Owned(u)' = Owned(u) /\ outstanding' = outstanding
    BY <1>2, <1>4 DEF SignStep, ExecuteStep, OtherStep, Owned,
                      UndecidedStates, ApprovedStates, ProposalStates
  <2> QED
    BY <1>1, <2>1
<1>5. ASSUME NEW p \in Proposals, DecideStep(p)
      PROVE  outstanding'[u] = Cardinality(Owned(u)')
  <2>1. owner[p] \in TORs /\ state[p] \in UndecidedStates
    BY <1>5 DEF DecideStep, Lifecycle, UndecidedStates
  <2>2. Owned(u)' = IF owner[p] = u THEN Owned(u) \ {p} ELSE Owned(u)
    BY <1>2, <1>5, <2>1 DEF DecideStep, Owned
  <2>3. CASE owner[p] = u
    <3>1. p \in Owned(u)
      BY <2>1, <2>3 DEF Owned
    <3>2. Cardinality(Owned(u) \ {p}) = outstanding[u] - 1
      BY Zenon, <1>1, <3>1, FS_RemoveElement
    <3>3. outstanding[u] # 0
      BY <1>1, <3>1, FS_EmptySet
    <3>4. outstanding'[u] = outstanding[u] - 1
      BY <1>2, <1>5, <2>3, <3>3 DEF DecideStep, DecreaseOutstanding
    <3> QED
      BY <2>2, <2>3, <3>2, <3>4
  <2>4. CASE owner[p] # u
    <3>1. outstanding'[u] = outstanding[u]
      BY <1>2, <1>5, <2>1, <2>4 DEF DecideStep, DecreaseOutstanding
    <3> QED
      BY <1>1, <2>2, <2>4, <3>1
  <2> QED
    BY <2>3, <2>4
<1>6. CASE OtherStep
  BY <1>1, <1>6 DEF OtherStep, Owned
<1> QED
  BY Zenon, <1>3, <1>4, <1>5, <1>6, LifeSteps

\* The outstanding proposal count of a member is exactly the number of their
\* undecided proposals, so the guard of decrease_outstanding_proposal_count
\* against a count of zero never hides a lost update.
THEOREM OutstandingAlwaysCounted == Spec => []OutstandingCounted
<1>1. Init => OutstandingCounted
  <2> SUFFICES ASSUME Init PROVE OutstandingCounted
    OBVIOUS
  <2>1. \A t \in TORs : Owned(t) = {}
    BY DEF Init, Owned, UndecidedStates
  <2> QED
    BY Zenon, <2>1, FS_EmptySet DEF OutstandingCounted, Owned, Init
<1> QED
  BY <1>1, NextOutstandingCounted, LifecycleInvariant, PTL DEF Spec

-----------------------------------------------------------------------------
(* A decision is final *)

\* The instructions that act on the vote on a proposal.
VoteOn(q) ==
    \/ \E t \in TORs, vote \in Votes : CastVote(q, t, vote)
    \/ \E t \in TORs : RelinquishVote(q, t)
    \/ FinalizeVote(q)
    \/ CancelProposal(q)

\* Deciding a proposal leaves the others alone.
LEMMA Undecided ==
  ASSUME TypeOK, NEW p, NEW q \in Proposals, p # q,
         \/ UNCHANGED <<state, outcomeVars>>
         \/ \E s, r, max, th : Decide(p, s, r, max, th)
  PROVE  UNCHANGED <<state[q], result[q], voting_completed_at[q],
                     max_vote_weight[q], vote_threshold[q]>>
<1>1. CASE UNCHANGED <<state, outcomeVars>>
  BY Zenon, <1>1 DEF outcomeVars
<1>2. ASSUME NEW s, NEW r, NEW max, NEW th, Decide(p, s, r, max, th)
      PROVE  UNCHANGED <<state[q], result[q], voting_completed_at[q],
                         max_vote_weight[q], vote_threshold[q]>>
  <2>1. state'[q] = state[q]
    BY Zenon, <1>2 DEF Decide, TypeOK, ProposalTypeOK
  <2>2. UNCHANGED <<result[q], voting_completed_at[q], max_vote_weight[q],
                    vote_threshold[q]>>
    BY Zenon, <1>2 DEF Decide, TypeOK, VoteTypeOK
  <2> QED
    BY Zenon, <2>1, <2>2
<1> QED
  BY Zenon, <1>1, <1>2

\* A proposal is not affected by the votes on the others.
LEMMA VoteFrame ==
  ASSUME TypeOK, [Next]_vars, NEW q \in Proposals, ~VoteOn(q)
  PROVE  /\ OutcomeUnchanged(q) /\ vote_record'[q] = vote_record[q]
         /\ VoteNext => state'[q] = state[q]
<1>2. CASE VoteNext
  <2>1. PICK p \in Proposals :
           \/ \E t \in TORs, vote \in Votes : CastVote(p, t, vote)
           \/ \E t \in TORs : RelinquishVote(p, t)
           \/ FinalizeVote(p)
           \/ CancelProposal(p)
    BY Zenon, <1>2 DEF VoteNext
  <2>2. p # q
    BY Zenon, <2>1 DEF VoteOn
  <2>3. ASSUME NEW t \in TORs, NEW vote \in Votes, CastVote(p, t, vote)
        PROVE  /\ OutcomeUnchanged(q) /\ vote_record'[q] = vote_record[q]
               /\ state'[q] = state[q]
    <3>1. PICK b, r : SetTallies(p, b)
                      /\ vote_record' = [vote_record EXCEPT ![p][t] = r]
      BY Zenon, <2>3 DEF CastVote
    <3>2. UNCHANGED <<weight[q], deny[q], veto[q], vote_record[q]>>
      BY Zenon, <2>2, <3>1 DEF SetTallies, TypeOK, VoteTypeOK
    <3>3. \/ UNCHANGED <<state, outcomeVars>>
          \/ \E s, r2, max, th : Decide(p, s, r2, max, th)
      BY Zenon, <2>3 DEF CastVote
    <3>4. UNCHANGED <<state[q], result[q], voting_completed_at[q],
                      max_vote_weight[q], vote_threshold[q]>>
      BY Zenon, <2>2, <3>3, Undecided
    <3> QED
      BY Zenon, <3>2, <3>4 DEF OutcomeUnchanged
  <2>4. ASSUME NEW t \in TORs, RelinquishVote(p, t)
        PROVE  /\ OutcomeUnchanged(q) /\ vote_record'[q] = vote_record[q]
               /\ state'[q] = state[q]
    <3>1. UNCHANGED <<state, outcomeVars>>
      BY Zenon, <2>4 DEF RelinquishVote
    <3>2. \E r : vote_record' = [vote_record EXCEPT ![p][t] = r]
      BY Zenon, <2>4 DEF RelinquishVote, TakeVoteBack, MarkRelinquished
    <3>3. vote_record'[q] = vote_record[q]
      BY Zenon, <2>2, <3>2 DEF TypeOK, VoteTypeOK
    <3>4. UNCHANGED tallyVars \/ \E b : SetTallies(p, b)
      BY Zenon, <2>4 DEF RelinquishVote, TakeVoteBack, MarkRelinquished
    <3>5. UNCHANGED <<weight[q], deny[q], veto[q]>>
      BY Zenon, <2>2, <3>4 DEF SetTallies, TypeOK, VoteTypeOK, tallyVars
    <3> QED
      BY Zenon, <3>1, <3>3, <3>5 DEF OutcomeUnchanged, outcomeVars
  <2>5. ASSUME FinalizeVote(p)
        PROVE  /\ OutcomeUnchanged(q) /\ vote_record'[q] = vote_record[q]
               /\ state'[q] = state[q]
    <3>1. UNCHANGED <<tallyVars, vote_record>>
      BY Zenon, <2>5 DEF FinalizeVote
    <3>2. PICK s, r, max, th : Decide(p, s, r, max, th)
      BY Zenon, <2>5 DEF FinalizeVote
    <3> QED
      BY Zenon, <2>2, <3>1, <3>2, Undecided DEF OutcomeUnchanged, tallyVars
  <2>6. ASSUME CancelProposal(p)
        PROVE  /\ OutcomeUnchanged(q) /\ vote_record'[q] = vote_record[q]
               /\ state'[q] = state[q]
    <3>1. UNCHANGED voteVars /\ state' = [state EXCEPT ![p] = "Cancelled"]
      BY Zenon, <2>6 DEF CancelProposal
    <3> QED
      BY Zenon, <2>2, <3>1, Tables
         DEF OutcomeUnchanged, voteVars, tallyVars, outcomeVars
  <2> QED
    BY Zenon, <2>1, <2>3, <2>4, <2>5, <2>6
<1>3. CASE RealmNext \/ DraftNext \/ ExecuteNext \/ EnvironmentNext
  BY Zenon, <1>2, <1>3, RealmFrame, DraftFrame, ExecuteFrame, EnvironmentFrame
     DEF OutcomeUnchanged
<1>4. CASE UNCHANGED vars
  BY Zenon, <1>4 DEF vars, OutcomeUnchanged, voteVars, tallyVars, outcomeVars
<1> QED
  BY Zenon, <1>2, <1>3, <1>4 DEF Next

\* Tallies and outcome of a proposal only change while it is in Voting.
LEMMA OutcomeFrame ==
  ASSUME TypeOK, [Next]_vars, NEW q \in Proposals, state[q] # "Voting"
  PROVE  OutcomeUnchanged(q)
<1>1. ~CanCastVote(q) /\ ~CanFinalizeVote(q)
  BY DEF CanCastVote, CanFinalizeVote
<1>2. CASE \E t \in TORs : RelinquishVote(q, t)
  BY Zenon, <1>1, <1>2
     DEF RelinquishVote, TakeVoteBack, MarkRelinquished, OutcomeUnchanged,
         tallyVars, outcomeVars
<1>3. CASE CancelProposal(q)
  BY Zenon, <1>3 DEF CancelProposal, OutcomeUnchanged, voteVars, tallyVars,
                     outcomeVars
<1>4. CASE ~VoteOn(q)
  BY Zenon, <1>4, VoteFrame
<1> QED
  BY Zenon, <1>1, <1>2, <1>3, <1>4 DEF VoteOn, CastVote, FinalizeVote

\* Once voting_completed_at is set, no instruction changes the tallies, the
\* option results or the captured vote parameters of the proposal.
THEOREM DecisionsAreFinal == Spec => DecidedIsFinal
<1>1. TypeOK /\ Lifecycle /\ [Next]_vars =>
         [\A p \in Proposals :
             voting_completed_at[p] # None => OutcomeUnchanged(p)]_vars
  <2>1. ASSUME TypeOK, Lifecycle, [Next]_vars, NEW p \in Proposals,
               voting_completed_at[p] # None
        PROVE  OutcomeUnchanged(p)
    <3>1. state[p] # "Voting"
      BY <2>1 DEF Lifecycle, UndecidedStates
    <3> QED
      BY Zenon, <2>1, <3>1, OutcomeFrame
  <2> QED
    BY Zenon, <2>1
<1> QED
  BY <1>1, LifecycleInvariant, PTL DEF Spec, DecidedIsFinal

\* A proposal that is not open keeps its outcome, and is not vetoed.
LEMMA ClosedVoteSteps ==
  ASSUME TypeOK, Lifecycle, [Next]_vars, NEW q \in Proposals, state[q] # "Voting"
  PROVE  /\ state'[q] \in UndecidedStates \cup {"Absent"} =>
               state[q] \in UndecidedStates \cup {"Absent"}
         /\ state'[q] = "Vetoed" => state[q] = "Vetoed" /\ mint'[q] = mint[q]
<1>1. /\ state \in [Proposals -> ProposalStates \cup {"Absent"}]
      /\ proposals_count \in Nat /\ q \in Nat
      /\ q > proposals_count => state[q] = "Absent"
  BY Zenon, Tables DEF Lifecycle
<1>2. CASE ~VoteNext
  <2>1. ASSUME NEW t \in TORs, CreateStep(t)
        PROVE  \/ state[q] = "Absent" /\ state'[q] = "Draft"
               \/ state'[q] = state[q] /\ mint'[q] = mint[q]
    BY <1>1, <2>1 DEF CreateStep
  <2>2. ASSUME NEW p \in Proposals, SignStep(p)
        PROVE  /\ mint'[q] = mint[q]
               /\ \/ state'[q] = state[q]
                  \/ /\ state[q] \in {"Draft", "SigningOff"}
                     /\ state'[q] \in {"Draft", "SigningOff", "Voting"}
    BY <1>1, <2>2 DEF SignStep
  <2>3. ASSUME NEW p \in Proposals, ExecuteStep(p)
        PROVE  /\ mint'[q] = mint[q]
               /\ \/ state'[q] = state[q]
                  \/ state'[q] \in ApprovedStates \cup {"Completed"}
    BY <1>1, <2>3 DEF ExecuteStep
  <2>4. CASE OtherStep
    BY <2>4 DEF OtherStep
  <2> QED
    BY <1>2, <2>1, <2>2, <2>3, <2>4, QuietSteps DEF UndecidedStates, ApprovedStates
<1>3. CASE VoteNext
  <2>1. PICK p \in Proposals :
           \/ \E t \in TORs, vote \in Votes : CastVote(p, t, vote)
           \/ FinalizeVote(p)
           \/ \E t \in TORs : RelinquishVote(p, t)
           \/ CancelProposal(p)
    BY <1>3 DEF VoteNext
  <2>2. CASE \E t \in TORs, vote \in Votes : CastVote(p, t, vote)
    <3>1. state[p] = "Voting" /\ mint' = mint
      BY Zenon, <2>2 DEF CastVote, CanCastVote, draftVars
    <3>2. DecideStep(p) \/ OtherStep
      BY Zenon, <2>2, CastVoteDecides
    <3> QED
      BY <1>1, <3>1, <3>2 DEF DecideStep, OtherStep
  <2>3. CASE FinalizeVote(p)
    <3>1. state[p] = "Voting" /\ mint' = mint
      BY Zenon, <2>3 DEF FinalizeVote, CanFinalizeVote, draftVars
    <3>2. DecideStep(p)
      BY Zenon, <2>3, FinalizeVoteDecides
    <3> QED
      BY <1>1, <3>1, <3>2 DEF DecideStep
  <2>4. CASE \E t \in TORs : RelinquishVote(p, t)
    BY Zenon, <2>4 DEF RelinquishVote, draftVars
  <2>5. CASE CancelProposal(p)
    <3>1. state' = [state EXCEPT ![p] = "Cancelled"] /\ mint' = mint
      BY Zenon, <2>5 DEF CancelProposal, draftVars
    <3> QED
      BY <1>1, <3>1 DEF UndecidedStates
  <2> QED
    BY Zenon, <2>1, <2>2, <2>3, <2>4, <2>5
<1> QED
  BY Zenon, <1>2, <1>3

\* An open vote ends by a vote, by FinalizeVote or by being cancelled: nothing
\* else touches it.
LEMMA OpenVoteSteps ==
  ASSUME TypeOK, Lifecycle, [Next]_vars, NEW q \in Proposals, state[q] = "Voting",
         ~VoteOn(q)
  PROVE  state'[q] = state[q]
<1>1. /\ state \in [Proposals -> ProposalStates \cup {"Absent"}]
      /\ proposals_count \in Nat /\ q \in Nat
      /\ q > proposals_count => state[q] = "Absent"
  BY Zenon, Tables DEF Lifecycle
<1>2. \A t \in TORs : CreateStep(t) => state'[q] = state[q]
  BY <1>1 DEF CreateStep
<1>3. \A p \in Proposals : SignStep(p) => state'[q] = state[q]
  BY <1>1 DEF SignStep
<1>4. \A p \in Proposals : ExecuteStep(p) => state'[q] = state[q]
  BY <1>1 DEF ExecuteStep, ApprovedStates
<1>5. OtherStep => state'[q] = state[q]
  BY DEF OtherStep
<1>6. ~VoteNext => state'[q] = state[q]
  BY Zenon, <1>2, <1>3, <1>4, <1>5, QuietSteps
<1> QED
  BY Zenon, <1>6, VoteFrame

\* After the voting time an open vote keeps its tallies and records, and can
\* only be resolved: FinalizeVote is the only instruction that takes it.
THEOREM ExpiredVotesOnlyResolve == Spec => ExpiredVoteOnlyResolves
<1> DEFINE Resolves(q) ==
        /\ UNCHANGED <<weight[q], deny[q], veto[q], vote_record[q]>>
        /\ state'[q] \in {"Voting", "Succeeded", "Defeated", "Completed"}
<1>1. ASSUME TypeOK, Lifecycle, [Next]_vars, NEW q \in Proposals,
             state[q] = "Voting", HasVoteTimeEnded(q)
      PROVE  Resolves(q)
  <2>1. ~CanCastVote(q) /\ ~CanCancel(q)
    BY <1>1 DEF CanCastVote, CanCancel
  <2>2. CASE ~VoteOn(q)
    <3>1. UNCHANGED <<weight[q], deny[q], veto[q], vote_record[q]>>
      BY Zenon, <1>1, <2>2, VoteFrame DEF OutcomeUnchanged
    <3>2. state'[q] = "Voting"
      BY Zenon, <1>1, <2>2, OpenVoteSteps
    <3> QED
      BY Zenon, <3>1, <3>2
  <2>3. CASE FinalizeVote(q)
    <3>1. UNCHANGED <<tallyVars, vote_record>>
      BY Zenon, <2>3 DEF FinalizeVote
    <3>2. PICK max, th, r :
             Decide(q, ResolveFinalVoteState(Ballot(q), max, th), r, max, th)
      BY Zenon, <2>3 DEF FinalizeVote
    <3>3. state'[q] = ResolveFinalVoteState(Ballot(q), max, th)
      BY Zenon, <1>1, <3>2 DEF Decide, TypeOK, ProposalTypeOK
    <3>4. state'[q] \in {"Completed", "Defeated", "Succeeded"}
      <4>1. Ballot(q).has_deny \in BOOLEAN
        BY Zenon, <1>1, BallotType
      <4> QED
        BY <3>3, <4>1, ResolveFinalVoteStateType
    <3> QED
      BY Zenon, <3>1, <3>4 DEF tallyVars
  <2>4. ~\E t \in TORs : RelinquishVote(q, t)
    BY Zenon, <1>1, <2>1 DEF RelinquishVote, TakeVoteBack, MarkRelinquished
  <2> QED
    BY Zenon, <2>1, <2>2, <2>3, <2>4 DEF VoteOn, CastVote, CancelProposal
<1>2. TypeOK /\ Lifecycle /\ [Next]_vars =>
         [\A p \in Proposals :
             state[p] = "Voting" /\ HasVoteTimeEnded(p) => Resolves(p)]_vars
  BY <1>1
<1> QED
  BY <1>2, LifecycleInvariant, PTL DEF Spec, ExpiredVoteOnlyResolves

-----------------------------------------------------------------------------
(* Votes and the deposits behind them *)

\* Only CastVote and RelinquishVote touch vote records and vote counters.
LEMMA VoteRecordFrame ==
  ASSUME [Next]_vars
  PROVE  \/ \E p \in Proposals, t \in TORs, vote \in Votes : CastVote(p, t, vote)
         \/ \E p \in Proposals, t \in TORs : RelinquishVote(p, t)
         \/ UNCHANGED <<vote_record, unrelinquished, total_votes>>
<1>1. CASE VoteNext
  <2>1. \A p \in Proposals : FinalizeVote(p) \/ CancelProposal(p) =>
            UNCHANGED <<vote_record, unrelinquished, total_votes>>
    BY Zenon DEF FinalizeVote, CancelProposal, voteVars
  <2> QED
    BY Zenon, <1>1, <2>1 DEF VoteNext
<1>2. CASE UNCHANGED vars
  BY Zenon, <1>2 DEF vars, recordVars, voteVars
<1> QED
  BY Zenon, <1>1, <1>2, RealmFrame, DraftFrame, ExecuteFrame, EnvironmentFrame DEF Next

Live(t)  == {p \in Proposals : IsLive(p, t)}
Voted(t) == {p \in Proposals : HasVoted(p, t)}

\* process_cast_vote adds the one vote it counts.
LEMMA CastVoteCounted ==
  ASSUME TypeOK, VotesCounted, NEW p \in Proposals, NEW t \in TORs,
         NEW vote \in Votes, CastVote(p, t, vote)
  PROVE  VotesCounted'
<1>1. /\ vote_record[p][t] = NoVote
      /\ unrelinquished' = [unrelinquished EXCEPT ![t] = @ + 1]
      /\ total_votes' = [total_votes EXCEPT ![t] = @ + 1]
  BY Zenon DEF CastVote
<1>2. PICK w : vote_record' = [vote_record EXCEPT
         ![p][t] = [kind |-> vote.kind, choices |-> vote.choices,
                    weight |-> w, relinquished |-> FALSE]]
  BY Zenon DEF CastVote
<1>3. vote_record'[p][t] # NoVote /\ ~vote_record'[p][t].relinquished
  BY Zenon, <1>2 DEF NoVote, Votes, TypeOK, VoteTypeOK
<1>4. \A q \in Proposals, u \in TORs :
         q # p \/ u # t => vote_record'[q][u] = vote_record[q][u]
  BY <1>2, VoteRecordWrite
<1>5. /\ Live(t)' = Live(t) \cup {p} /\ p \notin Live(t)
      /\ Voted(t)' = Voted(t) \cup {p} /\ p \notin Voted(t)
  <2>1. \A q \in Proposals \ {p} : vote_record'[q][t] = vote_record[q][t]
    BY Zenon, <1>4
  <2>2. Live(t)' = Live(t) \cup {p} /\ p \notin Live(t)
    BY <1>1, <1>3, <2>1 DEF Live, IsLive, HasVoted
  <2>3. Voted(t)' = Voted(t) \cup {p} /\ p \notin Voted(t)
    BY <1>1, <1>3, <2>1 DEF Voted, HasVoted
  <2> QED
    BY Zenon, <2>2, <2>3
<1>6. \A u \in TORs \ {t} : Live(u)' = Live(u) /\ Voted(u)' = Voted(u)
  <2>1. \A q \in Proposals, u \in TORs \ {t} :
           vote_record'[q][u] = vote_record[q][u]
    BY Zenon, <1>4
  <2> QED
    BY Zenon, <2>1 DEF Live, Voted, IsLive, HasVoted
<1>7. IsFiniteSet(Live(t)) /\ IsFiniteSet(Voted(t))
  BY Zenon, ProposalsFinite DEF Live, Voted
<1>8. /\ Cardinality(Live(t)') = Cardinality(Live(t)) + 1
      /\ Cardinality(Voted(t)') = Cardinality(Voted(t)) + 1
  BY Zenon, <1>5, <1>7, FS_AddElement
<1>9. \A u \in TORs : /\ unrelinquished[u] = Cardinality(Live(u))
                      /\ total_votes[u] = Cardinality(Voted(u))
  BY Zenon DEF VotesCounted, Live, Voted
<1>10. \A u \in TORs : /\ unrelinquished'[u] = Cardinality(Live(u)')
                       /\ total_votes'[u] = Cardinality(Voted(u)')
  <2>1. unrelinquished \in [TORs -> Nat] /\ total_votes \in [TORs -> Nat]
    BY Zenon DEF TypeOK, RecordTypeOK
  <2> QED
    BY Zenon, <1>1, <1>6, <1>8, <1>9, <2>1
<1> QED
  BY Zenon, <1>10 DEF VotesCounted, Live, Voted

\* Relinquishing a vote writes one vote record, which is not live afterwards:
\* it is gone while the vote is open, and marked otherwise.
LEMMA RelinquishWrites ==
  ASSUME TypeOK, NEW p \in Proposals, NEW t \in TORs, RelinquishVote(p, t)
  PROVE  /\ ~IsLive(p, t)'
         /\ TakeVoteBack(p, t) => vote_record'[p][t] = NoVote
         /\ MarkRelinquished(p, t) => vote_record'[p][t] # NoVote
         /\ \A q \in Proposals, u \in TORs :
               q # p \/ u # t => vote_record'[q][u] = vote_record[q][u]
<1> DEFINE marked == [vote_record[p][t] EXCEPT !.relinquished = TRUE]
<1>1. /\ TakeVoteBack(p, t) => vote_record' = [vote_record EXCEPT ![p][t] = NoVote]
      /\ MarkRelinquished(p, t) =>
            vote_record' = [vote_record EXCEPT ![p][t] = marked]
      /\ TakeVoteBack(p, t) \/ MarkRelinquished(p, t)
  BY Zenon DEF RelinquishVote, TakeVoteBack, MarkRelinquished
<1>2. marked.relinquished /\ marked # NoVote
  <2>1. vote_record[p][t] \in VoteRecords
    BY Zenon, Tables
  <2>2. marked.relinquished = TRUE
    BY Zenon, <2>1 DEF VoteRecords
  <2>3. NoVote.relinquished = FALSE
    BY Zenon DEF NoVote
  <2> QED
    BY Zenon, <2>2, <2>3
<1> HIDE DEF marked
<1>3. \E v : vote_record' = [vote_record EXCEPT ![p][t] = v]
  BY Zenon, <1>1
<1>4. \A q \in Proposals, u \in TORs :
         q # p \/ u # t => vote_record'[q][u] = vote_record[q][u]
  BY <1>3, VoteRecordWrite
<1>5. \A v : vote_record' = [vote_record EXCEPT ![p][t] = v] =>
               vote_record'[p][t] = v
  BY Zenon, Tables
<1> QED
  BY Zenon, <1>1, <1>2, <1>4, <1>5 DEF IsLive, HasVoted

\* process_relinquish_vote removes or marks the one vote it stops counting.
LEMMA RelinquishVoteCounted ==
  ASSUME TypeOK, VotesCounted, NEW p \in Proposals, NEW t \in TORs,
         RelinquishVote(p, t)
  PROVE  VotesCounted'
<1>1. /\ vote_record[p][t] # NoVote /\ ~vote_record[p][t].relinquished
      /\ unrelinquished' = [unrelinquished EXCEPT ![t] = @ - 1]
  BY Zenon DEF RelinquishVote, TakeVoteBack, MarkRelinquished, CanRelinquish
<1>2. \A q \in Proposals, u \in TORs :
         q # p \/ u # t => vote_record'[q][u] = vote_record[q][u]
  BY Zenon, RelinquishWrites
<1>3. \A u \in TORs \ {t} : Live(u)' = Live(u) /\ Voted(u)' = Voted(u)
  <2>1. \A q \in Proposals, u \in TORs \ {t} :
           vote_record'[q][u] = vote_record[q][u]
    BY Zenon, <1>2
  <2> QED
    BY Zenon, <2>1 DEF Live, Voted, IsLive, HasVoted
<1>4. IsFiniteSet(Live(t)) /\ IsFiniteSet(Voted(t))
  BY Zenon, ProposalsFinite DEF Live, Voted
<1>5. p \in Live(t) /\ p \in Voted(t)
  BY Zenon, <1>1 DEF Live, Voted, IsLive, HasVoted
<1>6. \A u \in TORs : /\ unrelinquished[u] = Cardinality(Live(u))
                      /\ total_votes[u] = Cardinality(Voted(u))
  BY Zenon DEF VotesCounted, Live, Voted
<1>7. /\ Live(t)' = Live(t) \ {p}
      /\ \/ /\ Voted(t)' = Voted(t) \ {p}
            /\ total_votes' = [total_votes EXCEPT ![t] = @ - 1]
         \/ Voted(t)' = Voted(t) /\ total_votes' = total_votes
  <2>1. \A q \in Proposals \ {p} : vote_record'[q][t] = vote_record[q][t]
    BY Zenon, <1>2
  <2>2. Live(t)' = Live(t) \ {p}
    BY Zenon, <2>1, RelinquishWrites DEF Live, IsLive, HasVoted
  <2>3. CASE TakeVoteBack(p, t)
    <3>1. /\ vote_record'[p][t] = NoVote
          /\ total_votes' = [total_votes EXCEPT ![t] = @ - 1]
      BY Zenon, <2>3, RelinquishWrites DEF TakeVoteBack
    <3> QED
      BY Zenon, <2>1, <2>2, <3>1 DEF Voted, HasVoted
  <2>4. CASE MarkRelinquished(p, t)
    <3>1. /\ vote_record'[p][t] # NoVote
          /\ total_votes' = total_votes
      BY Zenon, <2>4, RelinquishWrites DEF MarkRelinquished
    <3> QED
      BY Zenon, <1>1, <2>1, <2>2, <3>1 DEF Voted, HasVoted
  <2> QED
    BY Zenon, <2>3, <2>4 DEF RelinquishVote
<1>8. /\ Cardinality(Live(t) \ {p}) = Cardinality(Live(t)) - 1
      /\ Cardinality(Voted(t) \ {p}) = Cardinality(Voted(t)) - 1
  BY Zenon, <1>4, <1>5, FS_RemoveElement
<1>9. \A u \in TORs : /\ unrelinquished'[u] = Cardinality(Live(u)')
                      /\ total_votes'[u] = Cardinality(Voted(u)')
  BY Zenon, <1>1, <1>3, <1>6, <1>7, <1>8 DEF TypeOK, RecordTypeOK
<1> QED
  BY Zenon, <1>9 DEF VotesCounted, Live, Voted

\* Every step keeps the vote counters equal to the vote records.
LEMMA NextVotesCounted ==
  TypeOK /\ VotesCounted /\ [Next]_vars => VotesCounted'
<1> SUFFICES ASSUME TypeOK, VotesCounted, [Next]_vars PROVE VotesCounted'
  OBVIOUS
<1>1. CASE UNCHANGED <<vote_record, unrelinquished, total_votes>>
  BY Zenon, <1>1 DEF VotesCounted, IsLive, HasVoted
<1> QED
  BY Zenon, <1>1, VoteRecordFrame, CastVoteCounted, RelinquishVoteCounted

\* A fresh realm has no votes and counts none.
LEMMA InitVotesCounted == Init => VotesCounted
<1> SUFFICES ASSUME Init PROVE VotesCounted
  OBVIOUS
<1>1. \A t \in TORs : {p \in Proposals : IsLive(p, t)} = {}
                        /\ {p \in Proposals : HasVoted(p, t)} = {}
  BY DEF Init, IsLive, HasVoted
<1> QED
  BY Zenon, <1>1, FS_EmptySet DEF VotesCounted, Init

\* The vote counters of a token owner record never drift from its vote
\* records, whatever is cast, taken back and relinquished.
THEOREM VotesAlwaysCounted == Spec => []VotesCounted
<1>1. TypeOK /\ TypeOK' /\ VotesCounted /\ [Next]_vars => VotesCounted'
  BY NextVotesCounted
<1> QED
  BY <1>1, InitVotesCounted, TypeCorrect, PTL DEF Spec

\* Only deposits and withdrawals change a deposit or a holding account.
LEMMA DepositFrame ==
  ASSUME TypeOK, [Next]_vars
  PROVE  \/ \E t \in TORs, n \in Nat : DepositGoverningTokens(t, n)
         \/ \E t \in TORs : WithdrawGoverningTokens(t)
         \/ UNCHANGED <<deposit, holding>>
<1>1. CASE RealmNext
  <2>1. \A t \in TORs : \A n \in 1 .. free[MintOf(t)] : n \in Nat
    BY Addresses DEF TypeOK, RecordTypeOK
  <2>2. \A t \in TORs, m \in Mints, k \in Kinds :
            CreateProposal(t, m, k) => UNCHANGED <<deposit, holding>>
    BY Zenon DEF CreateProposal, tokenVars
  <2>3. \A t \in TORs : CreateTokenOwnerRecord(t) => UNCHANGED <<deposit, holding>>
    BY Zenon DEF CreateTokenOwnerRecord, tokenVars
  <2> QED
    BY Zenon, <1>1, <2>1, <2>2, <2>3 DEF RealmNext
<1>2. CASE VoteNext
  <2>1. ASSUME NEW p \in Proposals, NEW t \in TORs, NEW vote \in Votes,
               CastVote(p, t, vote)
        PROVE  UNCHANGED <<deposit, holding>>
    BY Zenon, <2>1 DEF CastVote, tokenVars
  <2>2. \A p \in Proposals, t \in TORs : RelinquishVote(p, t) =>
            UNCHANGED <<deposit, holding>>
    BY Zenon DEF RelinquishVote, tokenVars
  <2>3. \A p \in Proposals : FinalizeVote(p) \/ CancelProposal(p)
                                => UNCHANGED <<deposit, holding>>
    BY Zenon DEF FinalizeVote, CancelProposal, tokenVars
  <2> QED
    BY Zenon, <1>2, <2>1, <2>2, <2>3 DEF VoteNext
<1>3. CASE UNCHANGED vars
  BY Zenon, <1>3 DEF vars, recordVars, tokenVars
<1> QED
  BY Zenon, <1>1, <1>2, <1>3, DraftFrame, ExecuteFrame, EnvironmentFrame DEF Next

\* Every step keeps the weight of live votes deposited: a deposit only shrinks
\* in WithdrawGoverningTokens, which requires that there are no live votes.
LEMMA NextLiveVotesBacked ==
  TypeOK /\ VotesCounted /\ LiveVotesBacked /\ [Next]_vars => LiveVotesBacked'
<1> SUFFICES ASSUME TypeOK, VotesCounted, LiveVotesBacked, [Next]_vars,
                    WeightsFromDeposits,
                    NEW q \in Proposals, NEW u \in TORs, IsLive(q, u)'
             PROVE  vote_record'[q][u].weight <= deposit'[u]
  BY Zenon DEF LiveVotesBacked, WeightsFromDeposits
<1>1. IsLive(q, u) => vote_record[q][u].weight <= deposit[u]
  BY Zenon DEF LiveVotesBacked
<1>2. vote_record[q][u].weight \in Nat /\ deposit \in [TORs -> Nat]
  <2>1. vote_record[q][u] \in VoteRecords
    BY Zenon, Tables
  <2>2. vote_record[q][u].weight \in Nat
    BY <2>1 DEF VoteRecords
  <2> QED
    BY Zenon, <2>2 DEF TypeOK, RecordTypeOK
<1>3. CASE \E t \in TORs, n \in Nat :
              DepositGoverningTokens(t, n)
  <2>1. PICK t \in TORs, n \in Nat :
           DepositGoverningTokens(t, n)
    BY Zenon, <1>3
  <2>2. vote_record' = vote_record /\ deposit' = [deposit EXCEPT ![t] = @ + n]
    BY Zenon, <2>1 DEF DepositGoverningTokens, voteVars
  <2>3. deposit'[u] >= deposit[u] /\ deposit[u] \in Nat /\ deposit'[u] \in Nat
    BY <1>2, <2>2
  <2>4. IsLive(q, u)
    BY Zenon, <2>2 DEF IsLive, HasVoted
  <2>5. vote_record[q][u].weight <= deposit'[u]
    BY <1>1, <1>2, <2>3, <2>4
  <2> QED
    BY Zenon, <2>2, <2>5
<1>4. CASE \E t \in TORs : WithdrawGoverningTokens(t)
  <2>1. PICK t \in TORs : WithdrawGoverningTokens(t)
    BY Zenon, <1>4
  <2>2. /\ unrelinquished[t] = 0
        /\ vote_record' = vote_record
        /\ deposit' = [deposit EXCEPT ![t] = 0]
    BY Zenon, <2>1 DEF WithdrawGoverningTokens, CanWithdraw, voteVars
  <2>3. IsLive(q, u)
    BY Zenon, <2>2 DEF IsLive, HasVoted
  <2>4. u # t
    <3>1. Cardinality(Live(t)) = 0
      BY Zenon, <2>2 DEF VotesCounted, Live
    <3>2. Live(t) = {}
      BY Zenon, <3>1, ProposalsFinite, FS_EmptySet DEF Live
    <3> QED
      BY Zenon, <2>3, <3>2 DEF Live
  <2>5. deposit'[u] = deposit[u]
    BY Zenon, <1>2, <2>2, <2>4, Elsewhere
  <2> QED
    BY Zenon, <1>1, <2>2, <2>3, <2>5
<1>5. CASE UNCHANGED deposit
  <2>1. CASE \E p \in Proposals, t \in TORs, vote \in Votes :
                CastVote(p, t, vote)
    <3>1. PICK p \in Proposals, t \in TORs, vote \in Votes :
              CastVote(p, t, vote)
      BY <2>1
    <3>2. PICK w \in VoterWeights(t) :
             vote_record' = [vote_record EXCEPT
                ![p][t] = [kind |-> vote.kind, choices |-> vote.choices,
                           weight |-> w, relinquished |-> FALSE]]
      BY Zenon, <3>1 DEF CastVote
    <3>3. w = deposit[t]
      <4>1. ~realm.use_community_voter_weight_addin
        BY Zenon DEF WeightsFromDeposits, TypeOK, RealmTypeOK
      <4> QED
        BY Zenon, <3>2, <4>1 DEF VoterWeights, UsesVoterWeightAddin
    <3>4. CASE q = p /\ u = t
      <4>1. vote_record'[q][u].weight = w
        <5> DEFINE cast == [kind |-> vote.kind, choices |-> vote.choices,
                            weight |-> w, relinquished |-> FALSE]
        <5>1. cast.weight = w /\ vote_record' = [vote_record EXCEPT ![p][t] = cast]
          BY Zenon, <3>2
        <5> HIDE DEF cast
        <5>2. vote_record'[p][t] = cast
          BY Zenon, <5>1, Tables
        <5> QED
          BY Zenon, <3>4, <5>1, <5>2
      <4> QED
        BY <1>2, <1>5, <3>3, <3>4, <4>1
    <3>5. CASE q # p \/ u # t
      <4>1. vote_record'[q][u] = vote_record[q][u]
        BY <3>2, <3>5, VoteRecordWrite
      <4> QED
        BY Zenon, <1>1, <1>5, <4>1 DEF IsLive, HasVoted
    <3> QED
      BY Zenon, <3>4, <3>5
  <2>2. CASE \E p \in Proposals, t \in TORs : RelinquishVote(p, t)
    <3>1. PICK p \in Proposals, t \in TORs : RelinquishVote(p, t)
      BY Zenon, <2>2
    <3>2. q # p \/ u # t
      <4>1. ~IsLive(p, t)'
        BY Zenon, <3>1, RelinquishWrites
      <4> QED
        BY Zenon, <4>1
    <3>3. vote_record'[q][u] = vote_record[q][u]
      BY Zenon, <3>1, <3>2, RelinquishWrites
    <3> QED
      BY Zenon, <1>1, <1>5, <3>3 DEF IsLive, HasVoted
  <2>3. CASE UNCHANGED <<vote_record, unrelinquished, total_votes>>
    BY Zenon, <1>1, <1>5, <2>3 DEF IsLive, HasVoted
  <2> QED
    BY Zenon, <2>1, <2>2, <2>3, VoteRecordFrame
<1> QED
  BY Zenon, <1>3, <1>4, <1>5, DepositFrame

\* Where voter weight comes from deposits, the weight of every vote that is not
\* relinquished stays deposited: tokens never vote twice.
THEOREM LiveVotesAlwaysBacked == Spec => []LiveVotesBacked
<1>1. Init => LiveVotesBacked
  BY DEF Init, LiveVotesBacked, IsLive, HasVoted
<1>2. TypeOK /\ VotesCounted /\ LiveVotesBacked /\ [Next]_vars
          => LiveVotesBacked'
  BY NextLiveVotesBacked
<1> QED
  BY <1>1, <1>2, TypeCorrect, VotesAlwaysCounted, PTL DEF Spec
=============================================================================
