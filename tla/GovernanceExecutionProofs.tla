---------------------- MODULE GovernanceExecutionProofs ---------------------
(***************************************************************************)
(* That a vote starts only when everybody appointed has signed off, that   *)
(* transactions run only as approved and complete their proposal, and that *)
(* Governance implements ProposalOutcome, for every set of proposals,      *)
(* signatories, options and transactions.                                  *)
(***************************************************************************)
EXTENDS GovernanceProofs, GovernanceRefinement

-----------------------------------------------------------------------------
(* Signing off *)

PreparingStates == {"Absent", "Draft", "SigningOff"}

Appointed(p) == {s \in Signatories : signatory[p][s] # "Absent"}

Signed(p) == {s \in Signatories : signatory[p][s] = "SignedOff"}

\* The counters of a proposal are exact, and it has no voting_at before
\* everybody appointed to it has signed off.
SignaturesOK(p) ==
    /\ signatories_count[p] = Cardinality(Appointed(p))
    /\ signatories_signed_off_count[p] = Cardinality(Signed(p))
    /\ state[p] \in PreparingStates => voting_at[p] = None
    /\ voting_at[p] # None => Appointed(p) = Signed(p)

\* The instructions on the signatories of a proposal.
SignOn(q) ==
    \/ \E s \in Signatories : AddSignatory(q, s) \/ RemoveSignatory(q, s)
    \/ SignOffByOwner(q)
    \/ \E s \in Signatories : SignOffBySignatory(q, s)

SignaturesUnchanged(q) ==
    UNCHANGED <<signatories_count[q], signatories_signed_off_count[q],
                signatory[q], voting_at[q]>>

\* Signatories can be counted.
LEMMA SignatoriesFinite ==
  ASSUME NEW S, S \subseteq Signatories
  PROVE  IsFiniteSet(S) /\ Cardinality(S) \in Nat
<1>1. IsFiniteSet(S)
  BY Zenon, FS_Subset, GovernanceAssumption
<1> QED
  BY Zenon, <1>1, FS_CardinalityType

\* Nothing else touches the signatories of a proposal.
LEMMA SignFrame ==
  ASSUME TypeOK, [Next]_vars, NEW q \in Proposals, ~SignOn(q)
  PROVE  SignaturesUnchanged(q)
<1> USE DEF SignaturesUnchanged
<1>1. CASE RealmNext
  BY Zenon, <1>1
     DEF RealmNext, CreateTokenOwnerRecord, DepositGoverningTokens,
         WithdrawGoverningTokens, CreateProposal, signVars, voteVars
<1>2. CASE DraftNext
  <2>1. /\ signatory \in
              [Proposals -> [Signatories -> {"Absent", "Pending", "SignedOff"}]]
        /\ signatories_count \in [Proposals -> Nat]
        /\ signatories_signed_off_count \in [Proposals -> Nat]
        /\ voting_at \in [Proposals -> Nat \cup {None}]
    BY DEF TypeOK, ProposalTypeOK, VoteTypeOK
  <2>2. PICK p \in Proposals :
           \/ \E s \in Signatories : AddSignatory(p, s)
           \/ \E s \in Signatories : RemoveSignatory(p, s)
           \/ \E x \in Slots, h \in HoldUpTimes, l \in Payloads :
                 InsertTransaction(p, x, h, l)
           \/ \E x \in Slots : RemoveTransaction(p, x)
           \/ SignOffByOwner(p)
           \/ \E s \in Signatories : SignOffBySignatory(p, s)
    BY Zenon, <1>2 DEF DraftNext
  <2>3. ASSUME NEW s \in Signatories, AddSignatory(p, s) \/ RemoveSignatory(p, s)
        PROVE  SignaturesUnchanged(q)
    <3>1. p # q
      BY Zenon, <2>3 DEF SignOn
    <3>2. UNCHANGED <<signatories_signed_off_count, voting_at>>
      BY Zenon, <2>3 DEF AddSignatory, RemoveSignatory, voteVars
    <3>3. PICK v, n : /\ signatory' = [signatory EXCEPT ![p][s] = v]
                      /\ signatories_count' = [signatories_count EXCEPT ![p] = n]
      BY Zenon, <2>3 DEF AddSignatory, RemoveSignatory
    <3> QED
      BY Zenon, <2>1, <3>1, <3>2, <3>3
  <2>4. CASE \E x \in Slots : \/ RemoveTransaction(p, x)
                              \/ \E h \in HoldUpTimes, l \in Payloads :
                                    InsertTransaction(p, x, h, l)
    BY Zenon, <2>4 DEF RemoveTransaction, InsertTransaction, voteVars, signVars
  <2>5. ASSUME \/ SignOffByOwner(p)
               \/ \E s \in Signatories : SignOffBySignatory(p, s)
        PROVE  SignaturesUnchanged(q)
    <3>1. p # q
      BY Zenon, <2>5 DEF SignOn
    <3>2. \E n, b : SignOff(p, n, b)
      BY Zenon, <2>5 DEF SignOffByOwner, SignOffBySignatory
    <3>3. \/ signatory' = signatory
          \/ \E s \in Signatories :
                signatory' = [signatory EXCEPT ![p][s] = "SignedOff"]
      BY Zenon, <2>5 DEF SignOffByOwner, SignOffBySignatory
    <3> QED
      BY Zenon, <2>1, <3>1, <3>2, <3>3 DEF SignOff
  <2> QED
    BY Zenon, <2>2, <2>3, <2>4, <2>5
<1>3. CASE VoteNext
  <2>1. ASSUME NEW p \in Proposals, NEW t \in TORs, NEW vote \in Votes,
               CastVote(p, t, vote)
        PROVE  UNCHANGED <<signVars, voting_at>>
    BY Zenon, <2>1 DEF CastVote
  <2>2. \A p \in Proposals :
           FinalizeVote(p) \/ CancelProposal(p) => UNCHANGED <<signVars,
           voting_at>>
    BY Zenon DEF FinalizeVote, CancelProposal, voteVars
  <2>3. \A p \in Proposals, t \in TORs :
           RelinquishVote(p, t) => UNCHANGED <<signVars, voting_at>>
    BY Zenon DEF RelinquishVote
  <2>4. UNCHANGED <<signVars, voting_at>>
    BY Zenon, <1>3, <2>1, <2>2, <2>3 DEF VoteNext
  <2> QED
    BY Zenon, <2>4 DEF signVars
<1>4. CASE ExecuteNext
  BY Zenon, <1>4 DEF ExecuteNext, ExecuteTransaction, FlagTransactionError,
     signVars, voteVars
<1>5. CASE EnvironmentNext
  BY Zenon, <1>5 DEF EnvironmentNext, Tick, MintTokens, BurnTokens, signVars,
     voteVars
<1>6. CASE UNCHANGED vars
  BY Zenon, <1>6 DEF vars, signVars, voteVars
<1> QED
  BY Zenon, <1>1, <1>2, <1>3, <1>4, <1>5, <1>6 DEF Next

\* No proposal is prepared again.
LEMMA PreparedOnce ==
  ASSUME TypeOK, Lifecycle, [Next]_vars, NEW q \in Proposals,
         state'[q] \in PreparingStates
  PROVE  state[q] \in PreparingStates
<1>1. /\ state \in [Proposals -> ProposalStates \cup {"Absent"}]
      /\ proposals_count \in Nat /\ q \in Nat
      /\ q > proposals_count => state[q] = "Absent"
  BY GovernanceAssumption
     DEF TypeOK, ProposalTypeOK, RealmTypeOK, Proposals, Lifecycle
<1> USE DEF PreparingStates
<1>2. \A t \in TORs : CreateStep(t) => state[q] \in PreparingStates
  BY <1>1 DEF CreateStep
<1>3. \A p \in Proposals : SignStep(p) => state[q] \in PreparingStates
  BY Zenon, <1>1 DEF SignStep
<1>4. \A p \in Proposals : DecideStep(p) => state[q] \in PreparingStates
  BY Zenon, <1>1 DEF DecideStep, UndecidedStates, ProposalStates
<1>5. \A p \in Proposals : ExecuteStep(p) => state[q] \in PreparingStates
  BY Zenon, <1>1 DEF ExecuteStep, ApprovedStates
<1>6. OtherStep => state[q] \in PreparingStates
  BY Zenon DEF OtherStep
<1> QED
  BY Zenon, <1>2, <1>3, <1>4, <1>5, <1>6, LifeSteps

\* Appointing and dismissing a signatory is counted.
LEMMA EditSignatoriesOK ==
  ASSUME TypeOK, NEW p \in Proposals, SignaturesOK(p), NEW s \in Signatories,
         AddSignatory(p, s) \/ RemoveSignatory(p, s)
  PROVE  SignaturesOK(p)'
<1>1. /\ signatory \in
            [Proposals -> [Signatories -> {"Absent", "Pending", "SignedOff"}]]
      /\ signatories_count \in [Proposals -> Nat]
  BY Zenon DEF TypeOK, ProposalTypeOK
<1>2. /\ state[p] = "Draft"
      /\ UNCHANGED <<state, voting_at, signatories_signed_off_count>>
  BY Zenon DEF AddSignatory, RemoveSignatory, CanEditSignatories, voteVars
<1>3. voting_at[p] = None
  BY <1>2 DEF SignaturesOK, PreparingStates
<1>4. IsFiniteSet(Appointed(p)) /\ Cardinality(Appointed(p)) \in Nat
  BY SignatoriesFinite DEF Appointed
<1>5. CASE AddSignatory(p, s)
  <2>1. /\ signatory[p][s] = "Absent"
        /\ signatory' = [signatory EXCEPT ![p][s] = "Pending"]
        /\ signatories_count' = [signatories_count EXCEPT ![p] = @ + 1]
    BY <1>5 DEF AddSignatory
  <2>2. Appointed(p)' = Appointed(p) \cup {s} /\ Signed(p)' = Signed(p)
    BY <1>1, <2>1 DEF Appointed, Signed
  <2>3. s \notin Appointed(p)
    BY Zenon, <2>1 DEF Appointed
  <2>4. Cardinality(Appointed(p)') = Cardinality(Appointed(p)) + 1
    BY Zenon, <1>4, <2>2, <2>3, FS_AddElement
  <2>5. signatories_count'[p] = signatories_count[p] + 1
    BY Zenon, <1>1, <2>1
  <2> QED
    BY Zenon, <1>2, <1>3, <2>2, <2>4, <2>5 DEF SignaturesOK
<1>6. CASE RemoveSignatory(p, s)
  <2>1. /\ signatory[p][s] = "Pending"
        /\ signatory' = [signatory EXCEPT ![p][s] = "Absent"]
        /\ signatories_count' = [signatories_count EXCEPT ![p] = @ - 1]
    BY Zenon, <1>6 DEF RemoveSignatory
  <2>2. Appointed(p)' = Appointed(p) \ {s} /\ Signed(p)' = Signed(p)
    BY Zenon, <1>1, <2>1 DEF Appointed, Signed
  <2>3. s \in Appointed(p)
    BY Zenon, <2>1 DEF Appointed
  <2>4. Cardinality(Appointed(p)') = Cardinality(Appointed(p)) - 1
    BY Zenon, <1>4, <2>2, <2>3, FS_RemoveElement
  <2>5. signatories_count'[p] = signatories_count[p] - 1
    BY Zenon, <1>1, <2>1
  <2> QED
    BY Zenon, <1>2, <1>3, <2>2, <2>4, <2>5 DEF SignaturesOK
<1> QED
  BY Zenon, <1>5, <1>6

\* A sign off starts the vote only when it is the last one.
LEMMA SignOffOK ==
  ASSUME TypeOK, NEW p \in Proposals, SignaturesOK(p),
         NEW n, NEW before \in {"Draft", "SigningOff"}, SignOff(p, n, before),
         state[p] \in {"Draft", "SigningOff"},
         Appointed(p)' = Appointed(p), n = Cardinality(Signed(p)')
  PROVE  SignaturesOK(p)'
<1>1. /\ signatories_signed_off_count'[p] = n
      /\ state'[p] = IF n = signatories_count[p] THEN "Voting" ELSE before
      /\ voting_at'[p] = IF n = signatories_count[p] THEN now ELSE voting_at[p]
      /\ signatories_count' = signatories_count
  BY Zenon DEF SignOff, TypeOK, ProposalTypeOK, VoteTypeOK
<1>2. voting_at[p] = None
  BY Zenon DEF SignaturesOK, PreparingStates
<1>3. CASE n = signatories_count[p]
  <2>1. Signed(p)' \subseteq Appointed(p)' /\ IsFiniteSet(Appointed(p)')
    BY Zenon, SignatoriesFinite DEF Signed, Appointed
  <2>2. Cardinality(Signed(p)') = Cardinality(Appointed(p)')
    BY Zenon, <1>3 DEF SignaturesOK
  <2>3. Appointed(p)' = Signed(p)'
    BY Zenon, <2>1, <2>2, FS_Subset
  <2> QED
    BY Zenon, <1>1, <1>3, <2>2, <2>3 DEF SignaturesOK, PreparingStates
<1>4. CASE n # signatories_count[p]
  BY Zenon, <1>1, <1>2, <1>4 DEF SignaturesOK
<1> QED
  BY Zenon, <1>3, <1>4

\* Every step keeps the signatures of every proposal in order.
LEMMA NextSignaturesOK ==
  ASSUME TypeOK, Lifecycle, [Next]_vars, NEW p \in Proposals, SignaturesOK(p)
  PROVE  SignaturesOK(p)'
<1>1. /\ signatory \in
            [Proposals -> [Signatories -> {"Absent", "Pending", "SignedOff"}]]
      /\ signatories_signed_off_count[p] \in Nat
  BY Zenon DEF TypeOK, ProposalTypeOK
<1>2. CASE ~SignOn(p)
  <2>1. SignaturesUnchanged(p)
    BY Zenon, <1>2, SignFrame
  <2>2. Appointed(p)' = Appointed(p) /\ Signed(p)' = Signed(p)
    BY Zenon, <2>1 DEF Appointed, Signed, SignaturesUnchanged
  <2>3. state'[p] \in PreparingStates => state[p] \in PreparingStates
    BY Zenon, PreparedOnce
  <2> QED
    BY Zenon, <2>1, <2>2, <2>3 DEF SignaturesOK, SignaturesUnchanged
<1>3. CASE SignOffByOwner(p)
  <2>1. /\ state[p] \in {"Draft", "SigningOff"} /\ signatory' = signatory
        /\ SignOff(p, signatories_signed_off_count[p], state[p])
    BY Zenon, <1>3 DEF SignOffByOwner, CanSignOff
  <2>2. Appointed(p)' = Appointed(p) /\ Signed(p)' = Signed(p)
    BY Zenon, <2>1 DEF Appointed, Signed
  <2> QED
    BY Zenon, <2>1, <2>2, SignOffOK DEF SignaturesOK
<1>4. ASSUME NEW s \in Signatories, SignOffBySignatory(p, s)
      PROVE  SignaturesOK(p)'
  <2>1. PICK before \in {"Draft", "SigningOff"} :
           SignOff(p, signatories_signed_off_count[p] + 1, before)
    BY Zenon, <1>4 DEF SignOffBySignatory, CanSignOff
  <2>2. /\ state[p] \in {"Draft", "SigningOff"} /\ signatory[p][s] = "Pending"
        /\ signatory' = [signatory EXCEPT ![p][s] = "SignedOff"]
    BY Zenon, <1>4 DEF SignOffBySignatory, CanSignOff
  <2>3. /\ Appointed(p)' = Appointed(p) /\ Signed(p)' = Signed(p) \cup {s}
        /\ s \notin Signed(p)
    BY Zenon, <1>1, <2>2 DEF Appointed, Signed
  <2>4. IsFiniteSet(Signed(p))
    BY Zenon, SignatoriesFinite DEF Signed
  <2>5. Cardinality(Signed(p)') = Cardinality(Signed(p)) + 1
    BY Zenon, <2>3, <2>4, FS_AddElement
  <2>6. signatories_signed_off_count[p] + 1 = Cardinality(Signed(p)')
    BY Zenon, <2>5 DEF SignaturesOK
  <2> QED
    BY Zenon, <2>1, <2>2, <2>3, <2>6, SignOffOK
<1> QED
  BY Zenon, <1>2, <1>3, <1>4, EditSignatoriesOK DEF SignOn

\* The signatory counters are exact, and no proposal is voted on before everyone
\* appointed to it has signed off.
THEOREM VotingAlwaysRequiresAllSignatures == Spec => []VotingRequiresAllSignatures
<1> DEFINE Signatures == \A p \in Proposals : SignaturesOK(p)
<1>1. Init => Signatures
  <2> SUFFICES ASSUME Init, NEW p \in Proposals PROVE SignaturesOK(p)
    BY Zenon
  <2>1. Appointed(p) = {} /\ Signed(p) = {}
    BY Zenon DEF Init, Appointed, Signed
  <2>2. Cardinality({}) = 0
    BY Zenon, FS_EmptySet
  <2> QED
    BY Zenon, <2>1, <2>2 DEF Init, SignaturesOK
<1>2. TypeOK /\ Lifecycle /\ Signatures /\ [Next]_vars => Signatures'
  BY Zenon, NextSignaturesOK
<1>3. Signatures => VotingRequiresAllSignatures
  <2> SUFFICES ASSUME NEW p \in Proposals, SignaturesOK(p), voting_at[p] # None,
                      NEW s \in Signatories
               PROVE  signatory[p][s] # "Pending"
    BY Zenon DEF SignaturesOK, Appointed, Signed, VotingRequiresAllSignatures
  <2> QED
    BY DEF SignaturesOK, Appointed, Signed
<1> QED
  BY <1>1, <1>2, <1>3, LifecycleInvariant, PTL DEF Spec

-----------------------------------------------------------------------------
(* Executing transactions *)

RanIn(p, o) == {x \in Slots : x[1] = o /\ transaction[p][x].status = "Success"}

\* What a transaction says of its proposal: it belongs to one of the options,
\* and it has run only where ExecutedOnlyIfApproved allows.
TransactionOK(p, x) ==
    LET tx == transaction[p][x]
    IN  /\ tx.status = "Success" <=> tx.executed_at # None
        /\ tx.status # "Absent" => x[1] \in kind[p].options /\ state[p] # "Absent"
        /\ tx.executed_at # None =>
              /\ result[p][x[1]] = "Succeeded"
              /\ state[p] \in {"Executing", "ExecutingWithErrors", "Completed"}
              /\ tx.executed_at > voting_completed_at[p] + tx.hold_up_time

\* The number of transactions of an option is exact.  That of the executed ones
\* may miss nested executions.
CountsOK(p, o) ==
    /\ transactions_count[p][o] = Cardinality(Existing(p, o))
    /\ transactions_executed_count[p][o] <= Cardinality(RanIn(p, o))

\* A completed proposal has run what its electorate approved.
CompletionOK(p) ==
    state[p] = "Completed" /\ kind[p].has_deny =>
        \A x \in Slots :
            result[p][x[1]] = "Succeeded" /\ transaction[p][x].status # "Absent"
                => transaction[p][x].status = "Success"

ExecutionOK(p) ==
    /\ \A x \in Slots : TransactionOK(p, x)
    /\ \A o \in Options : CountsOK(p, o)
    /\ CompletionOK(p)

\* The instructions on the transactions of a proposal.
TransactOn(q) ==
    \/ \E x \in Slots, h \in HoldUpTimes, l \in Payloads :
          InsertTransaction(q, x, h, l)
    \/ \E x \in Slots : RemoveTransaction(q, x)
    \/ Executes(q)

TransactionsUnchanged(q) ==
    UNCHANGED <<transaction[q], transactions_count[q],
                transactions_executed_count[q]>>

\* Transactions can be counted.
LEMMA SlotsFinite ==
  ASSUME NEW S, S \subseteq Slots
  PROVE  IsFiniteSet(S) /\ Cardinality(S) \in Nat
<1>1. IsFiniteSet(Options) /\ IsFiniteSet(0 .. MaxTransactions - 1)
  BY FS_Interval, GovernanceAssumption DEF Options
<1>2. IsFiniteSet(Slots)
  BY Zenon, <1>1, FS_Product DEF Slots
<1>3. IsFiniteSet(S)
  BY Zenon, <1>2, FS_Subset
<1> QED
  BY Zenon, <1>3, FS_CardinalityType

\* The types of what these proofs are about.
LEMMA TransactionTypes ==
  ASSUME TypeOK
  PROVE  /\ transaction \in [Proposals -> [Slots -> Transactions]]
         /\ transactions_count \in [Proposals -> [Options -> Nat]]
         /\ transactions_executed_count \in [Proposals -> [Options -> Nat]]
         /\ state \in [Proposals -> ProposalStates \cup {"Absent"}]
         /\ now \in Nat
  BY Zenon DEF TypeOK, TransactionTypeOK, ProposalTypeOK, RealmTypeOK

\* Nothing else touches the transactions of a proposal.
LEMMA TransactionFrame ==
  ASSUME TypeOK, [Next]_vars, NEW q \in Proposals, ~TransactOn(q)
  PROVE  TransactionsUnchanged(q)
<1>1. CASE RealmNext
  BY Zenon, <1>1
     DEF RealmNext, CreateTokenOwnerRecord, DepositGoverningTokens,
         WithdrawGoverningTokens, CreateProposal, TransactionsUnchanged, txVars
<1>2. CASE DraftNext
  <2>1. PICK p \in Proposals :
           \/ \E s \in Signatories : AddSignatory(p, s) \/ RemoveSignatory(p, s)
           \/ SignOffByOwner(p)
           \/ \E s \in Signatories : SignOffBySignatory(p, s)
           \/ \E x \in Slots, h \in HoldUpTimes, l \in Payloads :
                 InsertTransaction(p, x, h, l)
           \/ \E x \in Slots : RemoveTransaction(p, x)
    BY Zenon, <1>2 DEF DraftNext
  <2>2. CASE \/ \E s \in Signatories : AddSignatory(p, s) \/ RemoveSignatory(p, s)
             \/ SignOffByOwner(p)
             \/ \E s \in Signatories : SignOffBySignatory(p, s)
    BY Zenon, <2>2
       DEF AddSignatory, RemoveSignatory, SignOffByOwner, SignOffBySignatory,
           SignOff, TransactionsUnchanged, txVars
  <2>3. ASSUME NEW x \in Slots,
               \/ \E h \in HoldUpTimes, l \in Payloads :
                     InsertTransaction(p, x, h, l)
               \/ RemoveTransaction(p, x)
        PROVE  TransactionsUnchanged(q)
    <3>1. p # q
      BY Zenon, <2>3 DEF TransactOn
    <3>2. /\ \E tx : transaction' = [transaction EXCEPT ![p][x] = tx]
          /\ \E n : transactions_count' =
                       [transactions_count EXCEPT ![p][x[1]] = n]
          /\ UNCHANGED transactions_executed_count
      BY Zenon, <2>3 DEF InsertTransaction, RemoveTransaction
    <3> QED
      BY Zenon, <3>1, <3>2, TransactionTypes DEF TransactionsUnchanged
  <2> QED
    BY Zenon, <2>1, <2>2, <2>3
<1>3. CASE VoteNext
  <2>1. ASSUME NEW p \in Proposals, NEW t \in TORs, NEW vote \in Votes,
               CastVote(p, t, vote)
        PROVE  UNCHANGED txVars
    BY Zenon, <2>1 DEF CastVote
  <2>2. \A p \in Proposals :
           FinalizeVote(p) \/ CancelProposal(p) => UNCHANGED txVars
    BY Zenon DEF FinalizeVote, CancelProposal
  <2>3. \A p \in Proposals, t \in TORs : RelinquishVote(p, t) => UNCHANGED txVars
    BY Zenon DEF RelinquishVote
  <2>4. UNCHANGED txVars
    BY Zenon, <1>3, <2>1, <2>2, <2>3 DEF VoteNext
  <2> QED
    BY Zenon, <2>4 DEF TransactionsUnchanged, txVars
<1>4. CASE ExecuteNext
  <2>1. PICK p \in Proposals, x \in Slots :
           ExecuteTransaction(p, x) \/ FlagTransactionError(p, x)
    BY Zenon, <1>4 DEF ExecuteNext
  <2>2. p # q
    BY Zenon, <2>1 DEF TransactOn, Executes
  <2>3. CASE ExecuteTransaction(p, x)
    <3>1. /\ \E f : transaction' = [transaction EXCEPT ![p] = f]
          /\ \E f : transactions_executed_count' =
                       [transactions_executed_count EXCEPT ![p] = f]
          /\ UNCHANGED transactions_count
      BY Zenon, <2>3 DEF ExecuteTransaction
    <3> QED
      BY Zenon, <2>2, <3>1, TransactionTypes DEF TransactionsUnchanged
  <2>4. CASE FlagTransactionError(p, x)
    <3>1. /\ transaction' = [transaction EXCEPT ![p][x].status = "Error"]
          /\ UNCHANGED <<transactions_count, transactions_executed_count>>
      BY Zenon, <2>4 DEF FlagTransactionError
    <3> QED
      BY Zenon, <2>2, <3>1, TransactionTypes DEF TransactionsUnchanged
  <2> QED
    BY Zenon, <2>1, <2>3, <2>4
<1>5. CASE EnvironmentNext
  BY Zenon, <1>5
     DEF EnvironmentNext, Tick, MintTokens, BurnTokens, TransactionsUnchanged,
     txVars
<1>6. CASE UNCHANGED vars
  BY Zenon, <1>6 DEF vars, TransactionsUnchanged, txVars
<1> QED
  BY Zenon, <1>1, <1>2, <1>3, <1>4, <1>5, <1>6 DEF Next

\* A vote completes only proposals that have nothing to execute.
LEMMA VoteCompletes ==
  ASSUME TypeOK, NEW p \in Proposals, VoteOn(p), state'[p] = "Completed",
         state[p] # "Completed"
  PROVE  ~kind[p].has_deny /\ kind' = kind
<1>1. state \in [Proposals -> ProposalStates \cup {"Absent"}]
  BY TransactionTypes
<1>2. ASSUME NEW t \in TORs, NEW vote \in Votes, CastVote(p, t, vote)
      PROVE  FALSE
  <2>1. PICK b, max, tipping, threshold, r :
           LET tipped == TryGetTippedVoteState(
                   b, max, tipping, threshold, GetVoteKind(vote))
           IN  \/ UNCHANGED state
               \/ tipped # "Voting" /\ Decide(p, tipped, r, max, threshold)
    BY Zenon, <1>2 DEF CastVote
  <2>2. PICK s \in {"Vetoed", "Succeeded", "Defeated"} :
           state' = [state EXCEPT ![p] = s]
    BY <2>1, TippedVoteStateType DEF Decide
  <2> QED
    BY Zenon, <1>1, <2>2
<1>3. ASSUME NEW t \in TORs, RelinquishVote(p, t)
      PROVE  FALSE
  BY Zenon, <1>3 DEF RelinquishVote
<1>4. CASE FinalizeVote(p)
  <2>1. PICK max, th, r :
           Decide(p, ResolveFinalVoteState(Ballot(p), max, th), r, max, th)
    BY Zenon, <1>4 DEF FinalizeVote
  <2>2. ResolveFinalVoteState(Ballot(p), max, th) = "Completed"
    BY Zenon, <1>1, <2>1 DEF Decide
  <2>3. ~Ballot(p).has_deny
    BY Zenon, <2>2, BallotType DEF ResolveFinalVoteState
  <2>4. kind' = kind
    BY Zenon, <1>4 DEF FinalizeVote, draftVars
  <2> QED
    BY <2>3, <2>4 DEF Ballot
<1>5. CASE CancelProposal(p)
  <2>1. state' = [state EXCEPT ![p] = "Cancelled"]
    BY Zenon, <1>5 DEF CancelProposal
  <2> QED
    BY <1>1, <2>1
<1> QED
  BY Zenon, <1>2, <1>3, <1>4, <1>5 DEF VoteOn

\* What can happen to a proposal that no instruction executes.
LEMMA UnexecutedSteps ==
  ASSUME TypeOK, Lifecycle, [Next]_vars, NEW q \in Proposals, ~Executes(q)
  PROVE  /\ state'[q] = "Absent" => state[q] = "Absent"
         /\ state[q] # "Absent" => kind'[q] = kind[q]
         /\ state[q] \in ProposalStates \ UndecidedStates => state'[q] = state[q]
         /\ state'[q] = "Completed" /\ state[q] # "Completed"
               => VoteOn(q) /\ state[q] # "Absent"
<1>1. /\ state \in [Proposals -> ProposalStates \cup {"Absent"}]
      /\ proposals_count \in Nat /\ q \in Nat
      /\ q > proposals_count => state[q] = "Absent"
  BY GovernanceAssumption
     DEF TypeOK, ProposalTypeOK, RealmTypeOK, Proposals, Lifecycle
<1> USE DEF UndecidedStates, ProposalStates
<1>2. CASE VoteNext
  <2>1. kind' = kind
    <3>1. ASSUME NEW p \in Proposals, NEW t \in TORs, NEW vote \in Votes,
                 CastVote(p, t, vote)
          PROVE  kind' = kind
      BY Zenon, <3>1 DEF CastVote, draftVars
    <3>2. \A p \in Proposals, t \in TORs : RelinquishVote(p, t) => kind' = kind
      BY Zenon DEF RelinquishVote, draftVars
    <3>3. \A p \in Proposals : FinalizeVote(p) \/ CancelProposal(p) => kind' = kind
      BY Zenon DEF FinalizeVote, CancelProposal, draftVars
    <3> QED
      BY Zenon, <1>2, <3>1, <3>2, <3>3 DEF VoteNext
  <2>2. CASE ~VoteOn(q)
    BY <1>2, <2>1, <2>2, VoteFrame
  <2>3. CASE VoteOn(q)
    <3>1. DecideStep(q) \/ OtherStep
      <4>1. \A t \in TORs : RelinquishVote(q, t) => OtherStep
        BY Zenon DEF RelinquishVote, OtherStep, realmVars, draftVars,
           outcomeVars
      <4>2. CancelProposal(q) => DecideStep(q)
        BY Zenon DEF CancelProposal, CanCancel, DecideStep, draftVars,
           voteVars, outcomeVars
      <4> QED
        BY Zenon, <2>3, <4>1, <4>2, CastVoteDecides,
           FinalizeVoteDecides DEF VoteOn
    <3>2. DecideStep(q) => state[q] \in UndecidedStates
                           /\ state'[q] \in ProposalStates \ UndecidedStates
      BY <1>1 DEF DecideStep
    <3>3. OtherStep => state'[q] = state[q]
      BY DEF OtherStep
    <3> QED
      BY <2>1, <2>3, <3>1, <3>2, <3>3
  <2> QED
    BY <2>2, <2>3
<1>3. CASE ~VoteNext
  <2>1. ASSUME NEW t \in TORs, CreateStep(t)
        PROVE  \/ state[q] = "Absent" /\ state'[q] = "Draft"
               \/ state'[q] = state[q] /\ kind'[q] = kind[q]
    BY <1>1, <2>1 DEF CreateStep
  <2>2. ASSUME NEW p \in Proposals, SignStep(p)
        PROVE  /\ kind'[q] = kind[q]
               /\ \/ state'[q] = state[q]
                  \/ /\ state[q] \in {"Draft", "SigningOff"}
                     /\ state'[q] \in {"Draft", "SigningOff", "Voting"}
    BY Zenon, <1>1, <2>2 DEF SignStep
  <2>3. ASSUME NEW p \in Proposals, ExecuteStep(p)
        PROVE  state'[q] = state[q] /\ kind'[q] = kind[q]
    BY Zenon, <1>1, <2>3 DEF ExecuteStep
  <2>4. CASE OtherStep
    BY Zenon, <2>4 DEF OtherStep
  <2>5. \/ state[q] = "Absent" /\ state'[q] = "Draft"
        \/ state'[q] = state[q] /\ kind'[q] = kind[q]
        \/ /\ kind'[q] = kind[q]
           /\ state[q] \in {"Draft", "SigningOff"}
           /\ state'[q] \in {"Draft", "SigningOff", "Voting"}
    BY Zenon, <1>3, <2>1, <2>2, <2>3, <2>4, QuietSteps DEF OtherStep
  <2> QED
    BY Zenon, <2>5
<1> QED
  BY Zenon, <1>2, <1>3

\* A proposal whose transactions are left alone stays in order.
LEMMA FrameExecutionOK ==
  ASSUME TypeOK, Lifecycle, [Next]_vars, NEW p \in Proposals, ExecutionOK(p),
         ~TransactOn(p)
  PROVE  ExecutionOK(p)'
<1>1. TransactionsUnchanged(p) /\ ~Executes(p)
  BY Zenon, TransactionFrame DEF TransactOn
<1>2. /\ state'[p] = "Absent" => state[p] = "Absent"
      /\ state[p] # "Absent" => kind'[p] = kind[p]
      /\ state[p] \in ProposalStates \ UndecidedStates => state'[p] = state[p]
      /\ state'[p] = "Completed" /\ state[p] # "Completed"
            => VoteOn(p) /\ state[p] # "Absent"
  BY Zenon, <1>1, UnexecutedSteps
<1>3. ASSUME state[p] # "Voting"
      PROVE  /\ result'[p] = result[p]
             /\ voting_completed_at'[p] = voting_completed_at[p]
  BY Zenon, <1>3, OutcomeFrame DEF OutcomeUnchanged
<1>4. ASSUME NEW x \in Slots
      PROVE  TransactionOK(p, x)'
  <2>1. TransactionOK(p, x) /\ transaction'[p][x] = transaction[p][x]
    BY Zenon, <1>1 DEF ExecutionOK, TransactionsUnchanged
  <2>2. CASE transaction[p][x].executed_at # None
    <3>1. state[p] \in {"Executing", "ExecutingWithErrors", "Completed"}
      BY Zenon, <2>1, <2>2 DEF TransactionOK
    <3>2. state'[p] = state[p] /\ state[p] # "Absent" /\ state[p] # "Voting"
      BY Zenon, <1>2, <3>1 DEF ProposalStates, UndecidedStates
    <3> QED
      BY Zenon, <1>2, <1>3, <2>1, <3>2 DEF TransactionOK
  <2>3. CASE transaction[p][x].executed_at = None
    BY Zenon, <1>2, <2>1, <2>3 DEF TransactionOK
  <2> QED
    BY Zenon, <2>2, <2>3
<1>5. ASSUME NEW o \in Options
      PROVE  CountsOK(p, o)'
  <2>1. Existing(p, o)' = Existing(p, o) /\ RanIn(p, o)' = RanIn(p, o)
    BY Zenon, <1>1 DEF Existing, RanIn, TransactionsUnchanged
  <2> QED
    BY Zenon, <1>1, <2>1 DEF ExecutionOK, CountsOK, TransactionsUnchanged
<1>6. CompletionOK(p)'
  <2>1. CASE state[p] = "Completed"
    <3>1. kind'[p] = kind[p] /\ result'[p] = result[p]
      BY Zenon, <1>2, <1>3, <2>1
    <3> QED
      BY Zenon, <1>1, <2>1, <3>1 DEF ExecutionOK, CompletionOK,
         TransactionsUnchanged
  <2>2. CASE state[p] # "Completed" /\ state'[p] = "Completed"
    <3>1. ~kind'[p].has_deny
      BY Zenon, <1>2, <2>2, VoteCompletes
    <3> QED
      BY Zenon, <3>1 DEF CompletionOK
  <2> QED
    BY Zenon, <2>1, <2>2 DEF CompletionOK
<1> QED
  BY Zenon, <1>4, <1>5, <1>6 DEF ExecutionOK

\* While a proposal is drafted none of its transactions has run.
LEMMA EditExecutionOK ==
  ASSUME TypeOK, NEW p \in Proposals, ExecutionOK(p), NEW x \in Slots,
         \/ \E h \in HoldUpTimes, l \in Payloads : InsertTransaction(p, x, h, l)
         \/ RemoveTransaction(p, x)
  PROVE  ExecutionOK(p)'
<1>1. /\ state[p] = "Draft"
      /\ UNCHANGED <<state, kind, result, transactions_executed_count>>
  BY Zenon DEF InsertTransaction, RemoveTransaction, CanEditInstructions,
     draftVars, voteVars, outcomeVars
<1>2. \A y \in Slots : TransactionOK(p, y) /\ transaction[p][y].executed_at = None
                       /\ transaction[p][y].status # "Success"
  BY <1>1 DEF ExecutionOK, TransactionOK
<1>3. x[1] \in Options /\ IsFiniteSet(Existing(p, x[1]))
  BY SlotsFinite DEF Slots, Existing
<1> DEFINE tx == transaction'[p][x]
<1>4. ASSUME NEW h \in HoldUpTimes, NEW l \in Payloads, InsertTransaction(p, x,
h, l)
      PROVE  /\ transaction' = [transaction EXCEPT
                   ![p][x] = [status |-> "None", hold_up_time |-> h,
                              executed_at |-> None, payload |-> l]]
             /\ x[1] \in kind[p].options
  BY Zenon, <1>4 DEF InsertTransaction
<1>5. /\ tx.executed_at = None /\ tx.status \in {"None", "Absent"}
      /\ tx.status = "None" => x[1] \in kind[p].options
      /\ \A y \in Slots : y # x => transaction'[p][y] = transaction[p][y]
  <2>1. CASE RemoveTransaction(p, x)
    <3>1. transaction' = [transaction EXCEPT ![p][x] = NoTransaction]
      BY Zenon, <2>1 DEF RemoveTransaction
    <3> QED
      BY Zenon, <3>1, TransactionTypes DEF NoTransaction
  <2>2. CASE \E h \in HoldUpTimes, l \in Payloads : InsertTransaction(p, x, h, l)
    BY <1>4, <2>2, TransactionTypes
  <2> QED
    BY Zenon, <2>1, <2>2
<1>6. ASSUME NEW y \in Slots
      PROVE  TransactionOK(p, y)'
  <2>1. CASE y = x
    BY Zenon, <1>1, <1>5, <2>1 DEF TransactionOK
  <2>2. CASE y # x
    BY Zenon, <1>1, <1>2, <1>5, <2>2 DEF TransactionOK
  <2> QED
    BY Zenon, <2>1, <2>2
<1>7. ASSUME NEW o \in Options
      PROVE  CountsOK(p, o)'
  <2>1. RanIn(p, o)' = RanIn(p, o)
    BY Zenon, <1>2, <1>5 DEF RanIn
  <2>2. transactions_count'[p][o] = Cardinality(Existing(p, o)')
    <3>1. CASE o # x[1]
      <4>1. Existing(p, o)' = Existing(p, o)
        BY Zenon, <1>5, <3>1 DEF Existing
      <4>2. transactions_count'[p][o] = transactions_count[p][o]
        BY <1>3, <3>1, TransactionTypes DEF InsertTransaction, RemoveTransaction
      <4> QED
        BY Zenon, <4>1, <4>2 DEF ExecutionOK, CountsOK
    <3>2. CASE o = x[1] /\ \E h \in HoldUpTimes, l \in Payloads :
                              InsertTransaction(p, x, h, l)
      <4>1. /\ transaction[p][x].status = "Absent"
            /\ transactions_count' = [transactions_count EXCEPT ![p][o] = @ + 1]
            /\ tx.status = "None"
        BY <1>5, <3>2, TransactionTypes DEF InsertTransaction
      <4>2. Existing(p, o)' = Existing(p, o) \cup {x} /\ x \notin Existing(p, o)
        BY Zenon, <1>5, <3>2, <4>1 DEF Existing
      <4>3. Cardinality(Existing(p, o)') = Cardinality(Existing(p, o)) + 1
        BY Zenon, <1>3, <3>2, <4>2, FS_AddElement
      <4>4. transactions_count'[p][o] = transactions_count[p][o] + 1
        BY Zenon, <4>1, TransactionTypes
      <4> QED
        BY Zenon, <4>3, <4>4 DEF ExecutionOK, CountsOK
    <3>3. CASE o = x[1] /\ RemoveTransaction(p, x)
      <4>1. /\ transaction[p][x].status # "Absent"
            /\ transactions_count' = [transactions_count EXCEPT ![p][o] = @ - 1]
            /\ tx.status = "Absent"
        BY <1>5, <3>3, TransactionTypes DEF RemoveTransaction, NoTransaction
      <4>2. Existing(p, o)' = Existing(p, o) \ {x} /\ x \in Existing(p, o)
        BY Zenon, <1>5, <3>3, <4>1 DEF Existing
      <4>3. Cardinality(Existing(p, o)') = Cardinality(Existing(p, o)) - 1
        BY Zenon, <1>3, <3>3, <4>2, FS_RemoveElement
      <4>4. transactions_count'[p][o] = transactions_count[p][o] - 1
        BY Zenon, <4>1, TransactionTypes
      <4> QED
        BY Zenon, <4>3, <4>4 DEF ExecutionOK, CountsOK
    <3> QED
      BY Zenon, <3>1, <3>2, <3>3
  <2> QED
    BY Zenon, <1>1, <2>1, <2>2 DEF ExecutionOK, CountsOK
<1>8. CompletionOK(p)'
  BY Zenon, <1>1 DEF CompletionOK
<1> QED
  BY Zenon, <1>6, <1>7, <1>8 DEF ExecutionOK

\* Flagging an error leaves a transaction that has not run.
LEMMA FlagExecutionOK ==
  ASSUME TypeOK, NEW p \in Proposals, ExecutionOK(p), NEW x \in Slots,
         FlagTransactionError(p, x)
  PROVE  ExecutionOK(p)'
<1>1. /\ state[p] \in ApprovedStates /\ transaction[p][x].status # "Absent"
      /\ transaction[p][x].executed_at = None
      /\ state' = [state EXCEPT ![p] = "ExecutingWithErrors"]
      /\ transaction' = [transaction EXCEPT ![p][x].status = "Error"]
      /\ UNCHANGED <<kind, result, voting_completed_at, transactions_count,
                     transactions_executed_count>>
  BY Zenon DEF FlagTransactionError, CanExecute, draftVars, voteVars, outcomeVars
<1>2. state'[p] = "ExecutingWithErrors" /\ state[p] # "Absent"
  BY <1>1, TransactionTypes DEF ApprovedStates
<1>3. /\ transaction'[p][x] = [transaction[p][x] EXCEPT !.status = "Error"]
      /\ \A y \in Slots : y # x => transaction'[p][y] = transaction[p][y]
  BY <1>1, TransactionTypes
<1>4. transaction[p][x] \in Transactions
  BY TransactionTypes
<1>5. /\ transaction'[p][x].status = "Error"
      /\ transaction'[p][x].executed_at = None
  BY <1>1, <1>3, <1>4 DEF Transactions
<1>6. \A y \in Slots : TransactionOK(p, y)
  BY Zenon DEF ExecutionOK
<1>7. transaction[p][x].status # "Success"
  BY Zenon, <1>1, <1>6 DEF TransactionOK
<1>8. ASSUME NEW y \in Slots
      PROVE  TransactionOK(p, y)'
  <2>1. CASE y = x
    BY Zenon, <1>1, <1>2, <1>5, <1>6, <2>1 DEF TransactionOK
  <2>2. CASE y # x
    BY Zenon, <1>1, <1>2, <1>3, <1>6, <2>2 DEF TransactionOK
  <2> QED
    BY Zenon, <2>1, <2>2
<1>9. ASSUME NEW o \in Options
      PROVE  CountsOK(p, o)'
  <2>1. Existing(p, o)' = Existing(p, o)
    BY Zenon, <1>1, <1>3, <1>5 DEF Existing
  <2>2. RanIn(p, o)' = RanIn(p, o)
    BY Zenon, <1>3, <1>5, <1>7 DEF RanIn
  <2> QED
    BY Zenon, <1>1, <2>1, <2>2 DEF ExecutionOK, CountsOK
<1>10. CompletionOK(p)'
  BY Zenon, <1>2 DEF CompletionOK
<1> QED
  BY Zenon, <1>8, <1>9, <1>10 DEF ExecutionOK

\* What ExecuteTransaction writes: the transaction and the one nested in it have
\* run, and the executed transactions of its option are one more.
LEMMA ExecuteEffect ==
  ASSUME TypeOK, NEW p \in Proposals, NEW x \in Slots, ExecuteTransaction(p, x)
  PROVE  LET X == {x, Innermost(p, x)} \cap Slots
         IN  /\ \A y \in X :
                   /\ CanExecute(p, y)
                   /\ transaction'[p][y].status = "Success"
                   /\ transaction'[p][y].executed_at = now
                   /\ transaction'[p][y].hold_up_time
                         = transaction[p][y].hold_up_time
             /\ \A y \in Slots \ X : transaction'[p][y] = transaction[p][y]
<1> DEFINE X == {x, Innermost(p, x)} \cap Slots
<1>1. /\ CanExecute(p, x) /\ NestingAllowed(p, x)
      /\ transaction' = [transaction EXCEPT
            ![p] = [y \in Slots |-> IF y \in {x, Innermost(p, x)}
                                    THEN Executed(@[y]) ELSE @[y]]]
  BY Zenon DEF ExecuteTransaction
<1>2. \A y \in X : CanExecute(p, y)
  BY Zenon, <1>1 DEF NestingAllowed, Innermost
<1>3. \A y \in Slots : transaction'[p][y] =
         IF y \in {x, Innermost(p, x)} THEN Executed(transaction[p][y])
                                       ELSE transaction[p][y]
  BY Zenon, <1>1, TransactionTypes
<1>4. \A y \in Slots : transaction[p][y] \in Transactions
  BY Zenon, TransactionTypes
<1>5. \A tx \in Transactions : /\ Executed(tx).status = "Success"
                               /\ Executed(tx).executed_at = now
                               /\ Executed(tx).hold_up_time = tx.hold_up_time
  BY Zenon DEF Executed, Transactions
<1>6. \A y \in X : transaction'[p][y] = Executed(transaction[p][y])
  BY Zenon, <1>3
<1>7. \A y \in Slots \ X : transaction'[p][y] = transaction[p][y]
  BY Zenon, <1>3
<1> QED
  BY Zenon, <1>2, <1>4, <1>5, <1>6, <1>7

\* A proposal that ExecuteTransaction completes has no transaction left to run.
LEMMA ExecuteExecutionOK ==
  ASSUME TypeOK, NEW p \in Proposals, ExecutionOK(p), NEW x \in Slots,
         ExecuteTransaction(p, x)
  PROVE  ExecutionOK(p)'
<1> DEFINE executed == [transactions_executed_count[p] EXCEPT ![x[1]] = @ + 1]
           X == {x, Innermost(p, x)} \cap Slots
<1>1. /\ transactions_executed_count' =
            [transactions_executed_count EXCEPT ![p] = executed]
      /\ state' = [state EXCEPT
            ![p] = IF AllExecuted(p, executed) THEN "Completed"
                   ELSE IF @ = "Succeeded" THEN "Executing" ELSE @]
      /\ UNCHANGED <<kind, result, voting_completed_at, transactions_count>>
  BY Zenon DEF ExecuteTransaction, draftVars, voteVars, outcomeVars
<1>2. /\ \A y \in X :
            /\ CanExecute(p, y)
            /\ transaction'[p][y].status = "Success"
            /\ transaction'[p][y].executed_at = now
            /\ transaction'[p][y].hold_up_time = transaction[p][y].hold_up_time
      /\ \A y \in Slots \ X : transaction'[p][y] = transaction[p][y]
      /\ x \in X /\ X \subseteq Slots
  BY Zenon, ExecuteEffect
<1> HIDE DEF X
<1>3. \A y \in Slots : TransactionOK(p, y)
  BY Zenon DEF ExecutionOK
<1>4. state[p] \in ApprovedStates
  BY Zenon, <1>2 DEF CanExecute
<1>5. /\ state'[p] \in {"Executing", "ExecutingWithErrors", "Completed"}
      /\ state'[p] = "Completed" => AllExecuted(p, executed)
  BY Zenon, <1>1, <1>4, TransactionTypes DEF ApprovedStates
<1>6. x[1] \in Options /\ now \in Nat
  BY Zenon, TransactionTypes DEF Slots
<1>7. \A o \in Options :
         transactions_executed_count'[p][o] = executed[o]
         /\ executed[o] = IF o = x[1] THEN transactions_executed_count[p][o] + 1
                                      ELSE transactions_executed_count[p][o]
  BY Zenon, <1>1, <1>6, TransactionTypes
<1> HIDE DEF executed
<1>8. \A y \in X : /\ transaction[p][y].status # "Absent"
                   /\ transaction[p][y].status # "Success"
                   /\ result[p][y[1]] = "Succeeded"
                   /\ voting_completed_at[p] + transaction[p][y].hold_up_time < now
  BY Zenon, <1>2, <1>3 DEF CanExecute, TransactionOK
<1>9. ASSUME NEW y \in Slots
      PROVE  TransactionOK(p, y)'
  <2>1. CASE y \in X
    <3>1. /\ x \in X /\ now # None /\ y[1] \in kind[p].options
          /\ state'[p] # "Absent"
      BY <1>2, <1>3, <1>5, <1>6, <1>8, <2>1 DEF None, TransactionOK
    <3>2. now > voting_completed_at[p] + transaction[p][y].hold_up_time
      <4>1. /\ voting_completed_at[p] \in Int
            /\ transaction[p][y].hold_up_time \in Int
        BY TransactionTypes DEF TypeOK, VoteTypeOK, None, Transactions
      <4> QED
        BY Zenon, <1>6, <1>8, <2>1, <4>1
    <3> QED
      BY Zenon, <1>1, <1>2, <1>5, <1>8, <2>1, <3>1, <3>2 DEF TransactionOK
  <2>2. CASE y \notin X
    <3>1. transaction'[p][y] = transaction[p][y]
      BY Zenon, <1>2, <2>2
    <3>2. state'[p] # "Absent"
      BY Zenon, <1>5
    <3> QED
      BY Zenon, <1>1, <1>3, <1>5, <3>1, <3>2 DEF TransactionOK
  <2> QED
    BY Zenon, <2>1, <2>2
<1>10. ASSUME NEW o \in Options
       PROVE  /\ Existing(p, o)' = Existing(p, o)
              /\ transactions_executed_count'[p][o] <= Cardinality(RanIn(p, o)')
  <2>1. Existing(p, o)' = Existing(p, o)
    BY Zenon, <1>2, <1>8 DEF Existing
  <2>2. RanIn(p, o) \subseteq RanIn(p, o)'
    BY Zenon, <1>2, <1>8 DEF RanIn
  <2>3. /\ IsFiniteSet(RanIn(p, o)) /\ IsFiniteSet(RanIn(p, o)')
        /\ Cardinality(RanIn(p, o)) \in Nat /\ Cardinality(RanIn(p, o)') \in Nat
    BY Zenon, SlotsFinite DEF RanIn
  <2>4. /\ transactions_executed_count[p][o] \in Nat
        /\ transactions_executed_count[p][o] <= Cardinality(RanIn(p, o))
    BY Zenon, TransactionTypes DEF ExecutionOK, CountsOK
  <2>5. CASE o # x[1]
    <3>1. Cardinality(RanIn(p, o)) <= Cardinality(RanIn(p, o)')
      BY Zenon, <2>2, <2>3, FS_Subset
    <3> QED
      BY <1>7, <2>1, <2>3, <2>4, <2>5, <3>1
  <2>6. CASE o = x[1]
    <3>1. RanIn(p, o) \cup {x} \subseteq RanIn(p, o)' /\ x \notin RanIn(p, o)
      BY Zenon, <1>2, <1>8, <2>2, <2>6 DEF RanIn
    <3>2. Cardinality(RanIn(p, o) \cup {x}) = Cardinality(RanIn(p, o)) + 1
      BY Zenon, <2>3, <3>1, FS_AddElement
    <3>3. Cardinality(RanIn(p, o) \cup {x}) <= Cardinality(RanIn(p, o)')
      BY Zenon, <2>3, <3>1, FS_Subset
    <3> QED
      BY <1>7, <2>1, <2>3, <2>4, <2>6, <3>2, <3>3
  <2> QED
    BY Zenon, <2>5, <2>6
<1>11. \A o \in Options : CountsOK(p, o)'
  BY Zenon, <1>1, <1>10 DEF ExecutionOK, CountsOK
<1>12. CompletionOK(p)'
  <2> SUFFICES ASSUME state'[p] = "Completed", NEW y \in Slots,
                      result'[p][y[1]] = "Succeeded",
                      transaction'[p][y].status # "Absent"
               PROVE  transaction'[p][y].status = "Success"
    BY Zenon DEF CompletionOK
  <2> DEFINE o == y[1]
  <2>1. o \in Options /\ o \in kind[p].options
    BY Zenon, <1>1, <1>9 DEF TransactionOK, Slots
  <2>2. executed[o] = transactions_count[p][o]
    BY Zenon, <1>1, <1>5, <2>1 DEF AllExecuted
  <2>3. Cardinality(Existing(p, o)') <= Cardinality(RanIn(p, o)')
    BY <1>7, <1>10, <2>1, <2>2 DEF ExecutionOK, CountsOK
  <2>4. RanIn(p, o)' \subseteq Existing(p, o)' /\ y \in Existing(p, o)'
    BY Zenon DEF RanIn, Existing
  <2>5. /\ IsFiniteSet(Existing(p, o)') /\ Cardinality(Existing(p, o)') \in Nat
        /\ Cardinality(RanIn(p, o)') \in Nat
    BY Zenon, SlotsFinite DEF RanIn, Existing
  <2>6. Cardinality(RanIn(p, o)') <= Cardinality(Existing(p, o)')
    BY Zenon, <2>4, <2>5, FS_Subset
  <2>7. Cardinality(Existing(p, o)') = Cardinality(RanIn(p, o)')
    BY <2>3, <2>5, <2>6
  <2>8. y \in RanIn(p, o)'
    BY Zenon, <2>4, <2>5, <2>7, FS_Subset
  <2> QED
    BY Zenon, <2>8 DEF RanIn
<1> QED
  BY Zenon, <1>9, <1>11, <1>12 DEF ExecutionOK

\* The invariant of the executions.
Executions == \A p \in Proposals : ExecutionOK(p)

\* Initially there are no transactions.
LEMMA InitExecutions == Init => Executions
<1> SUFFICES ASSUME Init, NEW p \in Proposals PROVE ExecutionOK(p)
  BY Zenon DEF Executions
<1>1. \A x \in Slots : transaction[p][x] = NoTransaction
  BY Zenon DEF Init
<1>2. \A x \in Slots : TransactionOK(p, x)
  BY <1>1 DEF TransactionOK, NoTransaction
<1>3. ASSUME NEW o \in Options
      PROVE  CountsOK(p, o)
  <2>1. Existing(p, o) = {} /\ RanIn(p, o) = {}
    BY <1>1 DEF Existing, RanIn, NoTransaction
  <2>2. Cardinality({}) = 0
    BY Zenon, FS_EmptySet
  <2> QED
    BY <2>1, <2>2 DEF Init, CountsOK
<1>4. CompletionOK(p)
  BY Zenon DEF Init, CompletionOK
<1> QED
  BY Zenon, <1>2, <1>3, <1>4 DEF ExecutionOK

\* Transactions are counted, run as approved, and complete their proposal.
LEMMA ExecutionsAlwaysOK == Spec => []Executions
<1>1. TypeOK /\ Lifecycle /\ Executions /\ [Next]_vars => Executions'
  BY Zenon, FrameExecutionOK, EditExecutionOK, FlagExecutionOK, ExecuteExecutionOK
     DEF Executions, TransactOn, Executes
<1> QED
  BY <1>1, InitExecutions, LifecycleInvariant, PTL DEF Spec

\* A transaction only ever runs when its own option succeeded and its hold up
\* time has passed since the decision, nested executions included.
THEOREM ExecutedAlwaysApproved == Spec => []ExecutedOnlyIfApproved
<1>1. Executions => ExecutedOnlyIfApproved
  BY DEF Executions, ExecutionOK, TransactionOK, ExecutedOnlyIfApproved
<1> QED
  BY <1>1, ExecutionsAlwaysOK, PTL

\* An executable proposal is Completed only when every transaction its
\* electorate approved has run, although nested executions are not counted.
THEOREM CompletedAlwaysExecuted == Spec => []CompletedMeansAllExecuted
<1>1. Executions => CompletedMeansAllExecuted
  BY DEF Executions, ExecutionOK, CompletionOK, CompletedMeansAllExecuted, Ran
<1> QED
  BY <1>1, ExecutionsAlwaysOK, PTL

-----------------------------------------------------------------------------
(* Refinement of ProposalOutcome *)

\* Only ExecuteTransaction makes transactions run, and nothing undoes a run.
LEMMA RanUnchanged ==
  ASSUME TypeOK, Executions, Executions', [Next]_vars, NEW q \in Proposals,
         ~\E x \in Slots : ExecuteTransaction(q, x)
  PROVE  Ran(q)' = Ran(q)
<1>1. CASE ~TransactOn(q)
  BY Zenon, <1>1, TransactionFrame DEF TransactionsUnchanged, Ran
<1>2. CASE \/ \E x \in Slots, h \in HoldUpTimes, l \in Payloads :
                 InsertTransaction(q, x, h, l)
           \/ \E x \in Slots : RemoveTransaction(q, x)
  <2>1. state[q] = "Draft" /\ state'[q] = "Draft"
    BY Zenon, <1>2 DEF InsertTransaction, RemoveTransaction, CanEditInstructions
  <2>2. \A x \in Slots : transaction[q][x].status # "Success"
    BY <2>1 DEF Executions, ExecutionOK, TransactionOK
  <2>3. \A x \in Slots : transaction'[q][x].status # "Success"
    BY <2>1 DEF Executions, ExecutionOK, TransactionOK
  <2> QED
    BY Zenon, <2>2, <2>3 DEF Ran
<1>3. ASSUME NEW x \in Slots, FlagTransactionError(q, x)
      PROVE  Ran(q)' = Ran(q)
  <2>1. /\ transaction[q][x].executed_at = None
        /\ transaction' = [transaction EXCEPT ![q][x].status = "Error"]
    BY Zenon, <1>3 DEF FlagTransactionError, CanExecute
  <2>2. transaction[q][x].status # "Success"
    BY Zenon, <2>1 DEF Executions, ExecutionOK, TransactionOK
  <2>3. \A y \in Slots : y # x => transaction'[q][y] = transaction[q][y]
    BY Zenon, <2>1, TransactionTypes
  <2>4. transaction'[q][x] = [transaction[q][x] EXCEPT !.status = "Error"]
    BY Zenon, <2>1, TransactionTypes
  <2>5. transaction[q][x] \in Transactions
    BY Zenon, TransactionTypes
  <2>6. transaction'[q][x].status = "Error"
    BY Zenon, <2>4, <2>5 DEF Transactions
  <2> QED
    BY Zenon, <2>2, <2>3, <2>6 DEF Ran
<1> QED
  BY Zenon, <1>1, <1>2, <1>3 DEF TransactOn, Executes

\* A step of one proposal that runs nothing is a move of its phase.
LEMMA MovesPhase ==
  ASSUME TypeOK, NEW p \in Proposals, NEW s, state' = [state EXCEPT ![p] = s],
         \A q \in Proposals : Ran(q)' = Ran(q)
  PROVE  Outcome!Move(p, Phase(state[p]), Phase(s))
<1>1. state'[p] = s /\ \A q \in Proposals \ {p} : state'[q] = state[q]
  BY Zenon, TransactionTypes
<1>2. [q \in Proposals |-> Phase(state[q])]' =
         [[q \in Proposals |-> Phase(state[q])] EXCEPT ![p] = Phase(s)]
  <2>1. \A q \in Proposals :
           Phase(state'[q]) = IF q = p THEN Phase(s) ELSE Phase(state[q])
    BY <1>1
  <2> QED
    BY Zenon, <2>1
<1>3. [q \in Proposals |-> Ran(q)]' = [q \in Proposals |-> Ran(q)]
  BY Zenon
<1> QED
  BY Zenon, <1>2, <1>3 DEF Outcome!Move

\* A step that leaves the phase and what has run alone is not seen.
LEMMA KeepsPhase ==
  ASSUME \A q \in Proposals : Phase(state'[q]) = Phase(state[q]),
         \A q \in Proposals : Ran(q)' = Ran(q)
  PROVE  UNCHANGED Outcome!outcomeVars
  BY Zenon DEF Outcome!outcomeVars

\* ExecuteTransaction runs transactions that had not run.
LEMMA ExecuteRuns ==
  ASSUME TypeOK, Executions, NEW p \in Proposals, NEW x \in Slots,
         ExecuteTransaction(p, x)
  PROVE  Outcome!Next
<1> DEFINE X == {x, Innermost(p, x)} \cap Slots
<1>1. /\ state[p] \in ApprovedStates
      /\ \E s \in {"Completed", "Executing", state[p]} :
             state' = [state EXCEPT ![p] = s]
  BY Zenon DEF ExecuteTransaction, CanExecute, TypeOK, ProposalTypeOK
<1>2. \E f : transaction' = [transaction EXCEPT ![p] = f]
  BY Zenon DEF ExecuteTransaction
<1>3. \A q \in Proposals \ {p} : state'[q] = state[q]
                                 /\ transaction'[q] = transaction[q]
  BY Zenon, <1>1, <1>2, TransactionTypes
<1>4. /\ \A y \in X : CanExecute(p, y) /\ transaction'[p][y].status = "Success"
      /\ \A y \in Slots \ X : transaction'[p][y] = transaction[p][y]
  BY Zenon, ExecuteEffect
<1>5. x \in X /\ X \in SUBSET Slots
  BY Zenon
<1> HIDE DEF X
<1>6. \A y \in X : transaction[p][y].status # "Success"
  BY <1>4, <1>5 DEF CanExecute, Executions, ExecutionOK, TransactionOK
<1>7. Ran(p)' = Ran(p) \cup X /\ X \cap Ran(p) = {}
  BY Zenon, <1>4, <1>5, <1>6 DEF Ran
<1>8. \A q \in Proposals \ {p} : Ran(q)' = Ran(q)
  BY Zenon, <1>3 DEF Ran
<1>9. Phase(state[p]) = "Approved" /\ Phase(state'[p]) \in {"Approved", "Closed"}
  BY Zenon, <1>1, TransactionTypes DEF Phase, ApprovedStates
<1>10. [q \in Proposals |-> Phase(state[q])]' \in
          {[q \in Proposals |-> Phase(state[q])],
           [[q \in Proposals |-> Phase(state[q])] EXCEPT ![p] = "Closed"]}
  BY Zenon, <1>3, <1>9
<1>11. [q \in Proposals |-> Ran(q)]' =
          [[q \in Proposals |-> Ran(q)] EXCEPT ![p] = @ \cup X]
  BY Zenon, <1>7, <1>8
<1>12. Outcome!Run(p, X)
  BY Zenon, <1>5, <1>7, <1>9, <1>10, <1>11 DEF Outcome!Run
<1> QED
  BY Zenon, <1>5, <1>12 DEF Outcome!Next

\* A vote approves or rejects its proposal, or leaves it open.
LEMMA VoteMoves ==
  ASSUME TypeOK, VoteNext, \A q \in Proposals : Ran(q)' = Ran(q)
  PROVE  Outcome!Next \/ UNCHANGED Outcome!outcomeVars
<1>1. ASSUME NEW p \in Proposals, state[p] = "Voting", DecideStep(p)
      PROVE  Outcome!Next
  <2>1. PICK s \in ProposalStates \ UndecidedStates : state' = [state EXCEPT ![p] = s]
    BY Zenon, <1>1 DEF DecideStep
  <2>2. Phase(state[p]) = "Voting" /\ Phase(s) \in {"Approved", "Closed"}
    BY Zenon, <1>1 DEF Phase, ProposalStates, UndecidedStates, ApprovedStates
  <2>3. Outcome!Approve(p) \/ Outcome!Reject(p)
    BY Zenon, <2>1, <2>2, MovesPhase DEF Outcome!Approve, Outcome!Reject
  <2> QED
    BY Zenon, <2>3 DEF Outcome!Next
<1>2. ASSUME NEW p \in Proposals, CancelProposal(p)
      PROVE  Outcome!Next
  <2>1. /\ state[p] \in UndecidedStates
        /\ state' = [state EXCEPT ![p] = "Cancelled"]
    BY Zenon, <1>2 DEF CancelProposal, CanCancel, UndecidedStates
  <2>2. Phase(state[p]) \in {"Preparing",
  "Voting"} /\ Phase("Cancelled") = "Closed"
    BY Zenon, <2>1 DEF Phase, UndecidedStates, ApprovedStates
  <2>3. Outcome!Abandon(p) \/ Outcome!Reject(p)
    BY Zenon, <2>1, <2>2, MovesPhase DEF Outcome!Abandon, Outcome!Reject
  <2> QED
    BY Zenon, <2>3 DEF Outcome!Next
<1>3. OtherStep => UNCHANGED Outcome!outcomeVars
  BY Zenon, KeepsPhase DEF OtherStep
<1>4. \A p \in Proposals, t \in TORs : RelinquishVote(p, t) => OtherStep
  BY Zenon DEF RelinquishVote, OtherStep, realmVars, draftVars,
     outcomeVars
<1>5. ASSUME NEW p \in Proposals, NEW t \in TORs, NEW vote \in Votes,
             CastVote(p, t, vote)
      PROVE  state[p] = "Voting"
  BY Zenon, <1>5 DEF CastVote, CanCastVote
<1>6. \A p \in Proposals : FinalizeVote(p) => state[p] = "Voting"
  BY Zenon DEF FinalizeVote, CanFinalizeVote
<1> QED
  BY Zenon, <1>1, <1>2, <1>3, <1>4, <1>5, <1>6, CastVoteDecides,
     FinalizeVoteDecides DEF VoteNext

\* Everything else opens a proposal, starts its vote, or is not seen.
LEMMA QuietMoves ==
  ASSUME TypeOK, Lifecycle, [Next]_vars, ~VoteNext,
         \A q \in Proposals : Ran(q)' = Ran(q),
         \A p \in Proposals, x \in Slots : ~ExecuteTransaction(p, x)
  PROVE  Outcome!Next \/ UNCHANGED Outcome!outcomeVars
<1>1. ASSUME NEW t \in TORs, CreateStep(t)
      PROVE  Outcome!Next
  <2>1. PICK p \in Proposals : p = proposals_count + 1
                               /\ state' = [state EXCEPT ![p] = "Draft"]
    BY Zenon, <1>1 DEF CreateStep
  <2>2. state[p] = "Absent"
    BY <2>1, GovernanceAssumption DEF Lifecycle, TypeOK, RealmTypeOK
  <2>3. Phase(state[p]) = "Absent" /\ Phase("Draft") = "Preparing"
    BY Zenon, <2>2 DEF Phase, ApprovedStates
  <2>4. Outcome!Open(p)
    BY Zenon, <2>1, <2>3, MovesPhase DEF Outcome!Open
  <2> QED
    BY Zenon, <2>4 DEF Outcome!Next
<1>2. ASSUME NEW p \in Proposals, SignStep(p)
      PROVE  Outcome!Next \/ UNCHANGED Outcome!outcomeVars
  <2>1. PICK s \in {"Draft", "SigningOff",
  "Voting"} : state' = [state EXCEPT ![p] = s]
    BY Zenon, <1>2 DEF SignStep
  <2>2. Phase(state[p]) = "Preparing"
    BY Zenon, <1>2 DEF SignStep, Phase, ApprovedStates
  <2>3. CASE s = "Voting"
    <3>1. Phase(s) = "Voting"
      BY Zenon, <2>3 DEF Phase, ApprovedStates
    <3>2. Outcome!StartVote(p)
      BY Zenon, <2>1, <2>2, <3>1, MovesPhase DEF Outcome!StartVote
    <3> QED
      BY Zenon, <3>2 DEF Outcome!Next
  <2>4. CASE s # "Voting"
    <3>1. Phase(s) = "Preparing"
      BY Zenon, <2>1, <2>4 DEF Phase, ApprovedStates
    <3>2. \A q \in Proposals : Phase(state'[q]) = Phase(state[q])
      BY Zenon, <2>1, <2>2, <3>1, TransactionTypes
    <3> QED
      BY Zenon, <3>2, KeepsPhase
  <2> QED
    BY Zenon, <2>3, <2>4
<1>3. ASSUME NEW p \in Proposals, ExecuteStep(p)
      PROVE  UNCHANGED Outcome!outcomeVars
  <2>1. PICK x \in Slots : FlagTransactionError(p, x)
    BY Zenon, <1>3 DEF ExecuteStep, Executes
  <2>2. /\ state[p] \in ApprovedStates
        /\ state' = [state EXCEPT ![p] = "ExecutingWithErrors"]
    BY Zenon, <2>1 DEF FlagTransactionError, CanExecute
  <2>3. Phase("ExecutingWithErrors") = "Approved" /\ Phase(state[p]) = "Approved"
    BY Zenon, <2>2 DEF Phase, ApprovedStates
  <2>4. \A q \in Proposals : Phase(state'[q]) = Phase(state[q])
    BY Zenon, <2>2, <2>3, TransactionTypes
  <2> QED
    BY Zenon, <2>4, KeepsPhase
<1>4. OtherStep => UNCHANGED Outcome!outcomeVars
  BY Zenon, KeepsPhase DEF OtherStep
<1> QED
  BY Zenon, <1>1, <1>2, <1>3, <1>4, QuietSteps

\* Every instruction is a step of ProposalOutcome or invisible in it: closed
\* proposals stay closed, and transactions run only while their proposal is
\* approved and at most once.
THEOREM OutcomeImplemented == Spec => ImplementsOutcome
<1>1. Init => Outcome!Init
  <2> SUFFICES ASSUME Init, NEW p \in Proposals
               PROVE  Phase(state[p]) = "Absent" /\ Ran(p) = {}
    BY Zenon DEF Outcome!Init
  <2>1. state[p] = "Absent" /\ \A x \in Slots : transaction[p][x] = NoTransaction
    BY Zenon DEF Init
  <2> QED
    BY <2>1 DEF Phase, ApprovedStates, Ran, NoTransaction
<1>2. TypeOK /\ Lifecycle /\ Executions /\ Executions' /\ [Next]_vars
         => [Outcome!Next]_Outcome!outcomeVars
  <2> SUFFICES ASSUME TypeOK, Lifecycle, Executions, Executions', [Next]_vars
               PROVE  Outcome!Next \/ UNCHANGED Outcome!outcomeVars
    BY Zenon
  <2>1. CASE \E p \in Proposals, x \in Slots : ExecuteTransaction(p, x)
    BY Zenon, <2>1, ExecuteRuns
  <2>2. CASE ~\E p \in Proposals, x \in Slots : ExecuteTransaction(p, x)
    <3>1. \A q \in Proposals : Ran(q)' = Ran(q)
      BY Zenon, <2>2, RanUnchanged
    <3> QED
      BY Zenon, <2>2, <3>1, VoteMoves, QuietMoves
  <2> QED
    BY <2>1, <2>2
<1> QED
  BY <1>1, <1>2, LifecycleInvariant, ExecutionsAlwaysOK, PTL
     DEF Spec, ImplementsOutcome, Outcome!Spec
==============================================================================
