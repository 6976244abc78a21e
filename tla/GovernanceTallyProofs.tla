--------------------------- MODULE GovernanceTallyProofs --------------------
(* That the tallies of Governance count the votes, and stay within the tokens *)
(* that were deposited, for every set of proposals, members and options.      *)
EXTENDS GovernanceProofs, Sums

-----------------------------------------------------------------------------
(* Threshold and tipping *)

\* get_min_vote_threshold_weight returns a weight.
LEMMA MinWeightType ==
  ASSUME NEW pct \in Nat, NEW max \in Nat
  PROVE  GetMinVoteThresholdWeight(pct, max) \in Nat
<1>1. pct * max \in Nat
  BY Zenon, ProductIsNat
<1> QED
  BY <1>1 DEF GetMinVoteThresholdWeight

\* get_min_vote_threshold_weight returns the least weight that is at least the
\* percentage of the max voter weight: the division is rounded up and never
\* one too far.
THEOREM ThresholdIsLeast ==
  ASSUME NEW pct \in Nat, NEW max \in Nat, NEW w \in Nat
  PROVE  w >= GetMinVoteThresholdWeight(pct, max) <=> 100 * w >= pct * max
<1>1. pct * max \in Nat
  BY Zenon, ProductIsNat
<1>2. ASSUME NEW n \in Nat
      PROVE  LET min == IF (n \div 100) * 100 < n THEN (n \div 100) + 1
                                                  ELSE n \div 100
             IN  w >= min <=> 100 * w >= n
  OBVIOUS
<1> QED
  BY Zenon, <1>1, <1>2 DEF GetMinVoteThresholdWeight

\* A strict tip anticipates the result: whatever votes are still cast within
\* the max voter weight, a tipped approval keeps the threshold weight and the
\* majority, and a tipped rejection never loses.
THEOREM StrictTipIsIrrevocable ==
  ASSUME NEW max \in Nat \ {0}, NEW min \in Nat,
         min <= max,
         NEW yes \in Nat, NEW no \in Nat,
         NEW later_yes \in Nat, NEW later_no \in Nat,
         yes <= later_yes, no <= later_no,
         later_yes + later_no <= max
  PROVE  /\ TipsSucceeded(yes, no, max, "Strict", min) =>
               later_yes >= min /\ later_yes > later_no
         /\ TipsDefeated(yes, no, max, "Strict", min) =>
               ~(later_yes >= min /\ later_yes > later_no)
  BY DEF TipsSucceeded, TipsDefeated, SaturatingSub

\* The threshold weight is at most the max voter weight.
LEMMA ThresholdWithinMax ==
  ASSUME NEW pct \in VoteThresholds, NEW max \in Nat
  PROVE  pct * max <= 100 * max
<1>1. (100 - pct) * max \in Nat
  BY ProductIsNat DEF VoteThresholds
<1>2. (100 - pct) * max = 100 * max - pct * max
  BY DEF VoteThresholds
<1>3. pct * max \in Int /\ 100 * max \in Int
  BY DEF VoteThresholds
<1> QED
  BY <1>1, <1>2, <1>3

\* try_get_tipped_vote_state only tips to Succeeded what has won: no more than
\* the max voter weight is cast.
LEMMA TipIsWon ==
  ASSUME NEW pct \in VoteThresholds, NEW max \in Nat \ {0}, NEW tipping,
         NEW yes \in Nat, NEW no \in Nat, yes + no <= max,
         TipsSucceeded(yes, no, max, tipping, GetMinVoteThresholdWeight(pct, max))
  PROVE  100 * yes >= pct * max /\ yes > no
<1> DEFINE min == GetMinVoteThresholdWeight(pct, max)
<1>1. min \in Nat /\ (yes >= min <=> 100 * yes >= pct * max)
  <2>1. pct \in Nat /\ max \in Nat
    BY DEF VoteThresholds
  <2> QED
    BY Zenon, <2>1, MinWeightType, ThresholdIsLeast
<1> HIDE DEF min
<1>2. pct * max <= 100 * max
  BY Zenon, ThresholdWithinMax
<1>3. CASE yes = max
  BY <1>2, <1>3
<1>4. CASE yes # max
  <2>1. yes >= min /\ (yes > SaturatingSub(max, yes) \/ yes > no)
    BY Zenon, <1>4 DEF TipsSucceeded, min
  <2>2. max >= yes /\ max - yes >= no
    OBVIOUS
  <2>3. SaturatingSub(max, yes) = max - yes
    BY Zenon, <2>2 DEF SaturatingSub
  <2>4. yes > no
    BY <2>1, <2>2, <2>3
  <2> QED
    BY Zenon, <1>1, <2>1, <2>4
<1> QED
  BY Zenon, <1>3, <1>4

\* Among passing options there are best ones.
LEMMA BestExists ==
  ASSUME NEW b, NEW Opts, IsBallot(b, Opts), NEW min \in Nat, Passing(b, min) # {}
  PROVE  Best(b, min) # {}
<1> DEFINE S == {b.weight[o] : o \in Passing(b, min)}
<1>1. S \subseteq Nat /\ S # {} /\ \A w \in S : w <= MaxU64
  BY VoteMathAssumption DEF IsBallot, Passing
<1>2. PICK w \in S : \A v \in S : v <= w
  BY Zenon, <1>1, MaxExists, VoteMathAssumption
<1>3. PICK o \in Passing(b, min) : w = b.weight[o]
  BY Zenon
<1>4. o \in Best(b, min)
  BY Zenon, <1>2, <1>3 DEF Best
<1> QED
  BY Zenon, <1>4

\* resolve_final_vote_state only lets options succeed that pass, also where it
\* compares with the weight of the winner or with u64::MAX.
LEMMA FinalResultIsWon ==
  ASSUME NEW b, NEW Opts, IsBallot(b, Opts), NEW min \in Nat,
         NEW o \in b.options, FinalResult(b, min, o) = "Succeeded"
  PROVE  b.weight[o] >= min /\ b.weight[o] > b.deny
<1>1. /\ \A q \in b.options : b.weight[q] \in 0 .. MaxU64
      /\ b.deny \in Nat /\ MaxU64 \in Nat
  BY VoteMathAssumption DEF IsBallot
<1>2. CASE b.single /\ Passing(b, min) # {}
  <2>1. Best(b, min) # {}
    BY Zenon, <1>2, BestExists
  <2>2. PICK q \in Best(b, min) : b.weight[o] >= b.weight[q]
    <3>1. CASE Cardinality(Best(b, min)) > 1
      <4>1. b.weight[o] = MaxU64
        BY Zenon, <1>2, <3>1 DEF FinalResult
      <4>2. PICK q \in Best(b, min) : TRUE
        BY Zenon, <2>1
      <4> QED
        BY <1>1, <4>1, <4>2 DEF Best, Passing
    <3>2. CASE ~(Cardinality(Best(b, min)) > 1)
      <4> DEFINE q == CHOOSE x \in Best(b, min) : TRUE
      <4>1. q \in Best(b, min)
        BY Zenon, <2>1
      <4>2. FinalResult(b, min, o) =
               IF b.weight[o] = b.weight[q] THEN "Succeeded" ELSE "Defeated"
        BY Zenon, <1>2, <3>2 DEF FinalResult
      <4> HIDE DEF q
      <4>3. b.weight[o] = b.weight[q]
        BY Zenon, <4>2
      <4> QED
        BY Zenon, <1>1, <4>1, <4>3 DEF Best, Passing
    <3> QED
      BY Zenon, <3>1, <3>2
  <2>3. b.weight[q] >= min /\ b.weight[q] > b.deny /\ q \in b.options
    BY Zenon DEF Best, Passing, Passes
  <2> QED
    BY <1>1, <2>2, <2>3
<1>3. CASE ~(b.single /\ Passing(b, min) # {})
  <2>1. o \in Passing(b, min)
    BY Zenon, <1>3 DEF FinalResult
  <2> QED
    BY Zenon, <2>1 DEF Passing, Passes
<1> QED
  BY Zenon, <1>2, <1>3

-----------------------------------------------------------------------------
(* The tallies *)

\* The weights of vote records can be summed up.
LEMMA WeightTerms ==
  ASSUME NEW r \in [TORs -> VoteRecords]
  PROVE  /\ \A o : Terms(OptionWeights(r, o), TORs)
         /\ \A k : Terms(KindWeights(r, k), TORs)
<1>1. \A t \in TORs : r[t].weight \in Int
  BY DEF VoteRecords
<1>2. Finite(TORs)
  BY Zenon, TORsFinite, FiniteSubset
<1> QED
  BY <1>1, <1>2 DEF Terms, OptionWeights, KindWeights

\* When one record of a proposal changes, each sum changes by as much as what
\* the record gives to it.
LEMMA OneRecordChanges ==
  ASSUME NEW r \in [TORs -> VoteRecords], NEW s \in [TORs -> VoteRecords],
         NEW t \in TORs, \A u \in TORs : u # t => s[u] = r[u]
  PROVE  /\ \A o : SumFunctionOnSet(OptionWeights(s, o), TORs)
                     = SumFunctionOnSet(OptionWeights(r, o), TORs)
                         - OptionWeights(r, o)[t] + OptionWeights(s, o)[t]
         /\ \A k : SumFunctionOnSet(KindWeights(s, k), TORs)
                     = SumFunctionOnSet(KindWeights(r, k), TORs)
                         - KindWeights(r, k)[t] + KindWeights(s, k)[t]
<1>1. ASSUME NEW o
      PROVE  SumFunctionOnSet(OptionWeights(s, o), TORs)
               = SumFunctionOnSet(OptionWeights(r, o), TORs)
                   - OptionWeights(r, o)[t] + OptionWeights(s, o)[t]
  <2>1. Terms(OptionWeights(r, o), TORs) /\ Terms(OptionWeights(s, o), TORs)
    BY Zenon, WeightTerms
  <2>2. \A u \in TORs : u # t => OptionWeights(s, o)[u] = OptionWeights(r, o)[u]
    BY Zenon DEF OptionWeights
  <2> QED
    BY <2>1, <2>2, SumChange
<1>2. ASSUME NEW k
      PROVE  SumFunctionOnSet(KindWeights(s, k), TORs)
               = SumFunctionOnSet(KindWeights(r, k), TORs)
                   - KindWeights(r, k)[t] + KindWeights(s, k)[t]
  <2>1. Terms(KindWeights(r, k), TORs) /\ Terms(KindWeights(s, k), TORs)
    BY Zenon, WeightTerms
  <2>2. \A u \in TORs : u # t => KindWeights(s, k)[u] = KindWeights(r, k)[u]
    BY Zenon DEF KindWeights
  <2> QED
    BY <2>1, <2>2, SumChange
<1> QED
  BY Zenon, <1>1, <1>2

\* The record of one member on one proposal is replaced, and the tallies of the
\* proposal follow.
VoteStep(p, t) ==
    /\ \A q \in Proposals, u \in TORs :
          q # p \/ u # t => vote_record'[q][u] = vote_record[q][u]
    /\ \A o \in Options :
          weight'[p][o] = weight[p][o] - OptionWeights(vote_record[p], o)[t]
                                       + OptionWeights(vote_record'[p], o)[t]
    /\ deny'[p] = deny[p] - KindWeights(vote_record[p], "Deny")[t]
                          + KindWeights(vote_record'[p], "Deny")[t]
    /\ veto'[p] = veto[p] - KindWeights(vote_record[p], "Veto")[t]
                          + KindWeights(vote_record'[p], "Veto")[t]
    /\ \A q \in Proposals \ {p} :
          weight'[q] = weight[q] /\ deny'[q] = deny[q] /\ veto'[q] = veto[q]

\* What SetTallies writes, and where.
LEMMA TalliesWritten ==
  ASSUME TypeOK, NEW p \in Proposals, NEW b, SetTallies(p, b)
  PROVE  /\ weight'[p] = b.weight /\ deny'[p] = b.deny /\ veto'[p] = b.veto
         /\ \A q \in Proposals \ {p} :
               weight'[q] = weight[q] /\ deny'[q] = deny[q] /\ veto'[q] = veto[q]
  BY Zenon DEF SetTallies, TypeOK, VoteTypeOK

\* The tallies of a proposal are integers.
LEMMA TalliesAreInts ==
  ASSUME TypeOK, NEW p \in Proposals
  PROVE  /\ \A o \in Options : weight[p][o] \in Int
         /\ deny[p] \in Int /\ veto[p] \in Int
<1>1. /\ weight[p] \in [Options -> 0 .. MaxU64]
      /\ deny[p] \in 0 .. MaxU64 /\ veto[p] \in 0 .. MaxU64
  BY Zenon DEF TypeOK, VoteTypeOK
<1> QED
  BY <1>1

\* What the records of a proposal give to a sum.
LEMMA Given ==
  ASSUME NEW r, NEW t \in TORs
  PROVE  /\ \A o : OptionWeights(r, o)[t]
                     = IF o \in r[t].choices THEN r[t].weight ELSE 0
         /\ \A k : KindWeights(r, k)[t]
                     = IF r[t].kind = k THEN r[t].weight ELSE 0
  BY Zenon DEF OptionWeights, KindWeights

\* process_cast_vote adds to the tallies what the new record gives.
LEMMA CastVoteStep ==
  ASSUME TypeOK, NEW p \in Proposals, NEW t \in TORs, NEW vote \in Votes,
         CastVote(p, t, vote)
  PROVE  VoteStep(p, t)
<1>1. PICK w \in VoterWeights(t) :
         /\ SetTallies(p, AddVote(p, vote, w))
         /\ vote_record' = [vote_record EXCEPT
               ![p][t] = [kind |-> vote.kind, choices |-> vote.choices,
                          weight |-> w, relinquished |-> FALSE]]
  BY Zenon DEF CastVote
<1>2. vote_record[p][t] = NoVote
  BY Zenon DEF CastVote
<1>3. w \in Int
  BY VoterWeightsType
<1>4. /\ vote_record'[p][t].kind = vote.kind
      /\ vote_record'[p][t].choices = vote.choices
      /\ vote_record'[p][t].weight = w
  BY Zenon, <1>1, Tables
<1>5. \A q \in Proposals, u \in TORs :
         q # p \/ u # t => vote_record'[q][u] = vote_record[q][u]
  BY Zenon, <1>1, VoteRecordWrite
<1>6. /\ \A o : /\ OptionWeights(vote_record[p], o)[t] = 0
                /\ OptionWeights(vote_record'[p], o)[t]
                     = IF o \in vote.choices THEN w ELSE 0
      /\ \A k \in {"Deny", "Veto"} :
            /\ KindWeights(vote_record[p], k)[t] = 0
            /\ KindWeights(vote_record'[p], k)[t]
                 = IF vote.kind = k THEN w ELSE 0
  <2>1. NoVote.weight = 0
    BY Zenon DEF NoVote
  <2> QED
    BY <1>2, <1>4, <2>1, Given
<1>7. /\ \A o \in Options : weight'[p][o] =
            IF o \in vote.choices THEN weight[p][o] + w ELSE weight[p][o]
      /\ deny'[p] = IF vote.kind = "Deny" THEN deny[p] + w ELSE deny[p]
      /\ veto'[p] = IF vote.kind = "Veto" THEN veto[p] + w ELSE veto[p]
  <2> DEFINE b == AddVote(p, vote, w)
  <2>1. /\ \A o \in Options : b.weight[o] =
              IF o \in vote.choices THEN weight[p][o] + w ELSE weight[p][o]
        /\ b.deny = IF vote.kind = "Deny" THEN deny[p] + w ELSE deny[p]
        /\ b.veto = IF vote.kind = "Veto" THEN veto[p] + w ELSE veto[p]
    BY Zenon DEF AddVote, Ballot
  <2> HIDE DEF b
  <2>2. weight'[p] = b.weight /\ deny'[p] = b.deny /\ veto'[p] = b.veto
    BY Zenon, <1>1, TalliesWritten DEF b
  <2> QED
    BY Zenon, <2>1, <2>2
<1>8. /\ \A o \in Options :
            weight'[p][o] = weight[p][o] - OptionWeights(vote_record[p], o)[t]
                                         + OptionWeights(vote_record'[p], o)[t]
      /\ deny'[p] = deny[p] - KindWeights(vote_record[p], "Deny")[t]
                            + KindWeights(vote_record'[p], "Deny")[t]
      /\ veto'[p] = veto[p] - KindWeights(vote_record[p], "Veto")[t]
                            + KindWeights(vote_record'[p], "Veto")[t]
  BY <1>3, <1>6, <1>7, TalliesAreInts
<1>9. \A q \in Proposals \ {p} :
         weight'[q] = weight[q] /\ deny'[q] = deny[q] /\ veto'[q] = veto[q]
  BY Zenon, <1>1, TalliesWritten
<1> QED
  BY Zenon, <1>5, <1>8, <1>9 DEF VoteStep

\* process_relinquish_vote subtracts what the record gave, or leaves both the
\* tallies and what the record gives.
LEMMA RelinquishVoteStep ==
  ASSUME TypeOK, NEW p \in Proposals, NEW t \in TORs, RelinquishVote(p, t)
  PROVE  VoteStep(p, t)
<1> DEFINE r == vote_record[p][t]
<1>1. r.weight \in Int
  <2>1. r \in VoteRecords
    BY Zenon, Tables
  <2> QED
    BY <2>1 DEF VoteRecords
<1>2. \A q \in Proposals, u \in TORs :
         q # p \/ u # t => vote_record'[q][u] = vote_record[q][u]
  BY Zenon, RelinquishWrites
<1>3. /\ \A o : OptionWeights(vote_record[p], o)[t]
                  = IF o \in r.choices THEN r.weight ELSE 0
      /\ \A k : KindWeights(vote_record[p], k)[t]
                  = IF r.kind = k THEN r.weight ELSE 0
  BY Zenon, Given
<1>4. CASE TakeVoteBack(p, t)
  <2> DEFINE b == RemoveVote(p, r)
  <2>1. vote_record'[p][t] = NoVote /\ SetTallies(p, b)
    BY Zenon, <1>4, RelinquishWrites DEF TakeVoteBack
  <2>2. /\ \A o : OptionWeights(vote_record'[p], o)[t] = 0
        /\ \A k : KindWeights(vote_record'[p], k)[t] = 0
    <3>1. NoVote.weight = 0
      BY Zenon DEF NoVote
    <3> QED
      BY <2>1, <3>1, Given
  <2>3. /\ \A o \in Options : b.weight[o] =
              IF o \in r.choices THEN weight[p][o] - r.weight ELSE weight[p][o]
        /\ b.deny = IF r.kind = "Deny" THEN deny[p] - r.weight ELSE deny[p]
        /\ b.veto = IF r.kind = "Veto" THEN veto[p] - r.weight ELSE veto[p]
    BY Zenon DEF RemoveVote, Ballot
  <2> HIDE DEF r, b
  <2>4. weight'[p] = b.weight /\ deny'[p] = b.deny /\ veto'[p] = b.veto
    BY Zenon, <2>1, TalliesWritten
  <2>5. /\ \A o \in Options :
              weight'[p][o] = weight[p][o] - OptionWeights(vote_record[p], o)[t]
                                           + OptionWeights(vote_record'[p], o)[t]
        /\ deny'[p] = deny[p] - KindWeights(vote_record[p], "Deny")[t]
                              + KindWeights(vote_record'[p], "Deny")[t]
        /\ veto'[p] = veto[p] - KindWeights(vote_record[p], "Veto")[t]
                              + KindWeights(vote_record'[p], "Veto")[t]
    <3>1. /\ \A o \in Options : weight[p][o] \in Int
          /\ deny[p] \in Int /\ veto[p] \in Int
      BY Zenon, TalliesAreInts
    <3>2. /\ \A o \in Options : weight'[p][o] =
                IF o \in r.choices THEN weight[p][o] - r.weight ELSE weight[p][o]
          /\ deny'[p] = IF r.kind = "Deny" THEN deny[p] - r.weight ELSE deny[p]
          /\ veto'[p] = IF r.kind = "Veto" THEN veto[p] - r.weight ELSE veto[p]
      BY Zenon, <2>3, <2>4
    <3> QED
      BY <1>1, <1>3, <2>2, <3>1, <3>2
  <2>6. \A q \in Proposals \ {p} :
           weight'[q] = weight[q] /\ deny'[q] = deny[q] /\ veto'[q] = veto[q]
    BY Zenon, <2>1, TalliesWritten
  <2> QED
    BY Zenon, <1>2, <2>5, <2>6 DEF VoteStep
<1>5. CASE MarkRelinquished(p, t)
  <2>1. weight' = weight /\ deny' = deny /\ veto' = veto
    BY Zenon, <1>5 DEF MarkRelinquished, tallyVars
  <2>2. vote_record'[p][t] = [r EXCEPT !.relinquished = TRUE] /\ r \in VoteRecords
    BY Zenon, <1>5, Tables DEF MarkRelinquished
  <2>3. /\ vote_record'[p][t].kind = r.kind
        /\ vote_record'[p][t].choices = r.choices
        /\ vote_record'[p][t].weight = r.weight
    BY Zenon, <2>2 DEF VoteRecords
  <2>4. /\ \A o : OptionWeights(vote_record'[p], o)[t]
                    = IF o \in r.choices THEN r.weight ELSE 0
        /\ \A k : KindWeights(vote_record'[p], k)[t]
                    = IF r.kind = k THEN r.weight ELSE 0
    <3>1. /\ \A o : OptionWeights(vote_record'[p], o)[t]
                      = IF o \in vote_record'[p][t].choices
                        THEN vote_record'[p][t].weight ELSE 0
          /\ \A k : KindWeights(vote_record'[p], k)[t]
                      = IF vote_record'[p][t].kind = k
                        THEN vote_record'[p][t].weight ELSE 0
      BY Zenon, Given
    <3> HIDE DEF r
    <3> QED
      BY Zenon, <2>3, <3>1
  <2> HIDE DEF r
  <2>5. /\ \A o \in Options :
              weight'[p][o] = weight[p][o] - OptionWeights(vote_record[p], o)[t]
                                           + OptionWeights(vote_record'[p], o)[t]
        /\ deny'[p] = deny[p] - KindWeights(vote_record[p], "Deny")[t]
                              + KindWeights(vote_record'[p], "Deny")[t]
        /\ veto'[p] = veto[p] - KindWeights(vote_record[p], "Veto")[t]
                              + KindWeights(vote_record'[p], "Veto")[t]
    <3>1. /\ \A o \in Options : weight[p][o] \in Int
          /\ deny[p] \in Int /\ veto[p] \in Int
      BY Zenon, TalliesAreInts
    <3> QED
      BY <1>1, <1>3, <2>1, <2>4, <3>1
  <2> QED
    BY Zenon, <1>2, <2>1, <2>5 DEF VoteStep
<1> QED
  BY Zenon, <1>4, <1>5 DEF RelinquishVote

\* Only votes touch vote records and tallies.
LEMMA VoteSteps ==
  ASSUME TypeOK, [Next]_vars
  PROVE  \/ \E p \in Proposals, t \in TORs : VoteStep(p, t)
         \/ UNCHANGED <<vote_record, weight, deny, veto>>
<1>1. CASE VoteNext
  <2>1. \A p \in Proposals : FinalizeVote(p) \/ CancelProposal(p) =>
            UNCHANGED <<vote_record, weight, deny, veto>>
    BY Zenon DEF FinalizeVote, CancelProposal, voteVars, tallyVars
  <2> QED
    BY Zenon, <1>1, <2>1, CastVoteStep, RelinquishVoteStep DEF VoteNext
<1>2. CASE UNCHANGED vars
  BY Zenon, <1>2 DEF vars, voteVars, tallyVars
<1> QED
  BY Zenon, <1>1, <1>2, RealmFrame, DraftFrame, ExecuteFrame, EnvironmentFrame
  DEF Next

\* A vote keeps the tallies equal to the records.
LEMMA VoteStepTallies ==
  ASSUME TypeOK, TypeOK', TalliesMatchRecords,
         NEW p \in Proposals, NEW t \in TORs, VoteStep(p, t)
  PROVE  TalliesMatchRecords'
<1> SUFFICES ASSUME NEW q \in Proposals
             PROVE  /\ \A o \in Options : weight'[q][o] =
                          SumFunctionOnSet(OptionWeights(vote_record'[q], o), TORs)
                    /\ deny'[q] = SumFunctionOnSet(
                          KindWeights(vote_record'[q], "Deny"), TORs)
                    /\ veto'[q] = SumFunctionOnSet(
                          KindWeights(vote_record'[q], "Veto"), TORs)
  BY Zenon DEF TalliesMatchRecords, OptionWeights, KindWeights
<1>1. /\ \A o \in Options :
            weight[q][o] = SumFunctionOnSet(OptionWeights(vote_record[q], o), TORs)
      /\ deny[q] = SumFunctionOnSet(KindWeights(vote_record[q], "Deny"), TORs)
      /\ veto[q] = SumFunctionOnSet(KindWeights(vote_record[q], "Veto"), TORs)
  BY Zenon DEF TalliesMatchRecords
<1>2. /\ vote_record[q] \in [TORs -> VoteRecords]
      /\ vote_record'[q] \in [TORs -> VoteRecords]
  BY Zenon DEF TypeOK, VoteTypeOK
<1>3. CASE q = p
  <2>1. \A u \in TORs : u # t => vote_record'[q][u] = vote_record[q][u]
    BY Zenon, <1>3 DEF VoteStep
  <2>2. /\ \A o : SumFunctionOnSet(OptionWeights(vote_record'[q], o), TORs)
                    = SumFunctionOnSet(OptionWeights(vote_record[q], o), TORs)
                        - OptionWeights(vote_record[q], o)[t]
                        + OptionWeights(vote_record'[q], o)[t]
        /\ \A k : SumFunctionOnSet(KindWeights(vote_record'[q], k), TORs)
                    = SumFunctionOnSet(KindWeights(vote_record[q], k), TORs)
                        - KindWeights(vote_record[q], k)[t]
                        + KindWeights(vote_record'[q], k)[t]
    BY Zenon, <1>2, <2>1, OneRecordChanges
  <2>3. /\ \A o \in Options :
              weight'[q][o] = weight[q][o] - OptionWeights(vote_record[q], o)[t]
                                           + OptionWeights(vote_record'[q], o)[t]
        /\ deny'[q] = deny[q] - KindWeights(vote_record[q], "Deny")[t]
                              + KindWeights(vote_record'[q], "Deny")[t]
        /\ veto'[q] = veto[q] - KindWeights(vote_record[q], "Veto")[t]
                              + KindWeights(vote_record'[q], "Veto")[t]
    BY Zenon, <1>3 DEF VoteStep
  <2> QED
    BY Zenon, <1>1, <2>2, <2>3
<1>4. CASE q # p
  <2>1. \A u \in TORs : vote_record'[q][u] = vote_record[q][u]
    BY Zenon, <1>4 DEF VoteStep
  <2>2. vote_record'[q] = vote_record[q]
    BY <1>2, <2>1
  <2>3. weight'[q] = weight[q] /\ deny'[q] = deny[q] /\ veto'[q] = veto[q]
    BY Zenon, <1>4 DEF VoteStep
  <2> QED
    BY Zenon, <1>1, <2>2, <2>3
<1> QED
  BY Zenon, <1>3, <1>4

\* Before anyone votes every tally is 0.
LEMMA InitTallies == Init => TalliesMatchRecords
<1> SUFFICES ASSUME Init, NEW p \in Proposals
             PROVE  /\ \A o \in Options : weight[p][o] =
                          SumFunctionOnSet(OptionWeights(vote_record[p], o), TORs)
                    /\ deny[p] = SumFunctionOnSet(
                          KindWeights(vote_record[p], "Deny"), TORs)
                    /\ veto[p] = SumFunctionOnSet(
                          KindWeights(vote_record[p], "Veto"), TORs)
  BY Zenon DEF TalliesMatchRecords
<1>1. vote_record[p] \in [TORs -> VoteRecords]
  BY Zenon, InitType DEF TypeOK, VoteTypeOK
<1>2. /\ \A o : Terms(OptionWeights(vote_record[p], o), TORs)
      /\ \A k : Terms(KindWeights(vote_record[p], k), TORs)
  BY Zenon, <1>1, WeightTerms
<1>3. \A t \in TORs :
         /\ \A o : OptionWeights(vote_record[p], o)[t] = 0
         /\ \A k : KindWeights(vote_record[p], k)[t] = 0
  <2>1. \A t \in TORs : vote_record[p][t] = NoVote
    BY Zenon DEF Init
  <2>2. NoVote.weight = 0
    BY Zenon DEF NoVote
  <2> QED
    BY <2>1, <2>2, Given
<1>4. /\ \A o : SumFunctionOnSet(OptionWeights(vote_record[p], o), TORs) = 0
      /\ \A k : SumFunctionOnSet(KindWeights(vote_record[p], k), TORs) = 0
  BY Zenon, <1>2, <1>3, SumSign
<1> QED
  BY Zenon, <1>4 DEF Init

\* A vote that is cast, changed by being taken back or marked as relinquished,
\* on however many proposals at once, leaves every tally the sum of the
\* recorded votes.
THEOREM TalliesAlwaysMatchRecords == Spec => []TalliesMatchRecords
<1>1. TypeOK /\ TypeOK' /\ TalliesMatchRecords /\ [Next]_vars
          => TalliesMatchRecords'
  <2> SUFFICES ASSUME TypeOK, TypeOK', TalliesMatchRecords, [Next]_vars
               PROVE  TalliesMatchRecords'
    BY Zenon
  <2>1. CASE UNCHANGED <<vote_record, weight, deny, veto>>
    BY <2>1 DEF TalliesMatchRecords, OptionWeights, KindWeights
  <2> QED
    BY Zenon, <2>1, VoteSteps, VoteStepTallies
<1> QED
  BY <1>1, InitTallies, TypeCorrect, PTL DEF Spec

-----------------------------------------------------------------------------
(* The tokens behind an open vote *)

\* What each member has deposited of a mint.
Backing(m) == [t \in TORs |-> IF MintOf(t) = m THEN deposit[t] ELSE 0]

\* The holding account of a mint holds the deposits of its members.
DepositsHeld ==
    \A m \in Mints : holding[m] = SumFunctionOnSet(Backing(m), TORs)

\* Deposits can be summed up.
LEMMA BackingTerms ==
  ASSUME NEW d \in [TORs -> Nat], NEW m
  PROVE  Terms([t \in TORs |-> IF MintOf(t) = m THEN d[t] ELSE 0], TORs)
<1>1. Finite(TORs)
  BY Zenon, TORsFinite, FiniteSubset
<1> QED
  BY <1>1 DEF Terms

\* A deposit of one member changes with the balance of the holding account.
LEMMA OneDepositChanges ==
  ASSUME TypeOK, DepositsHeld, NEW t \in TORs, NEW x \in Nat,
         deposit' = [deposit EXCEPT ![t] = x],
         holding' = [holding EXCEPT ![MintOf(t)] = @ - deposit[t] + x]
  PROVE  DepositsHeld'
<1> SUFFICES ASSUME NEW m \in Mints
             PROVE  holding'[m] = SumFunctionOnSet(Backing(m)', TORs)
  BY Zenon DEF DepositsHeld
<1>1. /\ deposit \in [TORs -> Nat] /\ holding \in [Mints -> Nat]
      /\ MintOf(t) \in Mints
      /\ holding[m] = SumFunctionOnSet(Backing(m), TORs)
  BY Zenon, Addresses DEF TypeOK, RecordTypeOK, DepositsHeld
<1>2. deposit' \in [TORs -> Nat]
  BY Zenon, <1>1, Updated
<1>3. Terms(Backing(m), TORs) /\ Terms(Backing(m)', TORs)
  BY Zenon, <1>1, <1>2, BackingTerms DEF Backing
<1>4. /\ \A u \in TORs :
            deposit'[u] = IF u = t THEN x ELSE deposit[u]
      /\ holding'[m] = IF m = MintOf(t) THEN holding[m] - deposit[t] + x
                                        ELSE holding[m]
  BY Zenon, <1>1, Elsewhere
<1>5. /\ \A u \in TORs : Backing(m)[u] = IF MintOf(u) = m THEN deposit[u] ELSE 0
      /\ \A u \in TORs : Backing(m)'[u] = IF MintOf(u) = m THEN deposit'[u] ELSE 0
  BY Zenon DEF Backing
<1>6. \A u \in TORs : u # t => Backing(m)'[u] = Backing(m)[u]
  BY Zenon, <1>4, <1>5
<1>7. SumFunctionOnSet(Backing(m)', TORs)
        = SumFunctionOnSet(Backing(m), TORs) - Backing(m)[t] + Backing(m)'[t]
  BY <1>3, <1>6, SumChange
<1>8. holding[m] \in Int /\ deposit[t] \in Int
  BY <1>1
<1> QED
  BY <1>1, <1>4, <1>5, <1>7, <1>8

\* Every step keeps the holding accounts equal to the deposits.
LEMMA NextDepositsHeld ==
  TypeOK /\ DepositsHeld /\ [Next]_vars => DepositsHeld'
<1> SUFFICES ASSUME TypeOK, DepositsHeld, [Next]_vars PROVE DepositsHeld'
  BY Zenon
<1>1. ASSUME NEW t \in TORs, NEW n \in Nat, DepositGoverningTokens(t, n)
      PROVE  DepositsHeld'
  <2>1. /\ deposit[t] \in Nat /\ deposit[t] + n \in Nat
        /\ holding[MintOf(t)] \in Nat /\ MintOf(t) \in Mints
        /\ holding[MintOf(t)] - deposit[t] + (deposit[t] + n)
              = holding[MintOf(t)] + n
    <3>1. /\ deposit[t] \in Nat /\ holding[MintOf(t)] \in Nat
          /\ MintOf(t) \in Mints
      BY Zenon, Addresses DEF TypeOK, RecordTypeOK
    <3> QED
      BY <3>1
  <2>2. /\ deposit' = [deposit EXCEPT ![t] = deposit[t] + n]
        /\ holding' = [holding EXCEPT ![MintOf(t)] =
                          @ - deposit[t] + (deposit[t] + n)]
    BY Zenon, <1>1, <2>1 DEF DepositGoverningTokens
  <2> QED
    BY Zenon, <2>1, <2>2, OneDepositChanges
<1>2. ASSUME NEW t \in TORs, WithdrawGoverningTokens(t)
      PROVE  DepositsHeld'
  <2>1. /\ holding[MintOf(t)] \in Nat /\ deposit[t] \in Nat
        /\ holding[MintOf(t)] - deposit[t] + 0 = holding[MintOf(t)] - deposit[t]
    <3>1. holding[MintOf(t)] \in Nat /\ deposit[t] \in Nat
      BY Zenon, Addresses DEF TypeOK, RecordTypeOK
    <3> QED
      BY <3>1
  <2>2. /\ deposit' = [deposit EXCEPT ![t] = 0]
        /\ holding' = [holding EXCEPT ![MintOf(t)] = @ - deposit[t] + 0]
    BY Zenon, <1>2, <2>1 DEF WithdrawGoverningTokens
  <2> QED
    BY Zenon, <2>2, OneDepositChanges
<1>3. CASE UNCHANGED <<deposit, holding>>
  BY Zenon, <1>3 DEF DepositsHeld, Backing
<1> QED
  BY Zenon, <1>1, <1>2, <1>3, DepositFrame

\* The holding account of a mint always holds exactly the deposits of the token
\* owner records: every deposit can be paid out.
THEOREM DepositsAlwaysHeld == Spec => []DepositsHeld
<1>1. Init => DepositsHeld
  <2> SUFFICES ASSUME Init, NEW m \in Mints
               PROVE  holding[m] = SumFunctionOnSet(Backing(m), TORs)
    BY Zenon DEF DepositsHeld
  <2>1. deposit \in [TORs -> Nat]
    BY Zenon, InitType DEF TypeOK, RecordTypeOK
  <2>2. Terms(Backing(m), TORs)
    BY Zenon, <2>1, BackingTerms DEF Backing
  <2>3. \A t \in TORs : Backing(m)[t] = 0
    BY Zenon DEF Backing, Init
  <2>4. SumFunctionOnSet(Backing(m), TORs) = 0
    BY Zenon, <2>2, <2>3, SumSign
  <2> QED
    BY Zenon, <2>4 DEF Init
<1> QED
  BY <1>1, NextDepositsHeld, TypeCorrect, PTL DEF Spec

\* Who can have voted how: nobody before the vote starts, only members of the
\* electorate, only the council by a veto, and nobody's vote is relinquished
\* while the vote is open.  Of a record r, in state s of a proposal of mint m.
Fits(r, s, m, t) ==
    /\ s \in {"Absent", "Draft", "SigningOff"} => r = NoVote
    /\ s = "Voting" => ~r.relinquished
    /\ r.kind # "Approve" => r.choices = {}
    /\ r.kind = "Veto" => MintOf(t) = "council"
    /\ r.kind \in {"Approve", "Deny"} => MintOf(t) = m

VotesFit ==
    \A p \in Proposals, t \in TORs :
        Fits(vote_record[p][t], state[p], mint[p], t)

\* No vote fits everywhere.
LEMMA NoVoteFits == \A s, m, t : Fits(NoVote, s, m, t)
BY Zenon DEF Fits, NoVote

\* A proposal that is decided or runs its transactions is neither in preparation
\* nor open.
LEMMA DecidedStates ==
  /\ \A s \in ProposalStates \ UndecidedStates :
        s \notin {"Absent", "Draft", "SigningOff", "Voting"}
  /\ ApprovedStates \cup {"Completed"} \subseteq ProposalStates \ UndecidedStates
BY Zenon DEF ProposalStates, UndecidedStates, ApprovedStates

\* A vote that fits an open or decided proposal fits it once it is decided.
LEMMA DecidedFits ==
  ASSUME NEW r, NEW s, NEW m, NEW t, Fits(r, s, m, t),
         NEW d, d = s \/ d \in ProposalStates \ UndecidedStates
  PROVE  Fits(r, d, m, t)
  BY Zenon, DecidedStates DEF Fits

\* What fitting after a step means.
LEMMA FitAfter ==
  ASSUME \A q \in Proposals, u \in TORs :
             Fits(vote_record'[q][u], state'[q], mint'[q], u)
  PROVE  VotesFit'
BY Zenon DEF VotesFit, Fits

\* Steps that leave the votes alone keep them fitting.
LEMMA LifeStepFits ==
  ASSUME TypeOK, Lifecycle, VotesFit, [Next]_vars, UNCHANGED vote_record
  PROVE  VotesFit'
<1> SUFFICES ASSUME NEW q \in Proposals, NEW u \in TORs
             PROVE  Fits(vote_record[q][u], state'[q], mint'[q], u)
  BY Zenon, FitAfter
<1>1. Fits(vote_record[q][u], state[q], mint[q], u)
  BY Zenon DEF VotesFit
<1>2. q > proposals_count => state[q] = "Absent"
  BY Zenon DEF Lifecycle
<1>3. ASSUME NEW t \in TORs, CreateStep(t)
      PROVE  Fits(vote_record[q][u], state'[q], mint'[q], u)
  <2> DEFINE p == proposals_count + 1
  <2>1. CASE q = p
    <3>1. p > proposals_count
      BY Tables
    <3>2. vote_record[q][u] = NoVote
      BY Zenon, <1>1, <1>2, <2>1, <3>1 DEF Fits
    <3> QED
      BY Zenon, <3>2, NoVoteFits
  <2>2. CASE q # p
    <3>1. state' = [state EXCEPT ![p] = "Draft"] /\ mint'[q] = mint[q]
      BY Zenon, <1>3, <2>2 DEF CreateStep
    <3>2. state'[q] = state[q]
      BY Zenon, <2>2, <3>1, Tables, Elsewhere
    <3> QED
      BY Zenon, <1>1, <3>1, <3>2
  <2> QED
    BY Zenon, <2>1, <2>2
<1>4. ASSUME NEW p \in Proposals, SignStep(p)
      PROVE  Fits(vote_record[q][u], state'[q], mint'[q], u)
  <2>1. CASE q = p
    <3>1. vote_record[q][u] = NoVote
      BY Zenon, <1>1, <1>4, <2>1 DEF Fits, SignStep
    <3> QED
      BY Zenon, <3>1, NoVoteFits
  <2>2. CASE q # p
    <3>1. state'[q] = state[q] /\ mint'[q] = mint[q]
      BY Zenon, <1>4, <2>2, Tables, Elsewhere DEF SignStep
    <3> QED
      BY Zenon, <1>1, <3>1
  <2> QED
    BY Zenon, <2>1, <2>2
<1>5. ASSUME NEW p \in Proposals, DecideStep(p) \/ ExecuteStep(p)
      PROVE  Fits(vote_record[q][u], state'[q], mint'[q], u)
  <2>1. PICK s \in ProposalStates \ UndecidedStates :
           state' = [state EXCEPT ![p] = s] /\ mint' = mint
    BY Zenon, <1>5, DecidedStates DEF DecideStep, ExecuteStep
  <2>2. state'[q] = state[q] \/ state'[q] \in ProposalStates \ UndecidedStates
    BY Zenon, <2>1, Tables, Elsewhere
  <2> QED
    BY Zenon, <1>1, <2>1, <2>2, DecidedFits
<1>6. CASE OtherStep
  BY Zenon, <1>1, <1>6 DEF OtherStep
<1> QED
  BY Zenon, <1>3, <1>4, <1>5, <1>6, LifeSteps

\* A vote is only accepted from the electorate it is for.
LEMMA CastVoteFits ==
  ASSUME TypeOK, VotesFit, NEW p \in Proposals, NEW t \in TORs,
         NEW vote \in Votes, CastVote(p, t, vote)
  PROVE  VotesFit'
<1> SUFFICES ASSUME NEW q \in Proposals, NEW u \in TORs
             PROVE  Fits(vote_record'[q][u], state'[q], mint'[q], u)
  BY Zenon, FitAfter
<1>1. Fits(vote_record[q][u], state[q], mint[q], u)
  BY Zenon DEF VotesFit
<1>2. PICK w : vote_record' = [vote_record EXCEPT
         ![p][t] = [kind |-> vote.kind, choices |-> vote.choices,
                    weight |-> w, relinquished |-> FALSE]]
  BY Zenon DEF CastVote
<1>3. /\ mint' = mint /\ state[p] = "Voting"
      /\ VotesOn(MintOf(t), GetVoteKind(vote), p)
  BY Zenon DEF CastVote, CanCastVote, draftVars
<1>4. state'[q] = state[q] \/ state'[q] \in ProposalStates \ UndecidedStates
  <2>1. CASE DecideStep(p)
    <3>1. PICK s \in ProposalStates \ UndecidedStates :
             state' = [state EXCEPT ![p] = s]
      BY Zenon, <2>1 DEF DecideStep
    <3> QED
      BY Zenon, <3>1, Tables, Elsewhere
  <2>2. CASE OtherStep
    BY Zenon, <2>2 DEF OtherStep
  <2> QED
    BY Zenon, <2>1, <2>2, CastVoteDecides
<1>5. CASE q = p /\ u = t
  <2>1. /\ vote_record'[q][u].kind = vote.kind
        /\ vote_record'[q][u].choices = vote.choices
        /\ vote_record'[q][u].relinquished = FALSE
    BY Zenon, <1>2, <1>5, Tables
  <2>2. /\ vote.kind # "Approve" => vote.choices = {}
        /\ vote.kind = "Veto" => MintOf(t) = "council"
        /\ vote.kind \in {"Approve", "Deny"} => MintOf(t) = mint[p]
    BY Zenon, <1>3 DEF Votes, VotesOn, GetVoteKind
  <2>3. state'[q] \notin {"Absent", "Draft", "SigningOff"}
    BY Zenon, <1>3, <1>4, <1>5, DecidedStates
  <2> QED
    BY Zenon, <1>3, <1>5, <2>1, <2>2, <2>3 DEF Fits
<1>6. CASE q # p \/ u # t
  <2>1. vote_record'[q][u] = vote_record[q][u]
    BY <1>2, <1>6, VoteRecordWrite
  <2> QED
    BY Zenon, <1>1, <1>3, <1>4, <2>1, DecidedFits
<1> QED
  BY Zenon, <1>5, <1>6

\* A vote is only marked as relinquished when it is no longer open.
LEMMA RelinquishVoteFits ==
  ASSUME TypeOK, VotesFit, NEW p \in Proposals, NEW t \in TORs,
         RelinquishVote(p, t)
  PROVE  VotesFit'
<1> SUFFICES ASSUME NEW q \in Proposals, NEW u \in TORs
             PROVE  Fits(vote_record'[q][u], state'[q], mint'[q], u)
  BY Zenon, FitAfter
<1>1. Fits(vote_record[q][u], state[q], mint[q], u)
  BY Zenon DEF VotesFit
<1>2. /\ state' = state /\ mint' = mint /\ vote_record[p][t] # NoVote
      /\ vote_record[q][u] \in VoteRecords
  <2>1. state' = state /\ mint' = mint
    BY Zenon DEF RelinquishVote, draftVars
  <2>2. CanRelinquish(p, t)
    BY Zenon DEF RelinquishVote, TakeVoteBack, MarkRelinquished
  <2> QED
    BY Zenon, <2>1, <2>2, Tables DEF CanRelinquish
<1>3. CASE q # p \/ u # t
  <2>0. \A r \in Proposals, v \in TORs :
           r # p \/ v # t => vote_record'[r][v] = vote_record[r][v]
    BY Zenon, RelinquishWrites
  <2>1. vote_record'[q][u] = vote_record[q][u]
    BY Zenon, <1>3, <2>0
  <2> QED
    BY Zenon, <1>1, <1>2, <2>1
<1>4. CASE q = p /\ u = t /\ TakeVoteBack(p, t)
  <2>1. vote_record'[q][u] = NoVote
    BY Zenon, <1>4, RelinquishWrites
  <2> QED
    BY Zenon, <2>1, NoVoteFits
<1>5. CASE q = p /\ u = t /\ MarkRelinquished(p, t)
  <2>1. /\ vote_record'[q][u] = [vote_record[q][u] EXCEPT !.relinquished = TRUE]
        /\ state[q] # "Voting"
    BY Zenon, <1>5, Tables DEF MarkRelinquished
  <2>2. /\ vote_record'[q][u].kind = vote_record[q][u].kind
        /\ vote_record'[q][u].choices = vote_record[q][u].choices
    BY Zenon, <1>2, <2>1 DEF VoteRecords
  <2> QED
    BY Zenon, <1>1, <1>2, <1>5, <2>1, <2>2 DEF Fits
<1> QED
  BY Zenon, <1>3, <1>4, <1>5 DEF RelinquishVote

\* In every reachable state the votes fit.
LEMMA VotesAlwaysFit == Spec => []VotesFit
<1>1. Init => VotesFit
  <2> SUFFICES ASSUME Init, NEW p \in Proposals, NEW t \in TORs
               PROVE  Fits(vote_record[p][t], state[p], mint[p], t)
    BY Zenon DEF VotesFit
  <2>1. vote_record[p][t] = NoVote
    BY Zenon DEF Init
  <2> QED
    BY Zenon, <2>1, NoVoteFits
<1>2. TypeOK /\ Lifecycle /\ VotesFit /\ [Next]_vars => VotesFit'
  BY Zenon, VoteRecordFrame, LifeStepFits, CastVoteFits, RelinquishVoteFits
<1> QED
  BY <1>1, <1>2, LifecycleInvariant, PTL DEF Spec

\* As long as no vote on a proposal is relinquished, its tallies are weights of
\* tokens in the holding accounts.
LiveTallyBacked ==
    WeightsFromDeposits
        => \A p \in Proposals :
              (\A t \in TORs : ~vote_record[p][t].relinquished) =>
                  /\ \A o \in Options : weight[p][o] + deny[p] <= holding[mint[p]]
                  /\ veto[p] <= holding["council"]

\* Tallies are covered by deposits, and these by the holding account.
LEMMA DepositsBackTallies ==
  TypeOK /\ VotesFit /\ LiveVotesBacked /\ TalliesMatchRecords /\ DepositsHeld
      => LiveTallyBacked
<1> SUFFICES ASSUME TypeOK, VotesFit, LiveVotesBacked, TalliesMatchRecords,
                    DepositsHeld, WeightsFromDeposits, NEW p \in Proposals,
                    \A t \in TORs : ~vote_record[p][t].relinquished
             PROVE  /\ \A o \in Options : weight[p][o] + deny[p] <= holding[mint[p]]
                    /\ veto[p] <= holding["council"]
  BY Zenon DEF LiveTallyBacked
<1> DEFINE r == vote_record[p]
<1>1. /\ r \in [TORs -> VoteRecords] /\ deposit \in [TORs -> Nat]
      /\ mint[p] \in Mints
  BY Zenon DEF TypeOK, VoteTypeOK, RecordTypeOK, ProposalTypeOK
<1>2. ASSUME NEW t \in TORs
      PROVE  /\ Fits(r[t], state[p], mint[p], t)
             /\ r[t].kind \in {"None", "Approve", "Deny", "Veto"}
             /\ r[t].weight \in Nat /\ deposit[t] \in Nat
             /\ r[t].kind # "None" => r[t].weight <= deposit[t]
  <2>1. r[t] \in VoteRecords /\ deposit[t] \in Nat
    BY Zenon, <1>1
  <2>2. Fits(r[t], state[p], mint[p], t)
    BY Zenon DEF VotesFit
  <2>3. r[t].kind # "None" => IsLive(p, t)
    BY DEF IsLive, HasVoted, NoVote
  <2>4. IsLive(p, t) => r[t].weight <= deposit[t]
    BY Zenon DEF LiveVotesBacked
  <2> QED
    BY Zenon, <2>1, <2>2, <2>3, <2>4 DEF VoteRecords
<1> HIDE DEF r
<1>3. /\ \A o : Terms(OptionWeights(r, o), TORs)
      /\ \A k : Terms(KindWeights(r, k), TORs)
      /\ \A m : Terms(Backing(m), TORs)
  BY Zenon, <1>1, WeightTerms, BackingTerms DEF Backing
<1>4. ASSUME NEW o \in Options
      PROVE  weight[p][o] + deny[p] <= holding[mint[p]]
  <2> DEFINE f == OptionWeights(r, o)
             g == KindWeights(r, "Deny")
             h == [t \in TORs |-> f[t] + g[t]]
  <2>1. \A t \in TORs : /\ f[t] \in Nat /\ g[t] \in Nat
                        /\ f[t] + g[t] <= Backing(mint[p])[t]
    BY <1>2 DEF OptionWeights, KindWeights, Backing, Fits
  <2>2. Terms(f, TORs) /\ Terms(g, TORs) /\ Terms(Backing(mint[p]), TORs)
    BY Zenon, <1>3
  <2>3. /\ SumFunctionOnSet(f, TORs) = weight[p][o]
        /\ SumFunctionOnSet(g, TORs) = deny[p]
        /\ SumFunctionOnSet(Backing(mint[p]), TORs) = holding[mint[p]]
    BY Zenon, <1>1 DEF TalliesMatchRecords, DepositsHeld, r
  <2> HIDE DEF f, g
  <2>4. /\ \A t \in TORs : h[t] = f[t] + g[t] /\ h[t] <= Backing(mint[p])[t]
        /\ Terms(h, TORs)
    BY <2>1, <2>2 DEF Terms
  <2> HIDE DEF h
  <2>5. SumFunctionOnSet(h, TORs)
          = SumFunctionOnSet(f, TORs) + SumFunctionOnSet(g, TORs)
    BY <2>2, <2>4, SumAdd
  <2>6. SumFunctionOnSet(h, TORs) <= SumFunctionOnSet(Backing(mint[p]), TORs)
    BY Zenon, <2>2, <2>4, SumMonotonic
  <2> QED
    BY Zenon, <2>3, <2>5, <2>6
<1>5. veto[p] <= holding["council"]
  <2>1. \A t \in TORs : KindWeights(r, "Veto")[t] <= Backing("council")[t]
    BY <1>2 DEF KindWeights, Backing, Fits
  <2>2. SumFunctionOnSet(KindWeights(r, "Veto"), TORs)
          <= SumFunctionOnSet(Backing("council"), TORs)
    BY Zenon, <1>3, <2>1, SumMonotonic
  <2> QED
    BY Zenon, <2>2 DEF TalliesMatchRecords, DepositsHeld, Mints, r
<1> QED
  BY Zenon, <1>4, <1>5

\* In every reachable state live tallies are backed.
LEMMA LiveTallyAlwaysBacked == Spec => []LiveTallyBacked
BY DepositsBackTallies, TypeCorrect, VotesAlwaysFit, LiveVotesAlwaysBacked,
   TalliesAlwaysMatchRecords, DepositsAlwaysHeld, PTL

\* Where voter weight comes from deposits, no open vote of any number of members
\* weighs more than the tokens in the holding account, and so no more than
\* the supply the max voter weight is computed from.
THEOREM OpenTallyAlwaysBacked == Spec => []OpenTallyBackedBySupply
<1>1. VotesFit /\ LiveTallyBacked => OpenTallyBackedBySupply
  BY DEF VotesFit, Fits, LiveTallyBacked, OpenTallyBackedBySupply
<1> QED
  BY <1>1, VotesAlwaysFit, LiveTallyAlwaysBacked, PTL

-----------------------------------------------------------------------------
(* A decision is the outcome of the vote *)

\* What the results r of a proposal say of its tallies w and d, and of the
\* captured max voter weight and threshold.
ResultsWon(r, w, d, max, threshold) ==
    \A o \in Options :
        (r[o] = "Succeeded" /\ max > 0) =>
            100 * w[o] >= threshold * max /\ w[o] > d

\* What tallies an electorate vote leaves is within the max voter weight it is
\* tipped with: the weights are deposits in the holding account.
LEMMA CastWithinMax ==
  ASSUME TypeOK, NEW b, IsBallot(b, Options), NEW m \in Mints, NEW o,
         b.options = {o}, b.weight[o] + b.deny <= holding[m],
         NEW max \in MaxVoterWeights(b, m, "Electorate")
  PROVE  MaxOptionWeight(b) = b.weight[o] /\ b.weight[o] + b.deny <= max
<1>1. /\ b.weight[o] \in Nat /\ b.deny \in Nat /\ holding[m] \in Nat
      /\ free[m] \in Nat
  BY VoteMathAssumption DEF IsBallot, TypeOK, RecordTypeOK
<1>2. MaxOptionWeight(b) = b.weight[o]
  BY Zenon, MaxOptionWeightIsMax
<1>3. CastWeight(b, "Electorate") = b.weight[o] + b.deny
  BY Zenon, <1>2 DEF CastWeight
<1>4. b.weight[o] + b.deny <= Supply(m)
  BY <1>1 DEF Supply
<1>5. \A w \in Nat :
         b.weight[o] + b.deny <= CoerceMaxVoterWeight(b, w, "Electorate")
  BY <1>1, <1>3 DEF CoerceMaxVoterWeight
<1>6. CASE UsesMaxVoterWeightAddin(m)
  BY Zenon, <1>2, <1>5, <1>6, GovernanceAssumption DEF MaxVoterWeights
<1>7. CASE ~UsesMaxVoterWeightAddin(m)
  <2> DEFINE fraction == realm.community_mint_max_vote_weight_fraction
  <2>1. fraction \in 1 .. FractionBase /\ Supply(m) \in Nat
    <3>1. fraction \in 1 .. FractionBase
      BY Zenon, GovernanceAssumption DEF TypeOK, RealmTypeOK, IsValidRealmConfig
    <3>2. Supply(m) \in Nat
      BY <1>1 DEF Supply
    <3> QED
      BY Zenon, <3>1, <3>2
  <2> HIDE DEF fraction
  <2>2. (Supply(m) * fraction) \div FractionBase \in Nat
    BY <2>1, ProductIsNat, QuotientIsNat, VoteMathAssumption
  <2>3. max = GetMaxVoterWeightFromMintSupply(
                  b, m = "council", fraction, Supply(m), "Electorate")
    BY Zenon, <1>7 DEF MaxVoterWeights, fraction
  <2> QED
    BY Zenon, <1>2, <1>4, <1>5, <2>2, <2>3 DEF GetMaxVoterWeightFromMintSupply
<1> QED
  BY Zenon, <1>6, <1>7

\* The outcome of a proposal: no result before the decision, and then results
\* and vetoes that the tallies justify.
OutcomeOK(p) ==
    /\ state[p] \in UndecidedStates \cup {"Absent"} =>
          \A o \in Options : result[p][o] = "None"
    /\ WeightsFromDeposits =>
          ResultsWon(result[p], weight[p], deny[p], max_vote_weight[p],
                     vote_threshold[p])
    /\ state[p] = "Vetoed" =>
          /\ mint[p] = "community"
          /\ 100 * veto[p] >= vote_threshold[p] * max_vote_weight[p]
          /\ \A o \in Options : result[p][o] = "None"

\* A vote that nobody relinquished stays so while votes are cast.
LEMMA CastVoteLive ==
  ASSUME TypeOK, VotesFit, NEW p \in Proposals, NEW t \in TORs,
         NEW vote \in Votes, CastVote(p, t, vote)
  PROVE  \A u \in TORs : ~vote_record'[p][u].relinquished
<1>1. PICK w : vote_record' = [vote_record EXCEPT
         ![p][t] = [kind |-> vote.kind, choices |-> vote.choices,
                    weight |-> w, relinquished |-> FALSE]]
  BY Zenon DEF CastVote
<1>2. state[p] = "Voting"
  BY Zenon DEF CastVote, CanCastVote
<1>3. \A u \in TORs : ~vote_record[p][u].relinquished
  BY Zenon, <1>2 DEF VotesFit, Fits
<1>4. vote_record \in [Proposals -> [TORs -> VoteRecords]]
  BY Zenon DEF TypeOK, VoteTypeOK
<1> QED
  BY Zenon, <1>1, <1>3, <1>4

\* The options of a proposal are finitely many.
LEMMA OptionsAreFinite ==
  \A S : S \subseteq Options => IsFiniteSet(S)
<1>1. IsFiniteSet(Options)
  BY FS_Interval, Bounds DEF Options
<1> QED
  BY Zenon, <1>1, FS_Subset

\* What Decide writes on the proposal.
LEMMA DecideWrites ==
  ASSUME TypeOK, NEW p \in Proposals, NEW s, NEW r, NEW max, NEW th,
         Decide(p, s, r, max, th)
  PROVE  /\ state'[p] = s /\ result'[p] = r
         /\ max_vote_weight'[p] = max /\ vote_threshold'[p] = th
<1>1. /\ state' = [state EXCEPT ![p] = s] /\ result' = [result EXCEPT ![p] = r]
      /\ max_vote_weight' = [max_vote_weight EXCEPT ![p] = max]
      /\ vote_threshold' = [vote_threshold EXCEPT ![p] = th]
  BY Zenon DEF Decide
<1> QED
  BY Zenon, <1>1 DEF TypeOK, ProposalTypeOK, VoteTypeOK

\* A weight that reaches the threshold weight is the percentage of the max voter
\* weight.
LEMMA ReachesThreshold ==
  ASSUME NEW th \in VoteThresholds, NEW max \in Nat, NEW w \in 0 .. MaxU64,
         w >= GetMinVoteThresholdWeight(th, max)
  PROVE  100 * w >= th * max
<1>1. th \in Nat /\ w \in Nat
  BY VoteMathAssumption DEF VoteThresholds
<1> QED
  BY Zenon, <1>1, ThresholdIsLeast

\* A proposal is tipped to Succeeded only when its only option is won.
LEMMA TippedIsWon ==
  ASSUME NEW b, IsBallot(b, Options), NEW th \in VoteThresholds,
         NEW max \in Nat, NEW tipping, NEW o, b.options = {o}, max > 0,
         MaxOptionWeight(b) = b.weight[o], b.weight[o] + b.deny <= max,
         TipsSucceeded(YesWeight(b), b.deny, max, tipping,
                       GetMinVoteThresholdWeight(th, max))
  PROVE  100 * b.weight[o] >= th * max /\ b.weight[o] > b.deny
<1>1. b.weight[o] \in 0 .. MaxU64 /\ b.deny \in 0 .. MaxU64
  BY Zenon DEF IsBallot
<1>2. b.weight[o] \in Nat /\ b.deny \in Nat /\ max \in Nat \ {0}
  BY <1>1, VoteMathAssumption
<1>3. TipsSucceeded(b.weight[o], b.deny, max, tipping,
                    GetMinVoteThresholdWeight(th, max))
  BY Zenon DEF YesWeight
<1> QED
  BY Zenon, <1>2, <1>3, TipIsWon

\* What tipping says of the ballot.
LEMMA TippedMeans ==
  ASSUME NEW b, NEW max, NEW tipping, NEW th, NEW k
  PROVE  LET tipped == TryGetTippedVoteState(b, max, tipping, th, k)
             min    == GetMinVoteThresholdWeight(th, max)
         IN  /\ tipped = "Vetoed" => k = "Veto" /\ b.veto >= min
             /\ tipped = "Succeeded" =>
                   /\ k = "Electorate" /\ CanTip(b)
                   /\ TipsSucceeded(YesWeight(b), b.deny, max, tipping, min)
  BY Zenon DEF TryGetTippedVoteState

\* The only option of a ballot that can tip.
LEMMA OnlyOption ==
  ASSUME NEW b, IsBallot(b, Options), CanTip(b), NEW o \in b.options
  PROVE  b.options = {o}
<1>1. IsFiniteSet(b.options) /\ Cardinality(b.options) = 1
  BY Zenon, OptionsAreFinite DEF CanTip, IsBallot
<1>2. \E x : b.options = {x}
  BY Zenon, <1>1, FS_Singleton
<1> QED
  BY Zenon, <1>2

\* The outcome after a step, from what the step writes on the proposal.
LEMMA OutcomeAfter ==
  ASSUME NEW p \in Proposals,
         \/ \A o \in Options : result'[p][o] = "None"
         \/ state'[p] \notin UndecidedStates \cup {"Absent"},
         WeightsFromDeposits =>
             ResultsWon(result'[p], weight'[p], deny'[p], max_vote_weight'[p],
                        vote_threshold'[p]),
         state'[p] = "Vetoed" =>
             /\ mint'[p] = "community"
             /\ 100 * veto'[p] >= vote_threshold'[p] * max_vote_weight'[p]
             /\ \A o \in Options : result'[p][o] = "None"
  PROVE  OutcomeOK(p)'
  BY Zenon DEF OutcomeOK, ResultsWon, WeightsFromDeposits

\* A vote tips its proposal to Succeeded only when it is won, and to Vetoed only
\* with the quorum of the council.
LEMMA CastVoteOutcome ==
  ASSUME TypeOK, TypeOK', VotesFit, LiveTallyBacked', NEW p \in Proposals,
         OutcomeOK(p), NEW t \in TORs, NEW vote \in Votes, CastVote(p, t, vote)
  PROVE  OutcomeOK(p)'
<1> DEFINE m == MintOf(t)
           vote_kind == GetVoteKind(vote)
           threshold == VoteThreshold(m, vote_kind)
<1>1. PICK w \in VoterWeights(t) :
         LET b == AddVote(p, vote, w)
         IN  /\ FitsU64(b)
             /\ \E max \in MaxVoterWeights(b, m, vote_kind) :
                LET tipped == TryGetTippedVoteState(
                        b, max, config.vote_tipping, threshold, vote_kind)
                IN  IF tipped = "Voting"
                    THEN UNCHANGED <<state, outcomeVars, outstanding,
                                     voting_proposal_count>>
                    ELSE Decide(p, tipped, TippedResult(b, result[p], tipped),
                                max, threshold)
             /\ SetTallies(p, b)
  BY Zenon DEF CastVote
<1> DEFINE b == AddVote(p, vote, w)
<1>2. w \in Nat /\ m \in Mints /\ threshold \in VoteThresholds
  BY Zenon, VoterWeightsType, Addresses, VoteThresholdType
<1>3. IsBallot(b, Options)
  BY Zenon, <1>1, <1>2, AddVoteType
<1>4. PICK max \in MaxVoterWeights(b, m, vote_kind) :
         LET tipped == TryGetTippedVoteState(
                 b, max, config.vote_tipping, threshold, vote_kind)
         IN  IF tipped = "Voting"
             THEN UNCHANGED <<state, outcomeVars, outstanding,
                              voting_proposal_count>>
             ELSE Decide(p, tipped, TippedResult(b, result[p], tipped),
                         max, threshold)
  BY Zenon, <1>1
<1> DEFINE tipped == TryGetTippedVoteState(
               b, max, config.vote_tipping, threshold, vote_kind)
           min == GetMinVoteThresholdWeight(threshold, max)
<1>5. max \in Nat
  BY Zenon, <1>2, <1>3, MaxVoterWeightsType
<1>6. /\ state[p] = "Voting" /\ VotesOn(m, vote_kind, p)
      /\ mint' = mint /\ holding' = holding
  BY Zenon DEF CastVote, CanCastVote, draftVars, tokenVars
<1>7. /\ \A o \in Options : result[p][o] = "None"
      /\ DOMAIN result[p] = Options
  BY Zenon, <1>6 DEF OutcomeOK, UndecidedStates, TypeOK, VoteTypeOK
<1>8. weight'[p] = b.weight /\ deny'[p] = b.deny /\ veto'[p] = b.veto
  BY Zenon, <1>1, TalliesWritten
<1>9. /\ tipped = "Voting" => UNCHANGED <<state, outcomeVars>>
      /\ tipped # "Voting" =>
            Decide(p, tipped, TippedResult(b, result[p], tipped), max, threshold)
  BY Zenon, <1>4
<1>10. /\ tipped = "Vetoed" => vote_kind = "Veto" /\ b.veto >= min
       /\ tipped = "Succeeded" =>
             /\ vote_kind = "Electorate" /\ CanTip(b)
             /\ TipsSucceeded(YesWeight(b), b.deny, max, config.vote_tipping, min)
  BY Zenon, TippedMeans
<1>11. tipped \in {"Voting", "Vetoed", "Succeeded", "Defeated"}
  BY Zenon, TippedVoteStateType
<1> HIDE DEF threshold, b, m, vote_kind, min, tipped
<1>12. CASE tipped = "Voting"
  <2>1. state' = state /\ result' = result
    BY Zenon, <1>9, <1>12 DEF outcomeVars
  <2>2. /\ \A o \in Options : result'[p][o] = "None"
        /\ state'[p] # "Vetoed"
    BY Zenon, <1>6, <1>7, <2>1
  <2> QED
    BY Zenon, <2>2, OutcomeAfter DEF ResultsWon
<1>13. CASE tipped # "Voting"
  <2>1. /\ state'[p] = tipped /\ max_vote_weight'[p] = max
        /\ vote_threshold'[p] = threshold
        /\ result'[p] = TippedResult(b, result[p], tipped)
    BY Zenon, <1>9, <1>13, DecideWrites
  <2>2. CASE tipped = "Vetoed"
    <3>1. result'[p] = result[p]
      BY Zenon, <2>1, <2>2 DEF TippedResult
    <3>2. 100 * b.veto >= threshold * max
      BY Zenon, <1>2, <1>3, <1>5, <1>10, <2>2, ReachesThreshold DEF IsBallot, min
    <3>3. mint'[p] = "community"
      BY Zenon, <1>6, <1>10, <2>2 DEF VotesOn
    <3>4. /\ \A o \in Options : result'[p][o] = "None"
          /\ 100 * veto'[p] >= vote_threshold'[p] * max_vote_weight'[p]
      BY Zenon, <1>7, <1>8, <2>1, <3>1, <3>2
    <3> QED
      BY Zenon, <3>3, <3>4, OutcomeAfter DEF ResultsWon
  <2>3. CASE tipped = "Defeated"
    <3>1. \A o \in Options : result'[p][o] # "Succeeded"
      BY Zenon, <1>7, <2>1, <2>3 DEF TippedResult
    <3>2. state'[p] \notin UndecidedStates \cup {"Absent"} /\ state'[p] # "Vetoed"
      BY Zenon, <2>1, <2>3 DEF UndecidedStates
    <3> QED
      BY Zenon, <3>1, <3>2, OutcomeAfter DEF ResultsWon
  <2>4. CASE tipped = "Succeeded"
    <3>1. mint'[p] = m
      BY Zenon, <1>6, <1>10, <2>4 DEF VotesOn
    <3>2. ASSUME WeightsFromDeposits, NEW o \in Options,
                 result'[p][o] = "Succeeded", max > 0
          PROVE  100 * b.weight[o] >= threshold * max /\ b.weight[o] > b.deny
      <4>1. o \in b.options
        BY Zenon, <1>7, <2>1, <2>4, <3>2 DEF TippedResult
      <4>2. b.options = {o}
        BY Zenon, <1>3, <1>10, <2>4, <4>1, OnlyOption
      <4>3. b.weight[o] + b.deny <= holding[m]
        <5>1. weight'[p][o] + deny'[p] <= holding'[mint'[p]]
          BY Zenon, <3>2, CastVoteLive DEF LiveTallyBacked, WeightsFromDeposits
        <5> QED
          BY Zenon, <1>6, <1>8, <3>1, <5>1
      <4>4. max \in MaxVoterWeights(b, m, "Electorate")
        BY Zenon, <1>10, <2>4
      <4>5. MaxOptionWeight(b) = b.weight[o] /\ b.weight[o] + b.deny <= max
        BY Zenon, <1>2, <1>3, <4>2, <4>3, <4>4, CastWithinMax
      <4> QED
        BY Zenon, <1>2, <1>3, <1>5, <1>10, <2>4, <3>2, <4>2, <4>5, TippedIsWon
        DEF min
    <3>3. state'[p] \notin UndecidedStates \cup {"Absent"} /\ state'[p] # "Vetoed"
      BY Zenon, <2>1, <2>4 DEF UndecidedStates
    <3>4. WeightsFromDeposits =>
             ResultsWon(result'[p], weight'[p], deny'[p], max_vote_weight'[p],
                        vote_threshold'[p])
      BY Zenon, <1>8, <2>1, <3>2 DEF ResultsWon
    <3> QED
      BY Zenon, <3>3, <3>4, OutcomeAfter
  <2> QED
    BY Zenon, <1>11, <1>13, <2>2, <2>3, <2>4
<1> QED
  BY Zenon, <1>12, <1>13

\* FinalizeVote lets only options succeed that have won.
LEMMA FinalizeVoteOutcome ==
  ASSUME TypeOK, TypeOK', NEW p \in Proposals, OutcomeOK(p), FinalizeVote(p)
  PROVE  OutcomeOK(p)'
<1> DEFINE b == Ballot(p)
           threshold == VoteThreshold(mint[p], "Electorate")
<1>1. PICK max \in MaxVoterWeights(b, mint[p], "Electorate") :
         Decide(p, ResolveFinalVoteState(b, max, threshold),
                ResolvedResult(b, result[p], max, threshold), max, threshold)
  BY Zenon DEF FinalizeVote
<1> DEFINE min == GetMinVoteThresholdWeight(threshold, max)
<1>2. IsBallot(b, Options) /\ b.has_deny \in BOOLEAN
  BY Zenon, BallotType
<1>3. threshold \in VoteThresholds /\ mint[p] \in Mints
  BY Zenon, VoteThresholdType DEF TypeOK, ProposalTypeOK
<1> HIDE DEF threshold
<1>4. max \in Nat
  BY Zenon, <1>2, <1>3, MaxVoterWeightsType
<1>5. min \in Nat
  <2>1. threshold \in Nat
    BY <1>3 DEF VoteThresholds
  <2> QED
    BY Zenon, <1>4, <2>1, MinWeightType
<1>6. state[p] = "Voting" /\ weight' = weight /\ deny' = deny
  BY Zenon DEF FinalizeVote, CanFinalizeVote, tallyVars
<1>7. /\ b.weight = weight'[p] /\ b.deny = deny'[p]
      /\ \A o \in Options : result[p][o] = "None"
  BY Zenon, <1>6 DEF Ballot, OutcomeOK, UndecidedStates
<1> HIDE DEF b, min
<1>8. /\ state'[p] = ResolveFinalVoteState(b, max, threshold)
      /\ result'[p] = ResolvedResult(b, result[p], max, threshold)
      /\ max_vote_weight'[p] = max /\ vote_threshold'[p] = threshold
  BY Zenon, <1>1, DecideWrites
<1>9. state'[p] \in {"Completed", "Defeated", "Succeeded"}
  BY <1>2, <1>8, ResolveFinalVoteStateType
<1>10. ASSUME NEW o \in Options, result'[p][o] = "Succeeded"
       PROVE  100 * b.weight[o] >= threshold * max /\ b.weight[o] > b.deny
  <2>1. DOMAIN result[p] = Options
    BY Zenon DEF TypeOK, VoteTypeOK
  <2>2. result'[p][o] = IF o \in b.options THEN FinalResult(b, min, o)
                                           ELSE result[p][o]
    BY Zenon, <1>8, <2>1 DEF ResolvedResult, min
  <2>3. o \in b.options /\ FinalResult(b, min, o) = "Succeeded"
    BY Zenon, <1>7, <1>10, <2>2
  <2>4. b.weight[o] >= min /\ b.weight[o] > b.deny
    BY Zenon, <1>2, <1>5, <2>3, FinalResultIsWon
  <2> QED
    BY Zenon, <1>2, <1>3, <1>4, <2>4, ReachesThreshold DEF min, IsBallot
<1>11. /\ state'[p] \notin UndecidedStates \cup {"Absent"}
       /\ state'[p] # "Vetoed"
  BY Zenon, <1>9 DEF UndecidedStates
<1>12. ResultsWon(result'[p], weight'[p], deny'[p], max_vote_weight'[p],
                  vote_threshold'[p])
  BY Zenon, <1>7, <1>8, <1>10 DEF ResultsWon
<1> QED
  BY Zenon, <1>11, <1>12, OutcomeAfter

Outcomes == \A p \in Proposals : OutcomeOK(p)

\* Every step keeps the outcomes justified.
LEMMA NextOutcomes ==
  TypeOK /\ TypeOK' /\ Lifecycle /\ VotesFit /\ LiveTallyBacked' /\ Outcomes
      /\ [Next]_vars => Outcomes'
<1> SUFFICES ASSUME TypeOK, TypeOK', Lifecycle, VotesFit, LiveTallyBacked',
                    Outcomes, [Next]_vars, NEW p \in Proposals
             PROVE  OutcomeOK(p)'
  BY Zenon DEF Outcomes
<1>1. OutcomeOK(p)
  BY Zenon DEF Outcomes
<1>2. CASE state[p] # "Voting"
  <2>1. OutcomeUnchanged(p)
    BY Zenon, <1>2, OutcomeFrame
  <2>2. /\ state'[p] \in UndecidedStates \cup {"Absent"} =>
              state[p] \in UndecidedStates \cup {"Absent"}
        /\ state'[p] = "Vetoed" => state[p] = "Vetoed" /\ mint'[p] = mint[p]
    BY Zenon, <1>2, ClosedVoteSteps
  <2>3. \/ \A o \in Options : result'[p][o] = "None"
        \/ state'[p] \notin UndecidedStates \cup {"Absent"}
    BY Zenon, <1>1, <2>1, <2>2 DEF OutcomeUnchanged, OutcomeOK
  <2>4. WeightsFromDeposits =>
           ResultsWon(result'[p], weight'[p], deny'[p], max_vote_weight'[p],
                      vote_threshold'[p])
    BY Zenon, <1>1, <2>1 DEF OutcomeUnchanged, OutcomeOK
  <2>5. state'[p] = "Vetoed" =>
           /\ mint'[p] = "community"
           /\ 100 * veto'[p] >= vote_threshold'[p] * max_vote_weight'[p]
           /\ \A o \in Options : result'[p][o] = "None"
    BY Zenon, <1>1, <2>1, <2>2 DEF OutcomeUnchanged, OutcomeOK
  <2> QED
    BY Zenon, <2>3, <2>4, <2>5, OutcomeAfter
<1>3. CASE state[p] = "Voting"
  <2>1. CASE result'[p] = result[p] /\ state'[p] \in {"Voting", "Cancelled"}
    <3>1. \A o \in Options : result'[p][o] = "None"
      BY Zenon, <1>1, <1>3, <2>1 DEF OutcomeOK, UndecidedStates
    <3> QED
      BY Zenon, <2>1, <3>1, OutcomeAfter DEF ResultsWon
  <2>2. CASE ~VoteOn(p)
    BY Zenon, <1>3, <2>1, <2>2, VoteFrame, OpenVoteSteps DEF OutcomeUnchanged
  <2>3. CASE \E t \in TORs : RelinquishVote(p, t)
    BY Zenon, <1>3, <2>1, <2>3 DEF RelinquishVote, outcomeVars
  <2>4. CASE CancelProposal(p)
    <3>1. result' = result /\ state' = [state EXCEPT ![p] = "Cancelled"]
      BY Zenon, <2>4 DEF CancelProposal, voteVars, outcomeVars
    <3>2. state'[p] = "Cancelled"
      BY Zenon, <3>1, Tables
    <3> QED
      BY Zenon, <2>1, <3>1, <3>2
  <2> QED
    BY Zenon, <1>1, <2>2, <2>3, <2>4, CastVoteOutcome, FinalizeVoteOutcome
    DEF VoteOn
<1> QED
  BY Zenon, <1>2, <1>3

\* In every reachable state the outcomes are justified.
LEMMA OutcomesAlwaysOK == Spec => []Outcomes
<1>1. Init => Outcomes
  BY DEF Init, Outcomes, OutcomeOK, ResultsWon
<1> QED
  BY <1>1, NextOutcomes, TypeCorrect, LifecycleInvariant, VotesAlwaysFit,
     LiveTallyAlwaysBacked, PTL DEF Spec

\* Where voter weight comes from deposits, an option only succeeds with the
\* threshold share of the max voter weight and more approval than rejection,
\* whether the vote was tipped early or finalized.
THEOREM SucceededAlwaysWon == Spec => []SucceededMeansWon
<1>1. Outcomes => SucceededMeansWon
  BY DEF Outcomes, OutcomeOK, ResultsWon, SucceededMeansWon
<1> QED
  BY <1>1, OutcomesAlwaysOK, PTL

\* Only the council vetoes, only a proposal of the community, and only with its
\* quorum; a vetoed proposal has no results.
THEOREM VetoAlwaysHasQuorum == Spec => []VetoHasQuorum
<1>1. Outcomes => VetoHasQuorum
  BY DEF Outcomes, OutcomeOK, VetoHasQuorum
<1> QED
  BY <1>1, OutcomesAlwaysOK, PTL
====
