------------------------------ MODULE VoteMath ------------------------------
(***************************************************************************)
(* How the governance program turns vote weights into the outcome of a     *)
(* proposal: the threshold weight, the max voter weight, the tipping rules *)
(* applied after every vote, and the resolution once the voting time is    *)
(* over (governance/program/src/state/proposal.rs).                        *)
(*                                                                         *)
(* A ballot is what the resolution reads of ProposalV2:                    *)
(*   single    TRUE for VoteType::SingleChoice, FALSE for MultiChoice      *)
(*   options   the indexes of the options                                  *)
(*   has_deny  whether deny_vote_weight is Some (executable proposal)      *)
(*   weight    the vote weight of every option                             *)
(*   deny      deny_vote_weight.unwrap_or(0)                               *)
(*   veto      veto_vote_weight                                            *)
(***************************************************************************)
EXTENDS Integers, FiniteSets

CONSTANTS
    MaxU64,        \* u64::MAX
    FractionBase   \* MintMaxVoteWeightSource::SUPPLY_FRACTION_BASE

ASSUME VoteMathAssumption == MaxU64 \in Nat /\ FractionBase \in Nat \ {0}

\* VoteThreshold: a YesVotePercentage of 1..100 is that number.  Percentage 0
\* is refused by assert_is_valid_vote_threshold, so 0 encodes Disabled.
Disabled == 0
VoteThresholds == 0 .. 100
VoteTippings == {"Strict", "Early", "Disabled"}
OptionVoteResults == {"None", "Succeeded", "Defeated"}

\* u64::saturating_sub
SaturatingSub(a, b) == IF a >= b THEN a - b ELSE 0

\* Definitions marked "Variant" are faulty versions of the definition that
\* follows; they serve to show that the properties notice the fault.

\* Variant: division rounded down.
RoundedDownThreshold(pct, max_voter_weight) == (pct * max_voter_weight) \div 100

\* The least weight that is at least pct percent of max_voter_weight: a
\* division rounded up.
GetMinVoteThresholdWeight(pct, max_voter_weight) ==
    LET numerator == pct * max_voter_weight
        floor     == numerator \div 100
    IN  IF floor * 100 < numerator THEN floor + 1 ELSE floor

-----------------------------------------------------------------------------
(* Max voter weight *)

MaxOptionWeight(b) ==
    CHOOSE w \in {b.weight[o] : o \in b.options} :
        \A o \in b.options : b.weight[o] <= w

\* The weight already cast in a vote of this kind.
CastWeight(b, kind) ==
    IF kind = "Electorate" THEN MaxOptionWeight(b) + b.deny ELSE b.veto

CoerceMaxVoterWeight(b, max_voter_weight, kind) ==
    IF CastWeight(b, kind) > max_voter_weight
    THEN CastWeight(b, kind) ELSE max_voter_weight

\* The fraction applies to the community mint only, and a full fraction
\* returns the supply without coercion.
GetMaxVoterWeightFromMintSupply(b, is_council, fraction, supply, kind) ==
    IF is_council \/ fraction = FractionBase
    THEN supply
    ELSE CoerceMaxVoterWeight(b, (supply * fraction) \div FractionBase, kind)

-----------------------------------------------------------------------------
(* Tipping *)

\* Only a yes/no question can tip: one option and a deny option.
CanTip(b) == b.single /\ b.has_deny /\ Cardinality(b.options) = 1

YesWeight(b) == MaxOptionWeight(b)

\* Variant: an even split is enough.
TipsSucceededOnTie(yes, deny, max, tipping, min) ==
    \/ yes = max
    \/ /\ deny # max
       /\ yes >= min
       /\ \/ tipping = "Strict" /\ yes >= SaturatingSub(max, yes)
          \/ tipping = "Early"  /\ yes >= deny

TipsSucceeded(yes, deny, max, tipping, min) ==
    \/ yes = max
    \/ /\ deny # max
       /\ yes >= min
       /\ \/ tipping = "Strict" /\ yes > SaturatingSub(max, yes)
          \/ tipping = "Early"  /\ yes > deny

TipsDefeated(yes, deny, max, tipping, min) ==
    /\ ~TipsSucceeded(yes, deny, max, tipping, min)
    /\ \/ deny = max
       \/ /\ tipping # "Disabled"
          /\ \/ deny > SaturatingSub(max, min)
             \/ deny >= SaturatingSub(max, deny)

\* The state a vote of this kind tips the proposal into, "Voting" for None.
TryGetTippedVoteState(b, max, tipping, pct, kind) ==
    LET min == GetMinVoteThresholdWeight(pct, max)
    IN  CASE kind = "Veto" /\ b.veto >= min -> "Vetoed"
          [] kind = "Electorate" /\ CanTip(b)
             /\ TipsSucceeded(YesWeight(b), b.deny, max, tipping, min)
               -> "Succeeded"
          [] kind = "Electorate" /\ CanTip(b)
             /\ TipsDefeated(YesWeight(b), b.deny, max, tipping, min)
               -> "Defeated"
          [] OTHER -> "Voting"

\* Tipping an electorate vote also writes the result of the only option.  A
\* veto leaves the results as they are.
TippedResult(b, result, tipped) ==
    IF tipped \in {"Succeeded", "Defeated"}
    THEN [o \in DOMAIN result |-> IF o \in b.options THEN tipped ELSE result[o]]
    ELSE result

-----------------------------------------------------------------------------
(* Resolution after the voting time *)

\* An option passes with the threshold weight and strictly more than the deny
\* option: a tie with deny is lost.
Passes(b, o, min) == b.weight[o] >= min /\ b.weight[o] > b.deny

Passing(b, min) == {o \in b.options : Passes(b, o, min)}

\* The options of greatest weight among the passing ones.
Best(b, min) ==
    {o \in Passing(b, min) :
        \A q \in Passing(b, min) : b.weight[q] <= b.weight[o]}

\* Variant: the options tied for the first place all win.
FinalResultIgnoringTie(b, min, o) ==
    IF b.single /\ Passing(b, min) # {}
    THEN IF o \in Best(b, min) THEN "Succeeded" ELSE "Defeated"
    ELSE IF o \in Passing(b, min) THEN "Succeeded" ELSE "Defeated"

\* A single choice with a tie for the first place has no winner.  The code
\* then compares every weight with u64::MAX.
FinalResult(b, min, o) ==
    IF b.single /\ Passing(b, min) # {}
    THEN LET winning == IF Cardinality(Best(b, min)) > 1
                        THEN MaxU64
                        ELSE b.weight[CHOOSE q \in Best(b, min) : TRUE]
         IN  IF b.weight[o] = winning THEN "Succeeded" ELSE "Defeated"
    ELSE IF o \in Passing(b, min) THEN "Succeeded" ELSE "Defeated"

ResolveFinalVoteState(b, max, pct) ==
    LET min == GetMinVoteThresholdWeight(pct, max)
    IN  CASE ~b.has_deny -> "Completed"
          [] b.has_deny /\ Passing(b, min) = {} -> "Defeated"
          [] b.has_deny /\ Passing(b, min) # {} ->
               IF b.single /\ Cardinality(Best(b, min)) > 1
               THEN "Defeated" ELSE "Succeeded"

\* The vote result written on every option of the proposal.
ResolvedResult(b, result, max, pct) ==
    [o \in DOMAIN result |->
        IF o \in b.options
        THEN FinalResult(b, GetMinVoteThresholdWeight(pct, max), o)
        ELSE result[o]]
=============================================================================
