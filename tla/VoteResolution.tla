--------------------------- MODULE VoteResolution ---------------------------
(***************************************************************************)
(* One proposal while votes arrive and nobody withdraws a vote: the        *)
(* tallies only grow, and together they never exceed the max voter weight. *)
(* The module checks the resolution rules of VoteMath against what they    *)
(* promise, and the loop of resolve_final_vote_state against the           *)
(* declarative definition the other modules use.                           *)
(***************************************************************************)
EXTENDS VoteMath

CONSTANTS
    Shapes,           \* records [single, options, has_deny]
    MaxVoterWeights,  \* max voter weights to consider
    Percentages       \* vote threshold percentages to consider

VARIABLES
    ballot,   \* the tallies, as VoteMath describes them
    max,      \* max voter weight of this vote
    pct       \* YesVotePercentage of this vote

vars == <<ballot, max, pct>>

EmptyBallot(shape) ==
    [single   |-> shape.single,
     options  |-> shape.options,
     has_deny |-> shape.has_deny,
     weight   |-> [o \in shape.options |-> 0],
     deny     |-> 0,
     veto     |-> 0]

Init ==
    /\ ballot \in {EmptyBallot(s) : s \in Shapes}
    /\ max \in MaxVoterWeights
    /\ pct \in Percentages

\* Electorate weight cast so far when every voter approves one option.
RECURSIVE SumWeights(_, _)
SumWeights(weight, S) ==
    IF S = {} THEN 0
    ELSE LET o == CHOOSE x \in S : TRUE
         IN  weight[o] + SumWeights(weight, S \ {o})

Total == SumWeights(ballot.weight, ballot.options) + ballot.deny

\* A voter of weight w approves one option.
Approve(o, w) ==
    /\ Total + w <= max
    /\ ballot' = [ballot EXCEPT !.weight[o] = @ + w]
    /\ UNCHANGED <<max, pct>>

\* A voter of weight w rejects the proposal.
Deny(w) ==
    /\ ballot.has_deny
    /\ Total + w <= max
    /\ ballot' = [ballot EXCEPT !.deny = @ + w]
    /\ UNCHANGED <<max, pct>>

Next ==
    \E w \in 1 .. max :
        \/ \E o \in ballot.options : Approve(o, w)
        \/ Deny(w)

Spec == Init /\ [][Next]_vars

-----------------------------------------------------------------------------
(* The code's single pass over the options *)

\* best_succeeded_option_weight and best_succeeded_option_count after the
\* options from..last.
RECURSIVE Scan(_, _, _, _, _)
Scan(b, min, from, weight, count) ==
    IF from \notin b.options THEN <<weight, count>>
    ELSE IF ~Passes(b, from, min) THEN Scan(b, min, from + 1, weight, count)
    ELSE IF b.weight[from] > weight
         THEN Scan(b, min, from + 1, b.weight[from], 1)
    ELSE IF b.weight[from] = weight
         THEN Scan(b, min, from + 1, weight, count + 1)
    ELSE Scan(b, min, from + 1, weight, count)

LoopState(b, min) ==
    LET scan  == Scan(b, min, 1, 0, 0)
        voted == IF scan[2] = 0 THEN "Defeated"
                 ELSE IF b.single /\ scan[2] > 1 THEN "Defeated"
                 ELSE "Succeeded"
    IN  IF b.has_deny THEN voted ELSE "Completed"

LoopResult(b, min, o) ==
    LET scan    == Scan(b, min, 1, 0, 0)
        winning == IF scan[2] > 1 THEN MaxU64 ELSE scan[1]
        coerce  == b.single /\ scan[2] > 0
        result(won) == IF won THEN "Succeeded" ELSE "Defeated"
    IN  IF coerce THEN result(b.weight[o] = winning)
                  ELSE result(Passes(b, o, min))

-----------------------------------------------------------------------------
(* Properties *)

MinWeight == GetMinVoteThresholdWeight(pct, max)

FinalState == ResolveFinalVoteState(ballot, max, pct)

Tipped(tipping) ==
    TryGetTippedVoteState(ballot, max, tipping, pct, "Electorate")

\* The single pass of resolve_final_vote_state computes the declarative
\* outcome: same proposal state, same result on every option.
LoopAgrees ==
    /\ LoopState(ballot, MinWeight) = FinalState
    /\ \A o \in ballot.options :
          LoopResult(ballot, MinWeight, o) = FinalResult(ballot, MinWeight, o)

\* VoteTipping::Strict tips "when there is no way for another option to win":
\* whatever the remaining voters do, a tipped outcome stays tipped and the
\* resolution at the end of the voting time would give the same state.
StrictTipIsFinal ==
    [][\A s \in {"Succeeded", "Defeated"} :
          max > 0 /\ Tipped("Strict") = s
            => Tipped("Strict")' = s /\ FinalState = s /\ FinalState' = s]_vars

\* Early tipping is at least as eager as strict tipping, and both agree with
\* the final resolution on the votes cast so far.
EarlyTipMatchesFinal ==
    /\ max > 0 /\ Tipped("Early") # "Voting" => Tipped("Early") = FinalState
    /\ Tipped("Strict") = "Succeeded" => Tipped("Early") = "Succeeded"
=============================================================================
