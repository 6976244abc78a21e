--------------------------- MODULE ProposalOutcome ---------------------------
(***************************************************************************)
(* What a proposal promises its electorate, without the mechanism: it is   *)
(* prepared, voted on once, and either closed for good or approved; only   *)
(* an approved proposal runs transactions, each at most once; nothing      *)
(* happens to a closed proposal.  Governance implements this specification *)
(* (GovernanceRefinement!Outcome).                                         *)
(***************************************************************************)
CONSTANTS
    Proposals,   \* proposals that may be opened
    Slots        \* places for transactions of a proposal

VARIABLES
    phase,       \* of every proposal
    done         \* transactions of the proposal that have run

outcomeVars == <<phase, done>>

Init ==
    /\ phase = [p \in Proposals |-> "Absent"]
    /\ done = [p \in Proposals |-> {}]

Move(p, from, to) ==
    /\ phase[p] = from
    /\ phase' = [phase EXCEPT ![p] = to]
    /\ UNCHANGED done

Open(p)      == Move(p, "Absent", "Preparing")
StartVote(p) == Move(p, "Preparing", "Voting")
Abandon(p)   == Move(p, "Preparing", "Closed")
Approve(p)   == Move(p, "Voting", "Approved")
Reject(p)    == Move(p, "Voting", "Closed")

\* Running transactions that have not run before, possibly the last ones.
Run(p, X) ==
    /\ phase[p] = "Approved"
    /\ X # {} /\ X \cap done[p] = {}
    /\ done' = [done EXCEPT ![p] = @ \cup X]
    /\ phase' \in {phase, [phase EXCEPT ![p] = "Closed"]}

Next ==
    \E p \in Proposals :
        \/ Open(p) \/ StartVote(p) \/ Abandon(p) \/ Approve(p) \/ Reject(p)
        \/ \E X \in SUBSET Slots : Run(p, X)

Spec == Init /\ [][Next]_outcomeVars
=============================================================================
