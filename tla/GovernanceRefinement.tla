------------------------ MODULE GovernanceRefinement ------------------------
(***************************************************************************)
(* Governance as an implementation of ProposalOutcome: what a member of    *)
(* the realm can observe of a proposal is the phase it is in and the       *)
(* transactions that have run.                                             *)
(***************************************************************************)
EXTENDS GovernanceProperties

Phase(s) ==
    CASE s = "Absent" -> "Absent"
      [] s \in {"Draft", "SigningOff"} -> "Preparing"
      [] s = "Voting" -> "Voting"
      [] s \in ApprovedStates -> "Approved"
      [] OTHER -> "Closed"

Outcome == INSTANCE ProposalOutcome WITH
    phase <- [p \in Proposals |-> Phase(state[p])],
    done  <- [p \in Proposals |-> Ran(p)]

\* Every instruction, seen through Phase and Ran, is a step ProposalOutcome
\* allows: closed proposals stay closed, transactions run only while approved
\* and at most once.
ImplementsOutcome == Outcome!Spec

=============================================================================
