--------------------------- MODULE MCConfidential ---------------------------
(* An instance of ConfidentialTransfer for TLC. *)
EXTENDS ConfidentialTransferProperties

CONSTANTS a, b      \* two accounts

VARIABLES
    paid,       \* history: the accounts that were paid withheld fees
    left        \* bound: the steps that are left, of each kind

Spaces == {{"TransferFeeConfig"}}
Rooms == {{"TransferFeeAmount"}}
CreatedWith == {{"MintTokens"}, FeeAuthorities}
Half == {[basis_points |-> 5000, maximum_fee |-> 1]}

\* A mint with fees and two accounts that are set up; one holds a token, the
\* other deposited the rest of the supply and applied it.
Fee(e, points) == [epoch |-> e, basis_points |-> points, maximum_fee |-> 1]
Configured == [NoCt EXCEPT !.is_configured = TRUE, !.approved = TRUE,
                           !.allow_credits = TRUE]
Ready ==
    /\ mint = [m \in Mints |-> [NoMint EXCEPT
           !.is_initialized = TRUE, !.supply = MaxU64,
           !.authorities = {"MintTokens"} \cup FeeAuthorities,
           !.extensions = {"TransferFeeConfig"},
           !.older = Fee(0, 0), !.newer = Fee(1, 5000)]]
    /\ account = [x \in Accounts |-> [NoAccount EXCEPT
           !.state = "Initialized", !.mint = CHOOSE m \in Mints : TRUE,
           !.amount = IF x = a THEN 1 ELSE 0,
           !.extensions = {"TransferFeeAmount"}]]
    /\ epoch = 1
    /\ ct_mint = [m \in Mints |-> [NoCtMint EXCEPT
           !.is_initialized = TRUE, !.authority = TRUE]]
    /\ ct = [x \in Accounts |->
           IF x = a THEN Configured
           ELSE [Configured EXCEPT
               !.available = Plain(MaxU64 - 1), !.decryptable = MaxU64 - 1,
               !.counter = 1, !.expected = 1, !.actual = 1]]
    /\ read = [x \in Accounts |-> NoReading]

\* Few steps of the base program, or few that configure, among the moves.
MCInit ==
    /\ paid = {}
    /\ \/ CtInit /\ left = [base |-> 3, configure |-> 2, move |-> 0]
       \/ Ready /\ left \in {[base |-> 1, configure |-> 0, move |-> 4],
                             [base |-> 0, configure |-> 1, move |-> 4],
                             [base |-> 0, configure |-> 0, move |-> 6]}

MCNext ==
    /\ \/ /\ left.base > 0 /\ left' = [left EXCEPT !.base = @ - 1]
          /\ BaseStep
       \/ /\ left.configure > 0 /\ left' = [left EXCEPT !.configure = @ - 1]
          /\ ConfigureNext
       \/ /\ left.move > 0 /\ left' = [left EXCEPT !.move = @ - 1]
          /\ CtMoveNext \/ CtFeeNext
    /\ paid' = {x \in Accounts :
           \/ x \in paid
           \/ /\ ct'[x].pending.noise > ct[x].pending.noise
              /\ ct'[x].counter = ct[x].counter}

MCSpec == MCInit /\ [][MCNext]_<<ct_vars, paid, left>>

\* ApplyPendingBalance of owners that read before every instruction, and that
\* are not paid withheld fees.
AppliedAsRead == DecryptableConsistent(Waiting \ paid)

=============================================================================
