------------------------- MODULE StakePoolProperties -------------------------
(***************************************************************************)
(* What the stake pool program has to guarantee.                           *)
(***************************************************************************)
EXTENDS StakePool

StakeStatuses == {"None", "Active", "DeactivatingTransient", "ReadyForRemoval"}
StakeAccounts ==
    [kind : {"None", "Stake", "Initialized"}, amount : Nat, since : Epochs]
TransientAccounts ==
    [kind : {"None", "Activating", "Deactivating", "Initialized"},
     amount : Nat, since : Epochs]
Entries == [status : StakeStatuses, active : Nat, transient : Nat,
            last_update : Epochs, seed : Seeds]

\* Type correctness; in particular the pool's amounts stay in u64 and no balance
\* of the list or of an account ever becomes negative.
TypeOK ==
    /\ epoch \in Epochs /\ last_update_epoch \in Epochs
    /\ total_lamports \in Amounts /\ pool_token_supply \in Amounts /\ reserve \in Nat
    /\ tokens \in [users : Nat, manager : Nat]
    /\ preferred \in [deposit : Validators \cup {None}, withdraw : Validators \cup {None}]
    /\ fee \in [FeeKinds -> Ratio]
    /\ next_fee \in [NextEpochKinds -> Ratio \cup {None}]
    /\ list \in [Validators -> Entries]
    /\ stake \in [Validators -> StakeAccounts]
    /\ transient \in [Validators -> [Seeds -> TransientAccounts]]
    /\ fee_account \in BOOLEAN

-----------------------------------------------------------------------------
(* Lamports *)

Lamports(a) == IF a.kind = "None" THEN 0 ELSE Rent + a.amount
Withdrawable(a) == IF a.kind = "None" THEN 0 ELSE a.amount - MinimumActive

\* What is in a stake account a and in transient accounts t of a validator.
Lent(t) == [s \in Seeds |-> Lamports(t[s])]
Worth(a, t) == Withdrawable(a) + SumFunctionOnSet(Lent(t), Seeds)
OfValidators == [v \in Validators |-> Worth(stake[v], transient[v])]

\* The lamports the pool owes its token holders exist at any moment, in the
\* reserve or in stake accounts of the pool, whatever is being moved, merged or
\* waiting for an update (total_lamports against the accounts).
Solvent ==
    total_lamports <= reserve - MinimumReserveLamports
                      + SumFunctionOnSet(OfValidators, Validators)

\* When the pool counts as updated in this epoch, each entry of the validator
\* list states what is in the validator's accounts, however the update was cut
\* into transactions and whatever was added, removed, moved or deposited since.
\* A transient account that was destaked is possibly not counted.
UpToDateIsAccurate ==
    UpToDate => \A v \in Listed :
        /\ list[v].last_update = epoch
        /\ list[v].active = Withdrawable(stake[v])
        /\ \/ list[v].transient = Lamports(Transient(v))
           \/ list[v].transient = 0 /\ Transient(v).kind = "Initialized"

\* A validator's stake account exists exactly as long as its entry is active,
\* and delegated transient stake always belongs to an entry that will not be
\* cleaned up: removing a validator and cleaning up the list lose no stake.
DelegatedStakeListed ==
    \A v \in Validators :
        /\ stake[v].kind # "None" <=> list[v].status = "Active"
        /\ \A s \in Seeds : transient[v][s].kind \in {"Activating", "Deactivating"} =>
              /\ list[v].status \in {"Active", "DeactivatingTransient"}
              /\ list[v].seed = s /\ list[v].transient > 0

-----------------------------------------------------------------------------
(* Pool tokens *)

\* The supply the pool computes prices with is never below the tokens that
\* exist, although holders burn tokens behind its back.
SupplyCovers == PoolMintSupply <= pool_token_supply

\* Accounts that were destaked in a cluster restart and whose lamports no entry
\* of the list counts.
Abandoned ==
    \E v \in Validators, s \in Seeds :
        /\ transient[v][s].kind = "Initialized"
        /\ ~(v \in Listed /\ list[v].seed = s /\ list[v].transient > 0)

\* The value of a pool token never falls: no deposit, withdrawal, fee or update
\* leaves a token worth less, up to the lamport by which a withdrawal is rounded
\* up.
PriceHolds ==
    [][pool_token_supply > 0 /\ ~Abandoned =>
         total_lamports' * pool_token_supply + pool_token_supply
             > total_lamports * pool_token_supply']_vars

\* A fee on withdrawals is announced only while the pool is up to date and takes
\* effect with the first update of a later epoch, so that holders can leave
\* before.  It becomes at most 3/2 of what it was, or of 1/1000 if there was
\* none, however often the manager sets it.
WithdrawalFeesRiseSlowly ==
    [][\A k \in WithdrawalKinds :
         /\ next_fee'[k] \notin {None, next_fee[k]} => last_update_epoch >= epoch
         /\ fee'[k] # fee[k] =>
               /\ last_update_epoch < last_update_epoch'
               /\ IF fee[k].num = 0 \/ fee[k].den = 0
                  THEN 2000 * fee'[k].num <= 3 * fee'[k].den
                  ELSE 2 * fee'[k].num * fee[k].den <= 3 * fee[k].num * fee'[k].den]_vars
=============================================================================
