------------------------ MODULE ConfidentialTransfer ------------------------
(***************************************************************************)
(* The confidential transfer extension of token-2022                       *)
(* (token/program-2022/src/extension/confidential_transfer/), on top of    *)
(* module Token2022: tokens are deposited from the public amount of an     *)
(* account into its encrypted pending balance, the owner applies the       *)
(* pending balance to the available one, transfers from that to the        *)
(* pending balance of others, and withdraws to public amounts.  The owner  *)
(* keeps its own balance in decryptable_available_balance, computed from   *)
(* an earlier reading of the account; counters tell whether it still fits. *)
(*                                                                         *)
(* A ciphertext is the amount in its commitment and the number of random   *)
(* encryptions that were summed up in it: only one without any is zeroed() *)
(* again when its amount is.  The keys it can be decrypted with are left   *)
(* out.  A proof is what its verification establishes.                     *)
(***************************************************************************)
EXTENDS Token2022

CONSTANTS
    Waiting     \* the accounts whose owner reads it again before every
                \* instruction; the others use one reading for several

VARIABLES
    ct_mint,    \* [Mints -> ConfidentialTransferMint]
    ct,         \* [Accounts -> ConfidentialTransferAccount]
    read        \* [Accounts -> what the owner last read of it]

ct_vars == <<mint, account, epoch, ct_mint, ct, read>>

Zeroed == [amount |-> 0, noise |-> 0]

\* ops::add_to and ops::subtract_from add no randomness.
Plain(amount) == [amount |-> amount, noise |-> 0]
Encryption(amount) == [amount |-> amount, noise |-> 1]
Plus(c, d) == [amount |-> c.amount + d.amount, noise |-> c.noise + d.noise]
Minus(c, d) == [amount |-> c.amount - d.amount, noise |-> c.noise + d.noise]

NoCtMint == [is_initialized |-> FALSE, authority |-> FALSE,
             auto_approve |-> FALSE, withheld |-> Zeroed]
NoCt == [is_configured |-> FALSE, approved |-> FALSE, pending |-> Zeroed,
         available |-> Zeroed, decryptable |-> 0, allow_credits |-> FALSE,
         counter |-> 0, expected |-> 0, actual |-> 0, withheld |-> Zeroed]
NoReading == [is_read |-> FALSE, known |-> 0, available |-> Zeroed,
              pending |-> 0, counter |-> 0]

CtInit ==
    /\ Init
    /\ ct_mint = [m \in Mints |-> NoCtMint]
    /\ ct = [a \in Accounts |-> NoCt]
    /\ read = [a \in Accounts |-> NoReading]

-----------------------------------------------------------------------------
(* Configuration *)

\* Before the mint itself is initialized; whatever is given, is stored.
InitializeCtMint(m, authority, auto_approve) ==
    /\ ~mint[m].is_initialized
    /\ ct_mint' = [ct_mint EXCEPT ![m] =
           [is_initialized |-> TRUE, authority |-> authority,
            auto_approve |-> auto_approve, withheld |-> Zeroed]]
    /\ UNCHANGED <<mint, account, epoch, ct, read>>

\* The whole extension is replaced, withheld_amount included.
UpdateMint(m, authority, auto_approve, withheld) ==
    /\ mint[m].is_initialized
    /\ ct_mint[m].is_initialized /\ ct_mint[m].authority
    /\ ct_mint' = [ct_mint EXCEPT ![m] =
           [is_initialized |-> TRUE, authority |-> authority,
            auto_approve |-> auto_approve, withheld |-> withheld]]
    /\ UNCHANGED <<mint, account, epoch, ct, read>>

\* init_extension overwrites an extension that is there already.
ConfigureAccount(a) ==
    /\ IsInitialized(a)
    /\ mint[account[a].mint].is_initialized
    /\ ct_mint[account[a].mint].is_initialized
    /\ ct' = [ct EXCEPT ![a] = [NoCt EXCEPT
           !.is_configured = TRUE, !.allow_credits = TRUE,
           !.approved = ct_mint[account[a].mint].auto_approve]]
    /\ read' = [read EXCEPT ![a] = NoReading]
    /\ UNCHANGED <<mint, account, epoch, ct_mint>>

\* By the authority of any mint: the mint of the account is not compared.
ApproveAccount(a, m) ==
    /\ IsInitialized(a) /\ mint[m].is_initialized
    /\ ct_mint[m].is_initialized /\ ct_mint[m].authority
    /\ ct[a].is_configured
    /\ ct' = [ct EXCEPT ![a].approved = TRUE]
    /\ UNCHANGED <<mint, account, epoch, ct_mint, read>>

\* DisableBalanceCredits and EnableBalanceCredits
AllowBalanceCredits(a, allow) ==
    /\ IsInitialized(a)
    /\ ct[a].is_configured
    /\ ct' = [ct EXCEPT ![a].allow_credits = allow]
    /\ UNCHANGED <<mint, account, epoch, ct_mint, read>>

-----------------------------------------------------------------------------
(* The client: what it reads, and what it proves from that *)

\* The balance the owner takes for its own: the decryptable one, unless the
\* counters say that it is out of date; then it decrypts the available one.
ReadAccount(a) ==
    /\ ct[a].is_configured
    /\ read' = [read EXCEPT ![a] =
           [is_read |-> TRUE,
            known |-> IF ct[a].expected = ct[a].actual
                      THEN ct[a].decryptable ELSE ct[a].available.amount,
            available |-> ct[a].available,
            pending |-> ct[a].pending.amount,
            counter |-> ct[a].counter]]
    /\ UNCHANGED <<mint, account, epoch, ct_mint, ct>>

\* WithdrawData and TransferData: the amount was covered by what was read.
Proven(a, amount) ==
    /\ read[a].is_read
    /\ read[a].known = read[a].available.amount
    /\ amount <= read[a].known

\* What remains of the reading after an instruction of the owner.
Used(a) == IF a \in Waiting THEN [read EXCEPT ![a] = NoReading] ELSE read

-----------------------------------------------------------------------------
(* Moving tokens *)

MayUse(a, m) ==
    account[a].state = "Initialized" /\ account[a].mint = m

Credit(r, c) == [r EXCEPT !.pending = Plus(@, c), !.counter = @ + 1]

MayBeCredited(r) == r.is_configured /\ r.approved /\ r.allow_credits

Deposit(src, dst, m, amount) ==
    /\ mint[m].is_initialized
    /\ MayUse(src, m)
    /\ account[src].amount >= amount
    /\ MayUse(dst, m)
    /\ MayBeCredited(ct[dst])
    /\ account' = [account EXCEPT ![src].amount = @ - amount]
    /\ ct' = [ct EXCEPT ![dst] = Credit(ct[dst], Plain(amount))]
    /\ UNCHANGED <<mint, epoch, ct_mint, read>>

\* Variant: the result is not compared with the one in the proof.
AnyBalance(a, amount) == TRUE

\* The proof is about the balance that is reduced.
FinalCiphertextAgrees(a, amount) ==
    Minus(ct[a].available, Plain(amount)) = Minus(read[a].available, Plain(amount))

\* An account need not be approved.
Withdraw(src, dst, m, amount) ==
    /\ mint[m].is_initialized
    /\ Proven(src, amount)
    /\ MayUse(src, m)
    /\ ct[src].is_configured
    /\ FinalCiphertextAgrees(src, amount)
    /\ MayUse(dst, m)
    /\ account[dst].amount + amount <= MaxU64
    /\ ct' = [ct EXCEPT ![src].available = Minus(@, Plain(amount)),
                        ![src].decryptable = read[src].known - amount]
    /\ account' = [account EXCEPT ![dst].amount = @ + amount]
    /\ read' = Used(src)
    /\ UNCHANGED <<mint, epoch, ct_mint>>

\* The fee parameters that process_transfer expects of the proof.
FeeParameters(m) ==
    IF mint[m].newer.epoch < epoch THEN mint[m].older ELSE mint[m].newer

\* None for a transfer of an account to itself.
EncryptedFee(src, dst, m, amount) ==
    IF MintHas(m, "TransferFeeConfig") /\ src # dst
    THEN Encryption(Calculate(FeeParameters(m), amount)) ELSE Zeroed

\* process_source_for_transfer: the new balance is not compared with the proof.
SourceForTransfer(src, amount) ==
    [ct[src] EXCEPT !.available = Minus(@, Encryption(amount)),
                    !.decryptable = read[src].known - amount]

\* Variant: the fee is withheld and not taken off the transfer.
DestinationKeepsFee(r, amount, fee) ==
    [Credit(r, Encryption(amount)) EXCEPT !.withheld = Plus(@, fee)]

\* process_destination_for_transfer
DestinationForTransfer(r, amount, fee) ==
    [Credit(r, Encryption(amount)) EXCEPT
        !.pending = Minus(@, fee), !.withheld = Plus(@, fee)]

\* Transfer and TransferWithFee
CtTransfer(src, dst, m, amount) ==
    LET sent == [ct EXCEPT ![src] = SourceForTransfer(src, amount)]
        fee == EncryptedFee(src, dst, m, amount)
    IN  /\ mint[m].is_initialized /\ ct_mint[m].is_initialized
        /\ Proven(src, amount)
        /\ MayUse(src, m)
        /\ ct[src].is_configured /\ ct[src].approved
        /\ MayUse(dst, m)
        /\ MayBeCredited(ct[dst])
        /\ ct' = [sent EXCEPT ![dst] =
               DestinationForTransfer(sent[dst], amount, fee)]
        /\ read' = Used(src)
        /\ UNCHANGED <<mint, account, epoch, ct_mint>>

\* Variant: the counter of the instruction is taken for the actual one.
AppliedAsExpected(a) ==
    [ct[a] EXCEPT !.available = Plus(@, ct[a].pending), !.pending = Zeroed,
                  !.actual = read[a].counter, !.expected = read[a].counter,
                  !.decryptable = read[a].known + read[a].pending]

\* The account after ApplyPendingBalance, whatever arrived since the reading.
Applied(a) ==
    [ct[a] EXCEPT !.available = Plus(@, ct[a].pending), !.pending = Zeroed,
                  !.actual = ct[a].counter, !.expected = read[a].counter,
                  !.decryptable = read[a].known + read[a].pending]

ApplyPendingBalance(a) ==
    /\ IsInitialized(a)
    /\ ct[a].is_configured
    /\ read[a].is_read
    /\ ct' = [ct EXCEPT ![a] = Applied(a)]
    /\ read' = Used(a)
    /\ UNCHANGED <<mint, account, epoch, ct_mint>>

\* The proof is that the available balance is an encryption of 0.
EmptyAccount(a) ==
    /\ IsInitialized(a)
    /\ ct[a].is_configured
    /\ ct[a].pending = Zeroed
    /\ ct[a].available.amount = 0
    /\ ct[a].withheld = Zeroed
    /\ ct' = [ct EXCEPT ![a].available = Zeroed]
    /\ read' = Used(a)
    /\ UNCHANGED <<mint, account, epoch, ct_mint>>

-----------------------------------------------------------------------------
(* Withheld fees *)

\* Accounts of other mints, or without the extension, are skipped.
CtHarvestable(m, list) ==
    {a \in list : IsInitialized(a) /\ account[a].mint = m /\ ct[a].is_configured}

CtWithheldIn(list) ==
    [amount |-> SumFunctionOnSet([a \in Accounts |-> ct[a].withheld.amount], list),
     noise |-> SumFunctionOnSet([a \in Accounts |-> ct[a].withheld.noise], list)]

WithoutWithheld(list) ==
    [a \in Accounts |->
        IF a \in list THEN [ct[a] EXCEPT !.withheld = Zeroed] ELSE ct[a]]

CtHarvestWithheldTokensToMint(m, list) ==
    LET harvest == CtHarvestable(m, list)
    IN  /\ mint[m].is_initialized /\ MintHas(m, "TransferFeeConfig")
        /\ ct_mint[m].is_initialized
        /\ ct_mint' = [ct_mint EXCEPT ![m].withheld =
               Plus(@, CtWithheldIn(harvest))]
        /\ ct' = WithoutWithheld(harvest)
        /\ UNCHANGED <<mint, account, epoch, read>>

\* No credit is counted, and credits need not be allowed.
CtWithdrawWithheldTokensFromMint(m, dst) ==
    /\ HasAuthority(m, "WithheldWithdraw")
    /\ MintHas(m, "TransferFeeConfig")
    /\ ct_mint[m].is_initialized
    /\ MayUse(dst, m)
    /\ ct[dst].is_configured /\ ct[dst].approved
    /\ ct' = [ct EXCEPT ![dst].pending =
           Plus(@, Encryption(ct_mint[m].withheld.amount))]
    /\ ct_mint' = [ct_mint EXCEPT ![m].withheld = Zeroed]
    /\ UNCHANGED <<mint, account, epoch, read>>

\* The sum itself is added, not its encryption for the destination.
CtWithdrawWithheldTokensFromAccounts(m, dst, list) ==
    LET harvest == CtHarvestable(m, list)
    IN  /\ HasAuthority(m, "WithheldWithdraw")
        /\ MintHas(m, "TransferFeeConfig")
        /\ ct_mint[m].is_initialized
        /\ MayUse(dst, m)
        /\ ct[dst].is_configured /\ ct[dst].approved
        /\ ct' = [WithoutWithheld(harvest) EXCEPT ![dst].pending =
               Plus(@, CtWithheldIn(harvest))]
        /\ UNCHANGED <<mint, account, epoch, ct_mint, read>>

-----------------------------------------------------------------------------
(* The program *)

Closable(r) ==
    r.pending = Zeroed /\ r.available = Zeroed /\ r.withheld = Zeroed

\* An instruction of the base program.  CloseAccount also asks the extension,
\* and what is closed loses its extensions.
BaseStep ==
    /\ Next
    /\ \A a \in Accounts : account'[a] = NoAccount => Closable(ct[a])
    /\ ct' = [a \in Accounts |->
           IF account'[a].state = "Uninitialized" THEN NoCt ELSE ct[a]]
    /\ read' = [a \in Accounts |->
           IF account'[a].state = "Uninitialized" THEN NoReading ELSE read[a]]
    /\ ct_mint' = [m \in Mints |->
           IF mint[m].is_initialized /\ ~mint'[m].is_initialized
           THEN NoCtMint ELSE ct_mint[m]]

ConfigureNext ==
    \/ \E m \in Mints, authority, auto_approve \in BOOLEAN :
          \/ InitializeCtMint(m, authority, auto_approve)
          \/ \E withheld \in {Zeroed, ct_mint[m].withheld} :
                UpdateMint(m, authority, auto_approve, withheld)
    \/ \E a \in Accounts :
          \/ ConfigureAccount(a)
          \/ \E m \in Mints : ApproveAccount(a, m)
          \/ \E allow \in BOOLEAN : AllowBalanceCredits(a, allow)

CtMoveNext ==
    \/ \E a \in Accounts :
          ReadAccount(a) \/ ApplyPendingBalance(a) \/ EmptyAccount(a)
    \/ \E src, dst \in Accounts, m \in Mints, amount \in Amounts :
          \/ Deposit(src, dst, m, amount)
          \/ Withdraw(src, dst, m, amount)
          \/ CtTransfer(src, dst, m, amount)

CtFeeNext ==
    \E m \in Mints :
        \/ \E list \in SUBSET Accounts : CtHarvestWithheldTokensToMint(m, list)
        \/ \E a \in Accounts : CtWithdrawWithheldTokensFromMint(m, a)
        \/ \E a \in Accounts, list \in SUBSET Accounts :
              CtWithdrawWithheldTokensFromAccounts(m, a, list)

CtNext == BaseStep \/ ConfigureNext \/ CtMoveNext \/ CtFeeNext

CtSpec == CtInit /\ [][CtNext]_ct_vars
=============================================================================
