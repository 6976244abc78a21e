SPECIFICATION Spec
CONSTANTS
    Signers = {0, 1, 3}
    Counts = {0, 1, 3}
    Validators = {0, 1, 2, 3, 4, 5}
    MAX_VALIDATORS_TO_UPDATE = 2
    Disputed = {"multisig_withdraws_withheld_tokens"}
INVARIANTS
    Accepted
