------------------------ MODULE InterfaceProperties -------------------------
(***************************************************************************)
(* What the builders and the client promise those who use them.            *)
(***************************************************************************)
EXTENDS Interface

\* A handler takes with each next_account_info the account the builder meant to stand
\* there, through every program that is called: as many accounts are given as are
\* taken, in the same order, for every combination of optional accounts and signers.
AccountsAgree ==
    \A j \in DOMAIN stack :
        stack[j].phase = "run" =>
            [a \in DOMAIN stack[j].left |-> stack[j].left[a].name]
                = [a \in DOMAIN stack[j].needs |-> stack[j].needs[a].name]

\* What a program reads is what was packed: unpack dispatches each instruction to its
\* own handler, with or without extension, and every field gets its own bytes and no
\* byte of them is left over, optional keys included.
DecodedAsEncoded ==
    \A j \in DOMAIN stack :
        LET frame == stack[j]
        IN  frame.phase = "run" =>
                /\ frame.reads = ReaderOf(frame.i.family)
                /\ frame.ix = frame.i.ix
                /\ Table(frame.reads) # <<>> => IsFaithful(frame.fields, Data(frame.i))

\* A transaction that a builder or a client method makes is never refused for what it
\* is made of: each signature and each writable account that a handler insists on, or
\* that a program it calls insists on, was asked for; the keypairs the client signs
\* with are those; memos and proofs stand where the handlers look for them.
Accepted == outcome # "rejected"
=============================================================================
