----------------------------- MODULE MCInterface ----------------------------
(* TLC instance: every instruction, with and without a multisig and optional *)
(* accounts, through the builders and through the client.                    *)
EXTENDS InterfaceProperties
=============================================================================
