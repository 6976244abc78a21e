-------------------------------- MODULE Wire --------------------------------
(***************************************************************************)
(* What clients and programs exchange: the accounts of an instruction with *)
(* their privileges (AccountMeta, AccountInfo) and bytes.                  *)
(*                                                                         *)
(* An account is the name of its role.  A handler's list of accounts has   *)
(* the same form as a client's: there signer and writable are what the     *)
(* handler insists on or needs, for a change of data or lamports of its    *)
(* own or of a program it calls.                                           *)
(*                                                                         *)
(* A byte is the field it belongs to and its place in it, or a number.     *)
(***************************************************************************)
EXTENDS Naturals, Sequences, SequencesExt

(* Accounts *)

Meta(name, signer, writable) == [name |-> name, signer |-> signer, writable |-> writable]

\* AccountMeta::new_readonly and AccountMeta::new
R(name) == Meta(name, FALSE, FALSE)
RS(name) == Meta(name, TRUE, FALSE)
W(name) == Meta(name, FALSE, TRUE)
WS(name) == Meta(name, TRUE, TRUE)

If(condition, metas) == IF condition THEN metas ELSE <<>>

\* The same role for n accounts.
Times(n, meta) == [i \in 1 .. n |-> meta]

\* Whether the privileges that come with an account are those that are needed.
Suffices(given, needed) ==
    (needed.signer => given.signer) /\ (needed.writable => given.writable)

\* A handler takes accounts, in its order, and then calls other programs.
Handler(takes, calls) == [takes |-> takes, calls |-> calls]

\* A call of another program: its instruction, which accounts of the caller stand
\* in the places of that instruction's accounts, and for which of them the caller
\* signs with the seeds of a program address.
Call(program, ix, roles, seeds) ==
    [program |-> program, ix |-> ix, roles |-> roles, seeds |-> seeds]

\* An instruction of a transaction: of a program or one of its extensions.  roles
\* names the accounts of an instruction of the system or stake program; about, what
\* a proof is a proof of.
Instruction(family, ix, roles, about) ==
    [family |-> family, ix |-> ix, roles |-> roles, about |-> about]
Ix(family, ix) == Instruction(family, ix, <<>>, "nothing")
IxOn(family, ix, roles) == Instruction(family, ix, roles, "nothing")
Proof(ix, about) == Instruction("proof", ix, <<>>, about)

-----------------------------------------------------------------------------
(* Bytes *)

Number(k) == <<<<"number", k>>>>
Bytes(field, width) == [i \in 1 .. width |-> <<field, i>>]
U8(field) == Bytes(field, 1)
U64(field) == Bytes(field, 8)
Key(field) == Bytes(field, 32)

\* How a field is taken from the front of the bytes that remain: a fixed width,
\* a number that announces whether one follows, or all that is left.
Take(field, width) == [field |-> field, kind |-> "fixed", width |-> width]
TakeOption(field, width) == [field |-> field, kind |-> "option", width |-> width]
TakeRest(field) == [field |-> field, kind |-> "rest", width |-> 0]

Failed == [ok |-> FALSE, fields |-> <<>>, rest |-> <<>>]

\* fields are pairs of a name and the bytes read for it.
Taken(sofar, field, bytes, rest) ==
    [ok |-> TRUE, fields |-> Append(sofar.fields, <<field, bytes>>), rest |-> rest]

TakeItem(sofar, item) ==
    LET rest == sofar.rest
        fixed(bytes) ==
            IF Len(bytes) < item.width THEN Failed
            ELSE Taken(sofar, item.field, SubSeq(bytes, 1, item.width),
                       SubSeq(bytes, item.width + 1, Len(bytes)))
    IN  CASE ~sofar.ok -> Failed
          [] sofar.ok /\ item.kind = "rest" -> Taken(sofar, item.field, rest, <<>>)
          [] sofar.ok /\ item.kind = "fixed" -> fixed(rest)
          [] sofar.ok /\ item.kind = "option" ->
                IF rest = <<>> THEN Failed
                ELSE CASE <<Head(rest)>> = Number(0) ->
                             Taken(sofar, item.field, <<>>, Tail(rest))
                       [] <<Head(rest)>> = Number(1) -> fixed(Tail(rest))
                       [] OTHER -> Failed

Parse(items, bytes) ==
    FoldLeft(TakeItem, [ok |-> TRUE, fields |-> <<>>, rest |-> bytes], items)

\* What a program makes of data: the instruction and its fields, read from the
\* front or filling the data exactly, or an extension that reads the rest.
Entry(ix, items) == [ix |-> ix, items |-> items, kind |-> "front"]
Exactly(ix, items) == [ix |-> ix, items |-> items, kind |-> "exact"]
Extension(name) == [ix |-> name, items |-> <<>>, kind |-> "extension"]

\* Each field that was read holds its own bytes, and no byte was left out.
IsFaithful(parsed, bytes) ==
    /\ parsed.ok
    /\ \A i \in DOMAIN parsed.fields :
          LET f == parsed.fields[i] IN f[2] = Bytes(f[1], Len(f[2]))
    /\ LET size(n, f) == n + Len(f[2])
       IN  FoldLeft(size, 0, parsed.fields)
               = Len(SelectSeq(bytes, LAMBDA b : b[1] # "number"))
=============================================================================
