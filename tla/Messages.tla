------------------------------ MODULE Messages ------------------------------
(***************************************************************************)
(* What a message goes through between two nodes: it is written in one     *)
(* form and read back from it (Encodings), and what was written is split   *)
(* into packets and joined again (SplitJoin).  A behaviour is one of       *)
(* either.                                                                 *)
(***************************************************************************)
EXTENDS SplitJoin

CONSTANTS NameLen, Payloads, CheckBytes, IndexMod

VARIABLES part,
          stack, size, phase, layer, field, cursor, base, wrote, got,
          kind, value, form, back

wireVars == <<stack, size, phase, layer, field, cursor, base, wrote, got>>
formVars == <<kind, value, form, back>>

All == INSTANCE Encodings WITH Stacks <- {}, Cuts <- {}
E == INSTANCE Encodings WITH Stacks <- All!MCStacks, Cuts <- All!MCCuts

NotSplit == length = 1 /\ parity = 0 /\ packets = << >>
MessagesInit ==
  \/ part = "split" /\ Init /\ E!NoMessage /\ E!NoForm
  \/ part = "encode" /\ NotSplit /\ E!EncodingsInit
MessagesNext ==
  \/ part = "split" /\ Next /\ UNCHANGED <<part, wireVars, formVars>>
  \/ part = "encode" /\ E!EncodingsNext /\ UNCHANGED <<part, vars>>
MessagesSpec == MessagesInit /\ [][MessagesNext]_<<part, vars, wireVars, formVars>>

-----------------------------------------------------------------------------
\* Len of every message reserves what its Encode writes, its length check
\* refuses what its reads could not take, and the copy of the routing header
\* behind a request is whole.
RoomIsEnough == E!RoomIsEnough

\* Every Decode finds each field where the Encode of the type put it, and leaves
\* none out.
ReadsWhatWasWritten == E!ReadsWhatWasWritten

\* Every value of Forms is read back as it was written.
ReadsBack == E!ReadsBack
=============================================================================
