---------------------------- MODULE FileTransfer ----------------------------
(***************************************************************************)
(* What the TFTP server promises about the card, whatever the network      *)
(* does: one client at a time; a writing client's blocks enter the file    *)
(* one after the other, from the first, each once; nobody else touches the *)
(* file; a session may end after any block.                                *)
(***************************************************************************)
EXTENDS Naturals, Sequences

CONSTANTS
  Writers, Readers,   \* the clients, by what they ask for
  NBlocks,            \* blocks a writing client sends
  NOld,               \* blocks of the file before
  None

VARIABLES
  owner,              \* the client served, or None
  moved,              \* blocks moved in this session, 0 outside one
  file                \* the blocks of the file on the card

vars == <<owner, moved, file>>

OldFile == [i \in 1 .. NOld |-> <<None, i>>]
Torn    == <<None, 0>>

\* Block i of the file becomes b; the file grows when it ends before.
Put(f, i, b) == IF i > Len(f) THEN Append(f, b) ELSE [f EXCEPT ![i] = b]

OpenToWrite == /\ owner = None /\ owner' \in Writers
               /\ UNCHANGED <<moved, file>>

\* The first block is fetched with the request.
OpenToRead  == /\ owner = None /\ owner' \in Readers
               /\ moved' \in {0, 1} /\ moved' <= Len(file)
               /\ UNCHANGED file

Store == /\ owner \in Writers /\ moved < NBlocks
         /\ file' = Put(file, moved + 1, <<owner, moved + 1>>)
         /\ \/ owner' = owner /\ moved' = moved + 1
            \/ owner' = None /\ moved' = 0 /\ moved + 1 = NBlocks

\* A failed write leaves the block it was writing undefined.
Spoil == /\ owner \in Writers
         /\ file' = Put(file, moved + 1, Torn)
         /\ owner' = None /\ moved' = 0

Fetch == /\ owner \in Readers /\ moved < Len(file)
         /\ moved' = moved + 1
         /\ UNCHANGED <<owner, file>>

Close == owner # None /\ owner' = None /\ moved' = 0 /\ UNCHANGED file

Init == owner = None /\ moved = 0 /\ file = OldFile
Next == OpenToWrite \/ OpenToRead \/ Store \/ Spoil \/ Fetch \/ Close
Spec == Init /\ [][Next]_vars
=============================================================================
