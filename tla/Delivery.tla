------------------------------ MODULE Delivery ------------------------------
(***************************************************************************)
(* What p2pft promises about the file a receiver saves.  A transfer is     *)
(* accepted for the file with a given SHA-256 digest.  It ends either by   *)
(* replacing the destination, in one step, with a file that has exactly    *)
(* that digest, or with the destination untouched: no truncated, mixed or  *)
(* half-written destination, whatever fails on the way, and at most one    *)
(* replacement for each transfer the user accepted.                        *)
(***************************************************************************)
CONSTANTS
    Files,        \* every file content there could be
    Digests,      \* every SHA-256 digest
    Sha256(_),    \* the digest of a content
    None          \* no file, no transfer

VARIABLES
    offer,        \* digest of the transfer under way, None between transfers
    dest          \* content at the destination path, None when there is none

vars == <<offer, dest>>

Init ==
    /\ offer = None
    /\ dest = None

Accept ==
    /\ offer = None
    /\ offer' \in Digests
    /\ UNCHANGED dest

Deliver ==
    /\ dest' \in Files
    /\ offer = Sha256(dest')
    /\ offer' = None

Abandon ==
    /\ offer \in Digests
    /\ offer' = None
    /\ UNCHANGED dest

Next == Accept \/ Deliver \/ Abandon

Spec == Init /\ [][Next]_vars
=============================================================================
