-------------------------- MODULE MCAttachmentStore --------------------------
(* TLC instances of AttachmentStore: two attachments, on one note or on two. *)
EXTENDS AttachmentInvariant, TLC

CONSTANTS k1, k2, n1, n2, u1, h1, h2

OneNote == [k \in Keys |-> n1]
TwoNotes == (k1 :> n1) @@ (k2 :> n2)
OneOwner == [n \in Notes |-> u1]
=============================================================================
