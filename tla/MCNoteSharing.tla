----------------------------- MODULE MCNoteSharing -----------------------------
(* The instance of NoteSharing that TLC checks: two notes of one owner and a  *)
(* recipient.  Everything happens to the first; the second is there to be     *)
(* shared, edited and locked beside it.                                       *)
EXTENDS NoteSharing, TLC

CONSTANTS u1, u2

\* The first user owns every note.
FirstOwnsAll == [n \in Notes |-> u1]

OwnCall(u, op, n) ==
    [user |-> u, op |-> op, note |-> n, others |-> {}, permission |-> "none"]

ShareCall(op, n, permission) ==
    [user |-> u1, op |-> op, note |-> n, others |-> {u2}, permission |-> permission]

FewCalls ==
    {OwnCall(u, op, 1) : u \in Users,
        op \in {"update", "attach", "patchitem", "dropitem", "delete"}}
    \cup {OwnCall(u1, op, 1) : op \in {"additem", "schedule", "undelete"}}
    \cup {ShareCall("share", 1, "edit"), ShareCall("previous", 1, "view"),
          ShareCall("reshare", 1, "view"), ShareCall("unshare", 1, "none")}
    \cup {OwnCall(u2, "update", 2), ShareCall("share", 2, "edit")}
==============================================================================
