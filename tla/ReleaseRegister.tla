-------------------------- MODULE ReleaseRegister --------------------------
(***************************************************************************)
(* What a tag's release is to those who run update_github_release.py: one  *)
(* register holding the notes that are published, if any, and reports of   *)
(* success only from writers whose notes were put there.                   *)
(***************************************************************************)
CONSTANTS Updaters, Nobody

VARIABLES drafts,     \* the writers of drafts
          notes,      \* whose notes are published, or Nobody
          written,    \* those whose notes have been put there
          succeeded   \* those whose last run reported success

vars == <<drafts, notes, written, succeeded>>

Init == /\ drafts \in SUBSET Updaters
        /\ notes = Nobody
        /\ written = {}
        /\ succeeded = {}

(* A writer that has been heard before may be heard again: a delayed or    *)
(* repeated request.  A draft hides what it replaces or adds nothing.      *)
Write(p) == /\ \/ p \notin drafts /\ notes' = p
               \/ p \in drafts /\ notes' \in {notes, Nobody}
            /\ written' = written \union {p}
            /\ UNCHANGED <<drafts, succeeded>>

Succeed(p) == /\ p \in written
              /\ succeeded' = succeeded \union {p}
              /\ UNCHANGED <<drafts, notes, written>>

Next == \E p \in Updaters : Write(p) \/ Succeed(p)

Spec == Init /\ [][Next]_vars
=============================================================================
