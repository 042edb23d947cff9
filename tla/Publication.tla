---------------------------- MODULE Publication ----------------------------
(***************************************************************************)
(* What the publication of a candidate promises to the person who approves *)
(* it and to everyone who reads the remote branch, however often phases    *)
(* are repeated.  Evidence about commits is collected and never taken      *)
(* back.  Then there is one decision, about a commit that passed the full  *)
(* suite, after a review and with nothing open that blocks it; with it the *)
(* candidate is frozen.  The branch is created once, from the commit that  *)
(* was approved, and only if that very commit was reviewed too.            *)
(***************************************************************************)

CONSTANTS
  Blocker,        \* findings that can block a publication
  Nothing         \* no commit

VARIABLES
  made,           \* the commits there are
  verified,       \* commits that passed the full suite
  reviewed,       \* commits that were reviewed
  open,           \* findings that block a publication
  approved,       \* commits a person approved
  published       \* the commit of the remote branch

publicationVars == <<made, verified, reviewed, open, approved, published>>

PublicationInit ==
  /\ Nothing \notin made
  /\ verified = {} /\ reviewed = {} /\ open = {} /\ approved = {}
  /\ published = Nothing

Make ==
  /\ approved = {}
  /\ made \subseteq made' /\ Nothing \notin made'
  /\ UNCHANGED <<verified, reviewed, open, approved, published>>

Verify(c) ==
  /\ approved = {}
  /\ verified' = verified \union {c}
  /\ UNCHANGED <<made, reviewed, open, approved, published>>

Review(c) ==
  /\ approved = {}
  /\ reviewed' = reviewed \union {c}
  /\ open' \in SUBSET Blocker
  /\ UNCHANGED <<made, verified, approved, published>>

(* Findings are disputed, waived, fixed and closed, or found in documents.  *)
FindingsMove ==
  /\ approved = {}
  /\ open' \in SUBSET Blocker
  /\ UNCHANGED <<made, verified, reviewed, approved, published>>

Approve(c) ==
  /\ approved = {}
  /\ c \in verified /\ reviewed # {} /\ open = {}
  /\ approved' = {c}
  /\ UNCHANGED <<made, verified, reviewed, open, published>>

Publish(c) ==
  /\ published = Nothing
  /\ c \in approved \intersect verified \intersect reviewed
  /\ published' = c
  /\ UNCHANGED <<made, verified, reviewed, open, approved>>

PublicationNext ==
  \/ Make \/ FindingsMove
  \/ \E c \in made : Verify(c) \/ Review(c) \/ Approve(c) \/ Publish(c)

PublicationSpec == PublicationInit /\ [][PublicationNext]_publicationVars

=============================================================================
