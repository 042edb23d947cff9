------------------------------ MODULE MCCandidate ------------------------------
(***************************************************************************)
(* Two instances of Candidate in one run, since both at once are too many   *)
(* states: either two findings are repaired and no call goes to a remote    *)
(* model, or remote calls wait for an approval and only the finding that is *)
(* found late, in a review of a repair, exists.                             *)
(***************************************************************************)
EXTENDS Candidate

VARIABLE remote

CandidatesInit == Init /\ remote \in BOOLEAN

CandidatesNext ==
  /\ UNCHANGED remote
  /\ Next
  /\ remote => \A f \in Findings \ Late : findings'[f] = Unseen
  /\ ~remote => \A e \in Engines : engine'[e].outcome \notin egressOutcomes

CandidatesSpec == CandidatesInit /\ [][CandidatesNext]_<<remote, vars>>

================================================================================
