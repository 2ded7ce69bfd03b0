-------------------------- MODULE MCFormationJobs --------------------------
(* FormationJobs on small sets.  Stop generations are 1 and 2, as the Codex *)
(* hook makes them, and a job has the code's three attempts.                *)
EXTENDS FormationJobs, TLC

CONSTANTS t1, t2, p1, p2

OneTurn == {t1}
OneProposal == {p1}
TwoProposals == {p1, p2}
Far == {p2}
Nothing == {}
=============================================================================
