------------------------------ MODULE MCEntry ------------------------------
(***************************************************************************)
(* What stands around an interview, in parts that share no state, side by  *)
(* side: signing in by email, documents, an invitation to a screening, the *)
(* admission of a start, the registry a campaign pins from, and decisions  *)
(* and appeals.  A behaviour is a behaviour of one of them, picked in the  *)
(* initial state.                                                          *)
(***************************************************************************)
EXTENDS ActionTokens, Documents, Screening, Admission, Registry, Appeals, TLC

\* The parts share their interchangeable values: x and y are whatever the part
\* that runs takes them for.
CONSTANTS p1, x1, x2, y1, y2, a1, s1, t1, t2, h1

TwoThings == {x1, x2}     \* codes, uploads, links, screenings, bodies, decisions
TwoActors == {y1, y2}     \* requests, clerks, starts, library calls, appeals
Three == {y1, y2, p1}     \* presentations of tokens, visits, reviewers, seats
OneLinkToken == {a1}
OneSpan == {s1}
TwoTakers == {t1, t2}
OneResume == {h1}
OneUnit == {1}

Alike == Permutations(TwoThings) \cup Permutations(TwoActors)

VARIABLE part

EntryInit ==
  /\ part \in {"tokens", "documents", "screening", "admission", "registry", "appeals"}
  /\ TokensInit /\ DocumentsInit /\ ScreeningInit
  /\ AdmissionInit /\ RegistryInit /\ AppealsInit

Only(x) ==
  /\ part = x /\ UNCHANGED part
  /\ x # "tokens" => UNCHANGED tokenVars
  /\ x # "documents" => UNCHANGED documentsVars
  /\ x # "screening" => UNCHANGED screeningVars
  /\ x # "admission" => UNCHANGED admissionVars
  /\ x # "registry" => UNCHANGED registryVars
  /\ x # "appeals" => UNCHANGED appealVars

EntryNext ==
  \/ Only("tokens") /\ TokensNext
  \/ Only("documents") /\ DocumentsNext
  \/ Only("screening") /\ ScreeningNext
  \/ Only("admission") /\ AdmissionNext
  \/ Only("registry") /\ RegistryNext
  \/ Only("appeals") /\ AppealsNext

entryVars == <<part, tokenVars, documentsVars, screeningVars, admissionVars,
               registryVars, appealVars>>

EntrySpec == EntryInit /\ [][EntryNext]_entryVars

\* Every part keeps to its types.
TypeOK ==
  /\ TokensTypeOK /\ DocumentsTypeOK /\ ScreeningTypeOK
  /\ AdmissionTypeOK /\ RegistryTypeOK /\ AppealsTypeOK
=============================================================================
