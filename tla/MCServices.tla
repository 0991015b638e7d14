------------------------------ MODULE MCServices ------------------------------
(***************************************************************************)
(* Instances of the five models of services that share no state: a         *)
(* behaviour is one of theirs, chosen by its first step.                   *)
(***************************************************************************)
EXTENDS Profiles, Accounts, Requests, Diagnostics, Startup, TLC

VARIABLE part     \* the model whose behaviour this is
vars == <<part, profileVars, accountVars, requestVars, diagnosticVars, startupVars>>

Pairs(A, B) == (A \X B) \cup (B \X A)
MCProfilesApart ==
  Pairs({"rename"}, {"save", "edit"})
    \cup Pairs({"settings"}, {"save", "edit", "switch", "rename", "delete"})
MCApart == Pairs({"unbind"}, {"create", "update"})

MCSelections == {{"cache"}, {}, {"cache", "connectivity"}, {"streaming", "tool_use"}}

\* One of two old sites has a base_url; one of two old results is named.
MCOldSites == [s \in Site |-> IF s = "A" THEN "url1" ELSE ""]
MCOldResults == [f \in File |->
  IF f = "f1" THEN [url |-> "url1", name |-> ""] ELSE [url |-> "url2", name |-> "A"]]

MCInit ==
  /\ part = "any"
  /\ ProfilesInit /\ AccountsInit /\ RequestsInit /\ DiagnosticsInit /\ StartupInit

Runs(p) == part \in {"any", p} /\ part' = p

MCNext ==
  \/ /\ Runs("profiles") /\ ProfilesNext
     /\ UNCHANGED <<accountVars, requestVars, diagnosticVars, startupVars>>
  \/ /\ Runs("accounts") /\ AccountsNext
     /\ UNCHANGED <<profileVars, requestVars, diagnosticVars, startupVars>>
  \/ /\ Runs("requests") /\ RequestsNext
     /\ UNCHANGED <<profileVars, accountVars, diagnosticVars, startupVars>>
  \/ /\ Runs("diagnostics") /\ DiagnosticsNext
     /\ UNCHANGED <<profileVars, accountVars, requestVars, startupVars>>
  \/ /\ Runs("startup") /\ StartupNext
     /\ UNCHANGED <<profileVars, accountVars, requestVars, diagnosticVars>>

Spec == MCInit /\ [][MCNext]_vars

\* Handlers, requests and diagnoses in flight are the same two values.
Symmetry == Permutations(Handler)
=============================================================================
