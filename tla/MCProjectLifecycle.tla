-------------------------- MODULE MCProjectLifecycle --------------------------
(***************************************************************************)
(* ProjectLifecycle on small instances.  Sessions are interchangeable: no  *)
(* definition names one, so permuting them is sound for safety.            *)
(***************************************************************************)
EXTENDS ProjectLifecycleProperties, TLC

SessionSymmetry == Permutations(Sessions)

\* Nothing fails and only the application writes: what is left is a user who
\* opens, edits, saves under another name, closes and opens again.
Uneventful ==
    /\ workerLive
    /\ fault = None
    /\ \A i \in DOMAIN completions : completions[i].ok
    /\ \A f \in Files : files[f] # None => files[f].project # None

=============================================================================
