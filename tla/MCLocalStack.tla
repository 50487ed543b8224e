----------------------------- MODULE MCLocalStack ------------------------------
(***************************************************************************)
(* Instances of LocalStack for TLC.                                        *)
(***************************************************************************)
EXTENDS LocalStack, TLC

(* Each kind of fault alone with what makes it interesting, and mixtures in *)
(* which one script meets what another left half done.                      *)
Env(faults, bootstraps, doctors) ==
    [faults |-> faults, bootstraps |-> bootstraps, doctors |-> doctors]

SmallEnvironments ==
    { Env({}, 2, 2),
      Env({"slow"}, 2, 0),
      Env({"crash"}, 2, 1),
      Env({"overlap"}, 2, 0),
      Env({"overlap"}, 1, 2),
      Env({"traffic"}, 1, 2),
      Env({"flaky", "crash"}, 2, 0),
      Env({"flaky"}, 1, 1),
      Env({"reset"}, 2, 1),
      Env({"flaky", "traffic"}, 1, 1) }

Symmetry == Permutations(Bootstraps) \cup Permutations(Doctors)

===============================================================================
