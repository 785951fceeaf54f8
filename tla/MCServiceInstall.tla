---------------------------- MODULE MCServiceInstall --------------------------
(* The instance of ServiceInstall that TLC checks. *)
EXTENDS ServiceInstall, TLC

\* The two versions of a user's file differ in name only.
MCSymmetry == Permutations(Versions)

\* A bound: after a fault and an edit there is no trial, one of the two
\* topologies that take over, which differ in name only, and one keyring.
FaultAndEdit ==
    faults + edits > 1 =>
        trial = "no" /\ "full" \notin {config, cmd.mode, last.mode} /\ "gopass" \notin {owner, backend}

=============================================================================
