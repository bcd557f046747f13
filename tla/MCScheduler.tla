---------------------------- MODULE MCScheduler ----------------------------
(* Bounds for Scheduler.                                                   *)
EXTENDS Scheduler, TLC

CONSTANTS s1, s2, c1, c2, g1, g2

MCSchedulers == {s1, s2}
MCCallers == {c1, c2}
MCOneScheduler == {s1}
MCOneCaller == {c1}
MCSetters == {g1, g2}
MCOneSetter == {g1}

MCSpawnClasses == {Background, UserFacing}
MCRealtime == {Realtime}
MCHot == {Serious}
MCThermalReports == {Nominal, Fair, Serious, Critical}
MCColdOrHot == {Nominal, Serious}
MCColdOrCritical == {Nominal, Critical}
MCColdOrHotter == {Nominal, Serious, Critical}
MCCritical == {Critical}
MCNominal == {Nominal}
MCLow == {[level |-> 15, charging |-> FALSE]}
MCEmpty == {[level |-> 5, charging |-> FALSE]}
MCDraining == {[level |-> n, charging |-> FALSE] : n \in {5, 15}}
MCBackground == {Background}
MCBatteryReports == {[level |-> 100, charging |-> FALSE]}
MCBatteries == MCBatteryReports \cup MCLow

MCSymmetry == Permutations(MCSchedulers) \cup Permutations(MCCallers)
=============================================================================
