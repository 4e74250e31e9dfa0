-------------------------- MODULE MCPerCpuCounter ---------------------------
(* TLC instances of PerCpuCounter. *)
EXTENDS PerCpuCounter

SockAddrOnly == {SockAddr}
DeviceOnly   == {CgroupDevice}

\* The hypothesis of the theorems holds of all programs but these two.
ASSUME SumsAssumption == {p \in SummingPrograms \cup SockAddrOnly \cup DeviceOnly : Sums(p)}
                             = SummingPrograms
=============================================================================
