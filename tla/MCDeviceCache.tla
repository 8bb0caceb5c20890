--------------------------- MODULE MCDeviceCache ---------------------------
(***************************************************************************)
(* An instance of DeviceCache for TLC.                                     *)
(***************************************************************************)
EXTENDS DeviceCache, TLC

\* Neither domains nor devices of one PCI-id differ.
ThreadAndDeviceSymmetry == Permutations(Threads) \cup Permutations(Devices)

=============================================================================
