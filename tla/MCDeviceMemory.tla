--------------------------- MODULE MCDeviceMemory ---------------------------
(* Small instances of DeviceMemory for TLC.                                *)
EXTENDS DeviceMemory, TLC

PointerSymmetry == Permutations(Pointer)
=============================================================================
