---------------------------- MODULE MCConfigure ----------------------------
(***************************************************************************)
(* configure_fpga with two hosts that are interchangeable.                   *)
(***************************************************************************)
EXTENDS ConfigureFpga, TLC

MCSymmetry == Permutations(Partners)
=============================================================================
