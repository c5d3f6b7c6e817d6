------------------------------ MODULE MCSimple ------------------------------
(* The example on every architecture.                                      *)
EXTENDS Simple

MCArchs == {"aarch64", "riscv64_soft", "riscv64_hard", "amd64", "arm"}
MCMemory == <<1008, 1408, 1808>>

=============================================================================
