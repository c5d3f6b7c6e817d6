------------------------------ MODULE MCLibco ------------------------------
(* A root thread and two cothreads, on memory just above the largest saved *)
(* context, of a size that is neither a multiple of 16 nor of 8.           *)
EXTENDS Libco

MCArchs == {"aarch64", "riscv64_soft", "riscv64_hard", "amd64", "arm"}
MCMemory == <<1008, 1408>>
MCSize == 300

=============================================================================
