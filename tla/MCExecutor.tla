---- MODULE MCExecutor ----
(* Constants of the executor's runs that a cfg cannot write. *)
EXTENDS Executor

AllModes == [useFlashbots : BOOLEAN, simulationMode : BOOLEAN]
====
