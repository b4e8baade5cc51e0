---------------------------- MODULE ModelServer ----------------------------
(***************************************************************************)
(* What the persistent model server promises, without processes, locks and *)
(* requests: one model configuration is loaded at a time, and another one  *)
(* only after the first is gone (README.md, "Persistent model server").    *)
(***************************************************************************)
CONSTANTS Config, NoConfig

VARIABLES loaded   \* the configuration of the running server, or NoConfig

ModelInit == loaded = NoConfig

Load(c) == loaded = NoConfig /\ loaded' = c

Unload == loaded # NoConfig /\ loaded' = NoConfig

ModelNext == Unload \/ \E c \in Config : Load(c)

ModelSpec == ModelInit /\ [][ModelNext]_loaded
=============================================================================
