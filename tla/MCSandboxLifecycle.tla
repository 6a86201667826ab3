-------------------------- MODULE MCSandboxLifecycle --------------------------
(* Constants for the runs of SandboxLifecycle.                              *)
EXTENDS SandboxLifecycle
CONSTANTS t1, t2

\* The caller names the VM: every request may ask for every name.
CallerNames  == [i \in Ids |-> Tags]
\* No --name: the VM is named after the sandbox id.
DefaultNames == [i \in Ids |-> IF i = 1 THEN {t1} ELSE {t2}]
=============================================================================
