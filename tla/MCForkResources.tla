-------------------------- MODULE MCForkResources --------------------------
(* Small instances of ForkResources for TLC.                               *)
EXTENDS ForkResources

\* fork, vfork, pthread_create; and a namespace of its own, which needs a privilege
ForkVforkThread ==
    {{"namespace"}, {"VM", "VFORK", "namespace"},
     {"VM", "files", "fs", "sighand", "namespace"}}
VforkAndNewNamespace == {{"VM", "VFORK", "namespace"}, {"VM"}}

============================================================================
