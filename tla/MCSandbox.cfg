SPECIFICATION FairSandboxSpec
CONSTANT Confs <- MCConfs
INVARIANTS Judged 
 
CHECK_DEADLOCK FALSE
