CONSTANT CPUs = {c1, c2}
SPECIFICATION Spec
INVARIANT SingleCpu
CHECK_DEADLOCK FALSE
