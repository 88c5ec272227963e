CONSTANT Jobs <- MCJobs
SPECIFICATION BlockSpec
INVARIANT OneConstantPerAngle
CHECK_DEADLOCK FALSE
