SPECIFICATION ThrottlerFairSpec
CONSTANT MaxAdds = 6
INVARIANT OneCallPerRequest
PROPERTIES RequestServed WorkerEnds
CHECK_DEADLOCK FALSE
