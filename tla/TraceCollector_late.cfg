\* A hook of the first request runs during the second.
SPECIFICATION Spec
CONSTANT MaxRequests = 2
INVARIANT NeverPrior
