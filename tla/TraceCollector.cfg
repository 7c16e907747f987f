\* Two requests of one fetch: the hooks of the first may run during the second.
SPECIFICATION Spec
CONSTANT MaxRequests = 2
INVARIANTS TypeOK ReuseIsOwn FirstByteNeedsConn FaithfulUnlessLate
