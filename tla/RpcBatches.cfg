\* Batches of up to two calls.
CONSTANT MaxBatch = 2
SPECIFICATION Spec
INVARIANT TransactionsAreMirrored
