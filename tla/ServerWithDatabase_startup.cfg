SPECIFICATION Spec

INVARIANT ClientsNeverRefused
