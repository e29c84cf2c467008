\* One task, the three default buckets and one more.
CONSTANTS
    Task = {t1}
    MaxBuckets = 4
SPECIFICATION Spec
INVARIANTS
    NamedBucketsExist
    
