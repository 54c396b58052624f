SPECIFICATION FairSpec
CONSTANTS
    alice = alice
    bob = bob
    User = {alice, bob}
    MaxWrites = 3
    kMaxPendingWrites = 2
INVARIANTS
    PipelineIsTheQueue
    WireIsThePipeline
    SuccessIsTrue
PROPERTIES
    BlamesTheRefused
    KeepsThePromise
    WriteIsAnswered
