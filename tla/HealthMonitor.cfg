\* One worker process, killed and restarted any number of times, and any outages.
SPECIFICATION FairSpec
PROPERTIES
    WrittenOnEvidence
    OutageIsReported
