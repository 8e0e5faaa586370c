SPECIFICATION FairSpec
CONSTANTS
  BurstLens <- MCBurstLens
  Capacity = 2
  MaxFrames = 3
INVARIANTS TypeOK FinishesDrained
PROPERTIES SendsBursts EveryPayloadIsSent FinishedStops
\* After Finished, or a panic, the block stops.
CHECK_DEADLOCK FALSE
