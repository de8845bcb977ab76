CONSTANTS
  NumSlots = 3
  KChunkSize = 1
  KMaxChunks = 2
  FieldSize = 6
  MaxCount = 3
  HitSets <- MCHitSets
  MaxEpoch = 2
SPECIFICATION FairSpec
INVARIANTS TypeOK NoJobRace ChunkExclusive ClaimsFitField
PROPERTIES ImplementsForkJoin NobodySleepsOn
