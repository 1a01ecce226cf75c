SPECIFICATION FairImagesSpec
CONSTANTS
  i1 = i1
  i2 = i2
  i3 = i3
  n1 = n1
  Ids = {i1, i2, i3}
  Names = {n1}
  NoImage = NoImage
  NameOf <- OneName
  Deleters = {d1, d2}
  NoRecord = NoRecord
  MaxFaults = 2
CHECK_DEADLOCK FALSE
INVARIANTS BuilderHasRecord OneRecordPerName DeletedStaysDeleted
PROPERTIES BuildsEnd
