SPECIFICATION Spec
CONSTANTS
  full = full
  mig1 = mig1
  gpu0 = gpu0
  gpu1 = gpu1
  Devices = {full, mig1}
  ParentOf <- MCParentOf
  Xids = {"48", "13"}
  Skipped = {"13"}
  MaxXids = 3
PROPERTY XidTainted LostTainted UnmonitoredTainted
CHECK_DEADLOCK FALSE
