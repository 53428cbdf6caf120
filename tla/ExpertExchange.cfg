SPECIFICATION FairSpec
CONSTANTS
  a1 = a1  a2 = a2  a3 = a3  b1 = b1  b2 = b2
  p1 = p1  q1 = q1
  h1 = h1  h2 = h2  h3 = h3  k1 = k1  k2 = k2
  t1 = t1  t2 = t2
  A = A  B = B  None = None  Junk = Junk
  Layers <- MCLayers
  Experts <- MCExperts
  Slots <- MCSlots
  Blobs <- MCBlobs
  LayerOf <- MCLayerOf
  Resident0 <- MCResident0
  Store0 <- MCStore0
  Stages <- MCStages
  MaxSwaps = 2
INVARIANTS
  TypeOK ExactlyOnePlace BytesRight Bookkeeping
PROPERTIES
  ExchangeCompletes
