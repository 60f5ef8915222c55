CONSTANTS
  Identities = {i1, i2}
  Grants <- MCGrants
  Supplies <- MCSupplies
  MaxVersion = 6
SPECIFICATION Spec
INVARIANTS
  AlwaysSupported
  AdvanceIsAllowed
  AdvanceMirrorsKeep
