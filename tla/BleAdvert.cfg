SPECIFICATION Spec
CONSTANTS
  Charges <- SomeCharges
  BleIds <- SomeIds
INVARIANTS
  AdvertTypeOK
  SidesAreRight
  EncryptedAgrees
