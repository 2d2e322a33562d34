CONSTANTS
  Parameters <- MCParameters
  Ignored = 254
  Values = {0, 1}
  Default = 0
  Sizes = {1, 2}
  SizeAtFirst = 1
  Changed <- MCChanged
  Resized <- MCResized
  MaxUpgrades = 1

SPECIFICATION Spec

INVARIANTS
  RestoreComplete
  

PROPERTIES
  StoreContract
  EndsInOrder
