SPECIFICATION Spec
CONSTANT
  Constants <- MCConstants
INVARIANTS
  TypeOK
  EncodesValue
  OrderRight
  PrintsValue
  NoDrift
