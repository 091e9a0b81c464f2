SPECIFICATION Spec
CONSTANTS
  other = other
  s1 = s1
  s2 = s2
  Tables = {t1}
  Times = {1, 2, 3}
  Batches = {b1, other}
  Schemas = {s1, s2}
  NoSchema = noSchema
  SchemaOf <- MCSchemaOf
  MaxBatches = 2
  MaxSnapshots = 4
INVARIANT
  Ordered
PROPERTIES
  PastIsStable
  ImplementsVersionMap
