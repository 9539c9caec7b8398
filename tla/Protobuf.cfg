SPECIFICATION Spec
CONSTANTS
  Schemas <- MCSchemas
  Samples <- MCSamples
  Messages <- MCMessages
  NewerMessages <- MCNewerMessages
  NewNumbers <- MCNewNumbers
  NewText <- MCNewText
  MaxChanges = 1
INVARIANTS
  SizeIsExact
  ReadsWhatWasWritten
  FailsForAReason
