\* Formulas, receipts and repository configs with up to two hand edits; file
\* names of up to five characters and an ending; up to ten bytes to code.
CONSTANTS
  ShaLength = 2
  TimeLength = 2
  VersionIn <- MCVersionIn
  Stamp <- MCStamp
  Signature <- MCSignature
  MaxBytes = 10
  MaxNewlines = 5
  BufferSize <- MCBufferSize
  MaxEdits = 2
  MaxStem = 5
SPECIFICATION MCSpec
INVARIANTS LastLineWins WrittenReadsBack NameTellsVersion CodedIsWhole
CHECK_DEADLOCK FALSE
