CONSTANTS
  ALLOC = SHF_ALLOC
  ProcessorMap <- MCProcessorMap
  SectionHeaders <- MCSectionHeaders
  MaxSections = 2

SPECIFICATION Spec

\* The constructor returns after the last section header.
CHECK_DEADLOCK FALSE

INVARIANT TypeOK
INVARIANT RequirementsMatchBlob
