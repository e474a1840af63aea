\* Pairs of nested expressions and statements, and calls, errors and limits.
SPECIFICATION ProgramSpec
CONSTANTS
  Programs <- MCPrograms
  PARAMS <- MCParams
  Globals <- MCGlobals
  ListMethod <- MCDecompile
  LineOf <- MCLineNumber
  ParseText <- MCParse
  Packed <- MCPackObject
  SizeOf <- MCSizeObject
  Unpacked <- MCUnpackObject
  Expected <- MCOutcome
  Hash <- MCHash
  STARTING_SIZE = 1
  MALLOC_DELTA = 0
  METHOD_TICKS = 160
  MAX_CALL_DEPTH = 2
  THIS = 1
  Lookup <- MCLookup
  CLASS_READ = 7
  Order <- MCOrder
  NotRaised = NotRaised
  Bytes <- MCBytes
  Opcodes <- MCOpcodes
  Types <- MCTypes
  CLASS = "class"
  POINTER = 99
INVARIANTS
  RunsAsWritten
  StackAsCompiled
  DepthBounded
  TablesExact
  PackRoundTrip
  ListingIsSource
  LinesAgree
PROPERTIES
  TaskEnds
