SPECIFICATION TranslatorsSpec
CONSTANTS
  Extensions <- MCExtensions
  IntRegisters <- MCIntRegisters
  GivenRegisters <- MCGivenRegisters
  GivenImmediates <- MCGivenImmediates
  LoadValues <- MCLoadValues
  LinkOffsets <- MCLinkOffsets
  Chunk = 8
  Half = 256
  DraftValues <- MCDraftValues
  Images <- MCImages
  NameBytes <- MCNameBytes
  Limit <- MCLimit
  MaxElfSize <- MCMaxElfSize
INVARIANTS
  FetchedAsMeant
  NothingMadeIsRefused
  AccessIsTheHarts
  DestinationsAreTracked
  LoadsTheValue
  FileHoldsTheImage
  SymbolsResolve
  FileIsAsPlanned
CHECK_DEADLOCK FALSE
