CONSTANTS
  MaxInt = 3
  maxReplacementParts = 3
  maxCollectionValues = 3
  maxScalarRangeElements = 3
  maxBagPathBytes = 7
  maxBagPathDepth = 2
  maxSetKeyDepth = 1
  maxSetValues = 2
  MaxRows = 3
  maxCollectSize = 3
  maxCollectBytes = 9
  maxCollectionBytes = 5
  maxBagProperties = 2
  maxDistinctValues = 3
  maxSchemaNodes = 7
  Width = 3
  exactDigestValues = 2
  digestCompression = 2
  HashBits = 3
  maxHLLSparseHashes = 2
  separators = {32}
  maxReduceTerms = 2
  maxReplacementBytes = 4
  maxReplacementWork = 12
  maxCharacterStringBytes = 4
  V4Bits = 3
  V6Bits = 5
  privateIPv4Prefixes <- PrivateRanges
  maxIPv4Ranges = 2
  maxIPRangeListItems = 4
  Identifiers <- KeyIdentifiers
  Lower <- LowerCase
  fieldDiscoverySampleRecords = 2
  MaxNesting = 4
SPECIFICATION Spec
INVARIANT WindowedSearchAnswers
