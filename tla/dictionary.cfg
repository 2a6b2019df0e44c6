SPECIFICATION Spec
CONSTANTS
  MinWord = 2
  MaxWord = 3
  MaxSizeBits = 2
  MaxLists = 2
  Contexts = 2
  MaxStringlets = 3
  MaxStringletBytes = 2
  MaxTransforms = 3
  MaxCutOff = 1
  MaxPrefix = 3
  VarintBase = 2
  MaxVarintBytes = 3
  MaxPrefixes = 2
  Buckets = 2
  LongWord = 3
  CutOffStride = 1
  CutOffSpan = 2
  DecoderMaxPrefix = 6
  MaxCalls = 3
  MaxAttached = 3
  Budget = 60
  Base = 5
  BuiltinWords <- MCBuiltinWords
  BuiltinTransforms <- MCBuiltinTransforms
  LayoutBytes <- MCLayoutBytes
  WordInputs <- MCWordInputs
  TransformInputs <- MCTransformInputs
  Combos <- MCCombos
  ContextMaps <- MCContextMaps
  PrefixInputs <- MCPrefixInputs
  Limits <- MCLimits
  Permissive <- MCPermissive
  Raws <- MCRaws
  Others <- MCOthers
  Damages <- MCDamages
  Texts <- MCTexts
  Begun <- MCBegun
INVARIANTS ParsersReadTheSame ReferencesResolve AttachmentsAgree
