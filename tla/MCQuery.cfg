CONSTANTS
  Texts <- MCTexts
  NumberOf <- MCNumberOf
  Chars <- MCChars
  StringFn <- MCStringFn
  Schema <- MCSchema
  Names <- MCNames
  Literals <- MCLiterals
  Parameters <- MCParameters
  Quoted <- MCQuoted
  Sources <- MCSources
  Stores <- MCStores
SPECIFICATION Spec
INVARIANTS  LoweredAgrees  OnlyRealErrors 
