SPECIFICATION Spec
CONSTANTS
  Base = 128
  CodeStart = 4
  CodeEnd = 52
  DataEnd = 60
  Text = {120, 121, 123}
  Latin = {120, 121, 122, 123, 127}
  Ident = {120, 123}
  MaxCount = 3
  MaxAttr = 4
  MaxInstance = 20
  RecordKind = 119
  EnumKind = 118
  ClassKind = 117
  PlainKind = 116
  Chunk = 6
  Steps = 3
  MinChars = 2
  MaxChars = 3
  Align = 2
  Utf16 = 112
  FormChunk = 9
  MaxItems = 4
  MaxDepth = 1
  MaxBlob = 12
  Prefix = 96
  On = 123
  Values <- MCValues
  Controls <- MCControls
  Forms <- MCForms
  Images <- MCImages
INVARIANTS RecordsComplete ConstantsComplete RegionsSound StreamsSettled StreamsComplete
