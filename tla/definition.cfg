SPECIFICATION Spec
CONSTANTS
  Base = 4
  U8Max = 3
  U16Max = 15
  U32Max = 255
  MaxTypeRefFollow = 3
  MaxTexts = 3
  Texts <- MCTexts
INVARIANTS TypeOK SameTextSameVerdict ErrorLineBlamed ElementIsExpansion InitDataMeansInitValue SharedItemsOwn SignatureMeansElement
