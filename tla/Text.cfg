CONSTANTS
  Texts <- SomeTexts
  MaxLen = 3
  MaxFree = 5
  IntMod = 64
  LongLongMod = 256
  ByteMod = 32
  SmallBuffer = 6
  LargeBuffer = 9
  MaxPlaces = 2
  StackBuffer = 2
  Bases = {0, 1, 2, 3, 10, 16, 17, 42}
  Ticks <- SomeTicks
  Places = {0, 1, 2, 3, 33}
  Scripts <- SomeScripts
  Targets <- SomeTargets
  Terminators = {"none", "b"}
  Ignores = {"none", ","}
  Limit = 2
SPECIFICATION TextSpec
INVARIANTS
  StringInv
  AnswersAgree
  PrintsTruly
  BytesInOrder
  FindsWhatIsThere
  ParsesWhatWasPrinted
