\* Six bytes of ROM, five of RAM, three of EEPROM; IO RAM of two bytes in four.
SPECIFICATION BoardsSpec
CONSTANTS
  Size = 2
  Values = {17, 1}
  Nothing = 0
  Space = 26
  RomTop = 6
  RamBase = 8
  RamTop = 13
  EeBase = 14
  EeTop = 17
  LatchBase = 18
  IoSpan = 36
  IoRam = 2
  IoCells = 2
  IoFifo = 6
  IoDuart = 10
  IoNone = 34
  Rom <- MCRom
  Written = {17, 1}
  Programs <- MCPrograms
INVARIANTS
  WideIsBytes
PROPERTIES
  EepromSurvives
