SPECIFICATION Spec
CONSTANTS
  c1 = c1
  c2 = c2
  Contexts = {c1, c2}
  NoContext = none
  HandlerValues <- MCHandlerValues
  MaxNumbers = 2
  Crc16Polynom <- MCCrc16Polynom
  Crc16Initial <- MCCrc16Initial
  Crc32Polynom <- MCCrc32Polynom
  Crc32Initial <- MCCrc32Initial
  MessageBytes <- MCMessageBytes
  MaxMessage = 6
  Example <- MCExample
  Keys <- MCKeys
  Arrays <- MCArrays
  MaxCalls = 2
SYMMETRY Interchangeable
CHECK_DEADLOCK FALSE
INVARIANTS
  RegistersRunning
  OneSequence
  CrcIsRemainder
  AnswersExample
  EncryptIsFips197
  DecryptInverts
