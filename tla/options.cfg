\* A program that has started, or not, has nothing more to parse.
SPECIFICATION Spec
CHECK_DEADLOCK FALSE
CONSTANTS
  help = help
  keepalive = keepalive
  port = port
  offset = offset
  host = host
  whole = whole
  decimal = decimal
  word = word
  Switches <- SomeSwitches
  Help = help
  HelpLetter = h
  IntOptions = {port}
  DoubleOptions = {offset}
  TextOptions = {host}
  Wholes = {whole}
  Decimals = {decimal}
  Words = {word}
  Empty = Empty
  Stranger = Stranger
  StrangeLetter = x
  On = On
  Default = Default
  MaxArgs = 3
INVARIANTS
  TypeOK
  FirstSettingCounts
  OutcomeRight
