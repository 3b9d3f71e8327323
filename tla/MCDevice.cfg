SPECIFICATION Spec
CONSTANTS
  Encodings = {"UTF-8", "GBK"}
  Utf8 = "UTF-8"
  Looks = {"a", "b"}
  Configs <- ConfigInfo
  MaxConfigs = 2
  MaxItems = 2
\* A destroyed device does nothing more.
CHECK_DEADLOCK FALSE
INVARIANTS
  TypeOK
  RecordOfOneConfig
  MixedOnlyAtSwitch
  CallbackFindsDevice
PROPERTY
  ConverterFollows
