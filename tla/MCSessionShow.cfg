SPECIFICATION Spec
CONSTANTS
  localhost = localhost
  remote = remote
  badHost = badHost
  garbled = garbled
  NoUrl = NoUrl
  NoValue = NoValue
  Name <- MCName
  ValidHost <- MCValidHost
  DEFAULT_HOST = localhost
  OverRead = garbled
  Input <- AllInput
  How = {"SET", "LOCAL"}
  PingHost = {remote}
  PingPort <- MCPingPort
PROPERTIES
  ShowPrintsSetting
