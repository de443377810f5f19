CONSTANTS
  Text <- MCText
  BootDir <- MCBootDir
  Lower <- MCLower
  Hour = 4
  DefaultPollInterval = 2
  DefaultUpdateTimeout = 5
SPECIFICATION MCSpec
INVARIANT InjectionAlwaysSound
