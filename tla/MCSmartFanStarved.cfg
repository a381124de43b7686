SPECIFICATION FairSpec

CONSTANTS
  c1 = c1
  c2 = c2
  NaN = NaN
  None = None
  Conns <- OneConn
  Temps <- TwoTemps
  Setpoints <- OneSet
  Secrets <- OneSecret
  FanSecret <- Good
  THRESHOLD_MIN <- Min
  THRESHOLD_MAX <- Max
  DEFAULT_TEMP_THRESHOLD <- Default
  FAN_HYSTERESIS <- Band
  MaxTokens = 1

PROPERTIES
  SampledForever
