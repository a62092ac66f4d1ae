SPECIFICATION Spec
CONSTANTS
  Ratio = 10
  Devices <- Line
  Retaining = 10
  Conversion = 75
  Window = 10
  Readings <- Sixteenths
  MaxReadings = 4
  Delays = {50, 100}
INVARIANTS TypeOK ShownIsRecent FilterFollowsReadings TemperatureRead
PROPERTIES ConversionFinishedUndisturbed ShownWhilePlugged ExpiresWhenUnplugged
