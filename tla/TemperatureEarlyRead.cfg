SPECIFICATION Spec
CONSTANTS
  Ratio = 10
  Devices <- Line
  Retaining = 10
  Conversion = 75
  Window = 10
  Readings <- Sixteenths
  MaxReadings = 4
  Delays = {50}
PROPERTIES ConversionFinished
