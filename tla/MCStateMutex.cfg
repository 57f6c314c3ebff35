SPECIFICATION MutexSpec
CONSTANTS
    WireBound <- MCWireBound
PROPERTIES
    EveryRequestAnswered
    TasksComeBack
