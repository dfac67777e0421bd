SPECIFICATION Spec
CONSTANTS
    FIFO_DEPTH = 3
    Classes <- MCClasses
    Configs <- MCConfigs
PROPERTIES
    OutputHeld
