CONSTANT MaxSignals = 3
SPECIFICATION ClientSpec
PROPERTY SecondSignalForcesExit
