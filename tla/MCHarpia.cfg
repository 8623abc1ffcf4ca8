SPECIFICATION HarpiaSpec
CONSTANTS
    c1 = c1
    c2 = c2
    Clients = {c1, c2}
    Readers = {r1, r2}
    Polls = 2
    I2CLengths = {0, 2}
    I2CMax = 3
    SPILengths = {0, 1, 2, 3}
    MaxLen = 2
    FifoSize = 1
    SPIMax = 2
    Text <- MCText
    TxDepth = 2
    RxDepth = 2
    MaxBytes = 1
    Voltages <- MCVoltages
    MaxCalls = 3
INVARIANTS VoltageSound I2CSound SPISound UARTSound
PROPERTIES I2CTransfers CallsReturn
CHECK_DEADLOCK FALSE
