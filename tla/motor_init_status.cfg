SPECIFICATION MotorSpec
CONSTANTS
    Percents = {3, 100, 150}
    \* nano.c: gpioInitialise leaves its status at 1
    InitOk = 1
    WriteOk = 1
INVARIANT RealWhenInitialised
