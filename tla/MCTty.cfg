SPECIFICATION TtySpec
CONSTANTS
    Readers = {r1, r2}
    Chars = {"a", "CR", "TAB", "BACKSPACE", "EOT"}
    TTY_BUF_SIZE = 3
    UART_BUF_SIZE = 2
    MaxBurst = 3
    MaxCnt = 3
SYMMETRY ReaderSymmetry
INVARIANTS SleepersMissNoLine
PROPERTIES ImplementsLine
