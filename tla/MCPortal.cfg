CONSTANTS
    Pointer = 192
    OurNames <- TwoNames
    OutLen = 8
    Packets <- SomePackets
    BufLen = 8
    UiWindow = 2
    ClockMod = 6
SPECIFICATION PortalSpec
INVARIANTS WindowIsExact MdnsAnswersOurs DnsHijacks
