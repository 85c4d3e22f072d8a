\* Messages of every type with every choice of optional fields, real lengths.
CONSTANTS
    Text <- MCText
    Size <- MCSize
    Printable <- MCPrintable
    Requests <- MCRequests
    PortOf <- MCPortOf
    Rand <- MCRand
    Digits <- MCDigits
    Stamp <- MCStamp
    B64 <- MCB64
    Unb64 <- MCUnb64
    Dec <- MCDec
    Number <- MCNumber
    Length <- MCLength
    Version = "3.0.0"
    TimeoutBits = 7
    ClientOptions <- MCClientOptions
    LibraryMessages <- MCLibraryMessages
    MinEncoded = 36
    MaxEncoded = 1500
    BufferSize = 1500
    KeyText <- MCKeyText
    KeyBytes <- MCKeyBytes
    Padded <- MCPadded
    Lower <- MCLower
    SenderSettings <- MCSenderSettings
    StanzaSettings <- MCStanzaSettings
SPECIFICATION Spec
INVARIANTS
    TypeOK
    RoundTrip
    ClientUnderstood
    CoreArrives
    TimeoutFitsType
    DecodedIsValid
CHECK_DEADLOCK FALSE
