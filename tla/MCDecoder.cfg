SPECIFICATION DecodeSpec
CONSTANTS
    Names = {"", "utf-8", "utf-16le", "windows-1252", "nonsense"}
    ProbeLen = 8
    MaxChars = 4
INVARIANTS
    DecodeTypeOK
    DecodedRight
