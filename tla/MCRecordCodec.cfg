SPECIFICATION CodecSpec
CONSTANTS
    Integers64 = {0, 1, 9}
    Previous <- MCPrevious
    Payloads <- MCPayloads
    References <- MCReferences
    SignatureStrings <- MCSignatures
    Unprintable <- MCUnprintable
    Forged <- MCForged
    SizeChange <- MCSizeChange
    MaxEdits = 3
CHECK_DEADLOCK FALSE
INVARIANTS LegalInputsBuild AcceptedIsCanonical DigestPinsRecord
