SPECIFICATION MCSpec
CONSTANTS
    Width = {1, 66}
    Octet = {0, 1, 2, 3, 48, 128, 129}
    Longest = 4096
    Value <- MCValue
    RsaIntegers <- MCRsaIntegers
    MaxDamage <- MCMaxDamage
INVARIANTS
    MCTypeOK
    OneEncoding
    ReadBack
    KeysWritten
