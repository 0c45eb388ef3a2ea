CONSTANTS
    Calls <- AllCalls
    IbanLengths <- MCIbanLengths
SPECIFICATION ValidateSpec
INVARIANTS
    PhonesAsDocumented
    IbanDetectsTypos
    CpfOfficial
    BanksValidated
\* A call ends with its verdict.
CHECK_DEADLOCK FALSE
