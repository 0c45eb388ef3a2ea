\* Costa Rican and Brazilian numbers; tlc -continue goes on to the second violation.
CONSTANTS
    Calls <- PhoneCalls
    IbanLengths <- MCIbanLengths
SPECIFICATION ValidateSpec
INVARIANTS
    AllDocumentedPhonesAccepted
    OnlyDocumentedPhonesAccepted
\* A call ends with its verdict.
CHECK_DEADLOCK FALSE
