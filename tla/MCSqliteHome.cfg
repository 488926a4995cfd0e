CONSTANTS
    Word = 16
    HeaderLength = 1
    MaxIntSize = 2
    OsHome = "os home"
    MaxChanges = 3
    Now = 1
    Setups <- AllSetups
    SignIns <- FewSignIns
    Fetchable <- FewBundles
SPECIFICATION Spec
INVARIANTS
    TypeOK
    AbsenceIsCertain
    HomeIsPossible
    PlistAnswersAreComplete
    ReadsStayInFile
CHECK_DEADLOCK FALSE
