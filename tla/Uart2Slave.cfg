SPECIFICATION FairSpec
INVARIANTS TypeOK BusDirection NeverDeaf
PROPERTIES AnswerNotCut ListensAgain
