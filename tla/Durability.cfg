SPECIFICATION Spec
CONSTANTS
  Caller = {"a", "b"}
  Torn = Torn
  MaxTry = 4
  MaxCrash = 2
  MaxFail = 1
INVARIANT CrashesDangleNothing
INVARIANT AnswersSurvive
INVARIANT LoggedOnce
 
INVARIANT AnsweredIsIndexed
CHECK_DEADLOCK FALSE
