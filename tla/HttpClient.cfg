CONSTANTS
    Request = {r1, r2, r3}
    Blocking = {r1, r2}
    None = None
SPECIFICATION FairSpec
PROPERTIES AnswersInOrder StatusFinal CallReturns EveryRequestAnswered
CHECK_DEADLOCK FALSE
