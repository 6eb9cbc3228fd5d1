CONSTANTS
    Callers = {t1, t2}
    MaxCalls = 2
    ChannelLen = 1
    QueueLen = 2
    PrioQueueLen = 1
    EnablePriority = TRUE
    Answers = {ok, failed}
SPECIFICATION Spec
INVARIANTS
    NoLostWakeup
    AnswerFindsFuture
PROPERTIES
    ServedInOrder
    ImplementsRemoteCall
CHECK_DEADLOCK FALSE
