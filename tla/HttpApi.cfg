SPECIFICATION Spec
CHECK_DEADLOCK FALSE
INVARIANTS
    TypeOK
    AnsweredAndLogged
    OneBody
    StatusTellsEffect
