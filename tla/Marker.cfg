SPECIFICATION Spec
CONSTANT Unit = 8
INVARIANTS
    TypeOK
    DroppedIsTold
PROPERTY
    FieldsAreIndependent
