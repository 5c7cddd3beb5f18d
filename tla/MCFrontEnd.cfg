CONSTANT Inputs <- MCInputs
SPECIFICATION Spec
INVARIANTS
    TypeOK
    InferredDividesEvenly
    ConstructorDecides
    BuildsWorkflow
CHECK_DEADLOCK FALSE
