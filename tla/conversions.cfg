\* Every variant, nested arrays and objects, new and old forms of messages.
CONSTANTS
    MaxI64 = 4
    Samples <- SampleValues
    Schemas <- SampleSchemas
    FieldValues <- SampleFields
SPECIFICATION ConversionsSpec
INVARIANTS
    ReloadStable
    MessageSurvives
    CoercionStable
