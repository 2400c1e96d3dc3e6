SPECIFICATION AlgorithmsSpec
CHECK_DEADLOCK FALSE
INVARIANTS
  ReviewApplied
  MergeKeepsBothSides
  SettingsAgree
  DocumentsFound
  PublicationsComplete
  FieldsByPriority
  TemplatesValidated
  LinksLand
