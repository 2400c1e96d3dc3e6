SPECIFICATION BooksSpec
CHECK_DEADLOCK FALSE
INVARIANTS
  EveryTemplateValidated
