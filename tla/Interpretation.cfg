CONSTANTS
  p1 = p1
  p2 = p2
  bill = bill
  letter = letter
  contract = contract
  project = project
  stranger = stranger
  x = x
  y = y
  Absent = Absent
  None = None
  Path <- Paths
  Content <- Contents
  Input <- Inputs
  Forms <- FileForms
  Adapters <- OcrAdapters
  Engines <- OcrEngines
  MaxItems = 4
  Field <- Fields
  Identifying <- Identifiers
  Catalog <- Records
  Facts <- ParsedFacts
  InterpreterReply <- Replies
  MaxEdits = 2
  Faulty = TRUE
SPECIFICATION RunSpec
CHECK_DEADLOCK FALSE
INVARIANT RelationsAreTraced
INVARIANT PlanAnswersEveryFile
PROPERTY BoundToItsBytes
