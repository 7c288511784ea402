SPECIFICATION Spec
CONSTANTS
  Forms <- TheForms
  Width = 2
  MaxForms = 3
  MaxSaves = 2
  Strings <- TheStrings
  Markers <- TheMarkers
  Values <- TheValues
  ListValues <- TheListValues
  Templates <- TheTemplates
  Written <- TheWritten
  Bytes <- TheBytes
  Messages <- TheMessages
  Scripts <- TheScripts
  Arguments <- TheArguments
  HashDim = 7
  Indices = {0, 1, 2, 3}
INVARIANTS FilesKeepValues TextsReadBack  ProceduresAgree
