SPECIFICATION Spec
CONSTANTS
  f = f
  g = g
  text = text
  number = number
  open = open
  closed = closed
  NoRules = NoRules
  Rules = {open, closed, NoRules}
  Field = {f, g}
  Kind = {text, number}
  Subject = {s1}
  Client = {c1}
  Declarations <- MCDeclarations
  MaxSchemas = 3
  MaxResets = 1
  MaxRestarts = 1
INVARIANTS
  RowsFit
  RowsComplete
  RebootChangesNothing
  OutdatedOnlyByReset
