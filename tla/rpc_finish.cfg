SPECIFICATION Spec
CONSTANTS
  Rpc = {r1, r2}
  Thread = {t1}
  None = None
PROPERTIES FinishFinishesAll
