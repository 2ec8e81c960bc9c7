SPECIFICATION FairSpec
CONSTANTS
  Rpc = {r1, r2}
  Thread = {t1, t2}
  None = None
INVARIANTS TypeOK InfoKept
PROPERTIES FinishDelivers ImplementsPromise ArrivedCompletes InterruptEnds
