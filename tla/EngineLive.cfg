SPECIFICATION FairSpec

CONSTANTS
  e = e
  h = h
  t = t
  r1 = r1
  r2 = r2
  Session = {e, h}
  Foreign = {}
  Exe = {e}
  Holder = {h}
  Reconciler = {r1}
  Faults = {}
  MaxCrash = 1
  MaxSinkFails = 0

INVARIANTS
  EveryWorkerAccounted

PROPERTIES
  ImplementsLifecycle
  ProvisioningSettles
  ExitObserved
  NoZombieWatcher

