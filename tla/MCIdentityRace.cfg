SPECIFICATION Spec
CONSTANTS
  alice = alice
  bob = bob
  w1 = w1
  w2 = w2
  w3 = w3
  Identities <- MCIdentities
  Monitored <- MCIdentities
  Unresolved <- MCUnresolved
  Callers <- MCCallers
INVARIANT BackedUseIsConfirmed
