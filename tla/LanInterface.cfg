SPECIFICATION Spec
CONSTANTS
  eth1 = eth1
  br0 = br0
  eth2 = eth2
  Interface = {eth1, br0, eth2}
  First = eth1
  NoInterface = NoInterface
INVARIANTS
  TypeOK
  SuccessAgrees
  SettingsKept
