SPECIFICATION Spec
CONSTANTS
  Installation = {i1, i2}
  Machine = {m}
  Capacity = 1
  Grace = 1
  MaxShort = 2
  Port = {1, 2}
  Tunnel = {t1, t2}
  MaxFails = 1
  Nobody = Nobody
  NoName = NoName
  NoTunnel = NoTunnel
CONSTRAINT Focus
CHECK_DEADLOCK FALSE
INVARIANTS
  NothingLeaks
  NamesStay
  ReadyIsRouted
PROPERTIES
  GivenBack
