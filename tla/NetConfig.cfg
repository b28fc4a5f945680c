SPECIFICATION Spec
CONSTANTS
  Ips = {i1, i2, i3}
  Macs = {m1, m2}
  Slots = 2
  s1 = s1
  s2 = s2
  Servers = {s1, s2}
  Stated <- MCStated
  ARP_TRIES = 2
  DHCP_TRIES = 2
  None = None
SYMMETRY Alike
INVARIANTS
  TableFresh
  ConfigGranted
