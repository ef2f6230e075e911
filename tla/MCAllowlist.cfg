SPECIFICATION AllowlistSpec
CONSTANTS
  Accounts = {a1, a2}
  Users = {u1, u2}
  Rights = {deposit}
  Deny = deny
  Firewall = firewallOfAllowlist
  Nobody = nobody
SYMMETRY Symmetry
PROPERTY DenialSticks
