SPECIFICATION Spec
CONSTANTS
  Networks = {default, backup, custom}
  Default = default
  Backup = backup
  Configs = {custom, unset}
  Typable = {custom}
  Unset = unset
INVARIANT AdmittedOnly
