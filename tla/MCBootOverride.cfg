\* As MCBoot.cfg: the promise of README.rst:184 about the last medium.
CONSTANTS
  Configs <- UpToTwo
  NumParts = 2
  MaxNs = 2
SPECIFICATION Spec
INVARIANTS LastIsKept
