SPECIFICATION Spec
CONSTANTS
  Secrets = {s1}
  Zero = Zero
INVARIANTS CoresClearedByZeroize
