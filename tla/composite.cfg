CONSTANTS
  NULL = NULL
  Interfaces = {accel, gyro, temp}
  Phys = {i2c}
  RefModulus = 4
SPECIFICATION Spec
SYMMETRY Symmetry
INVARIANT ExactUnlessSpoilt
